------------------------------ MODULE Analytics ------------------------------
(***************************************************************************)
(* Analytical work: the graph engine that runs a checkpointed DAG of nodes *)
(* (analytics/engine.py, stores.py), governed queries (governance/) and    *)
(* the compilation of metric queries (semantics/).                         *)
(***************************************************************************)
EXTENDS Integers, Sequences, FiniteSets

CONSTANTS
    GraphNodes, NodeDeps,    \* the DAG: [node -> the nodes it depends on]
    NodeKey,                 \* [node -> concurrency_key, or "" for none]
    Drives, DriveProcess,    \* calls of run and resume; [drive -> its process]
    MaxParallel, MaxTries,   \* maximum_concurrency, retry.maximum_attempts
    Questions,               \* governed requests, as records
    Policy,                  \* QueryGovernancePolicy
    MaxAge, QueryUntil,      \* maximum_age_seconds; the clock's bound
    SemanticQueries, SemanticModels, SemanticJoins, Caller,
    ModelVersions,           \* the registered predictive services, as records
    Predictions,             \* requests: [candidates, inputs, allowDrifted]
    Nothing

NodeStatus == {"pending", "running", "completed", "failed", "cancelled"}
GraphStates == [status : NodeStatus, version : Nat, nodes : [GraphNodes -> NodeStatus],
                results : [GraphNodes -> Drives \cup {Nothing}]]

ASSUME AnalyticsAssumption ==
    /\ \A n \in GraphNodes : NodeDeps[n] \subseteq GraphNodes \ {n}
    /\ MaxParallel \in Nat \ {0} /\ MaxTries \in Nat \ {0}
    /\ Policy.maxRows \in Nat /\ Policy.concurrency \in Nat \ {0} /\ QueryUntil \in Nat
    /\ IsFiniteSet(GraphNodes) /\ IsFiniteSet(DOMAIN Questions)
    /\ Nothing \notin Drives \cup GraphStates
    /\ \A q \in SemanticQueries :
         q.base \in q.models /\ q.models \subseteq DOMAIN SemanticModels /\ Len(q.filters) \in Nat
    \* A model has one default on a dimension, and a dimension belongs to one model.
    /\ \A m, n \in DOMAIN SemanticModels :
         \A f \in SemanticModels[m].defaults, g \in SemanticModels[n].defaults : f.field = g.field => f = g

VARIABLES
    stored,       \* the graph's row in the store
    drive,        \* [drive -> its step, its copy of the state, its active nodes]
    question,     \* [request -> its step, its answer]
    rowsCache,    \* [cache key -> rows]: the query_results cache
    audited,      \* the requests whose decision was audited
    queryClock,
    compiled,     \* the last query compiled, with the outcome
    prediction    \* a call of a predictive service, with the candidate it tries
graphVars == <<stored, drive>>
queryVars == <<question, rowsCache, audited, queryClock>>
analyticsVars == <<stored, drive, question, rowsCache, audited, queryClock, compiled,
                   prediction>>

Fresh == [status |-> "pending", version |-> 0,
          nodes |-> [n \in GraphNodes |-> "pending"], results |-> [n \in GraphNodes |-> Nothing]]
IdleDrive == [at |-> "idle", copy |-> Fresh, active |-> {}, tries |-> [n \in GraphNodes |-> 0],
              error |-> FALSE]

AnalyticsInit ==
    /\ stored = Nothing
    /\ drive = [d \in Drives |-> IdleDrive]
    /\ question = [q \in DOMAIN Questions |-> [at |-> "idle", rows |-> Nothing]]
    /\ rowsCache = [k \in {} |-> Nothing]
    /\ audited = {} /\ queryClock = 0
    /\ compiled = Nothing
    /\ prediction = Nothing

-----------------------------------------------------------------------------
(* The store: a save that does not find the version it read is a conflict. *)

\* Mutant: a save does not compare the version.
SavesOver(copy) == stored # Nothing

Saves(copy) == stored # Nothing /\ stored.version = copy.version

\* A drive that is over keeps nothing.
With(next, copy) == IF next.at \in {"raised", "completed"} THEN [IdleDrive EXCEPT !.at = next.at]
                    ELSE [next EXCEPT !.copy = copy]

\* _checkpoint: the store and the copy move to the next version together.
Checkpoint(d, copy, then, otherwise) ==
    LET saved == [copy EXCEPT !.version = @ + 1] IN
    IF Saves(copy)
    THEN stored' = saved /\ drive' = [drive EXCEPT ![d] = With(then, saved)]
    ELSE UNCHANGED stored /\ drive' = [drive EXCEPT ![d] = With(otherwise, copy)]

Raised(d) == [IdleDrive EXCEPT !.at = "raised"]

-----------------------------------------------------------------------------
(* Driving a graph. *)

RunGraph(d) ==
    /\ drive[d].at = "idle" /\ stored = Nothing
    /\ stored' = Fresh
    /\ drive' = [drive EXCEPT ![d].at = "locking"]

\* A node found running belongs to a worker that was interrupted, or to one
\* in another process.
ResumeGraph(d) ==
    /\ drive[d].at = "idle" /\ stored # Nothing
    /\ drive' = [drive EXCEPT ![d].at = "locking",
          ![d].copy = [stored EXCEPT
              !.status = IF @ = "running" THEN "pending" ELSE @,
              !.nodes = [n \in GraphNodes |-> IF @[n] = "running" THEN "pending" ELSE @[n]]]]
    /\ UNCHANGED stored

Holding == {"waves", "nodes", "failing"}

TakeLock(d) ==
    /\ drive[d].at = "locking"
    /\ \A x \in Drives : DriveProcess[x] = DriveProcess[d] => drive[x].at \notin Holding
    /\ Checkpoint(d, [drive[d].copy EXCEPT !.status = "running"],
                  [drive[d] EXCEPT !.at = "waves"], Raised(d))

\* _schedule, one round: the nodes whose dependencies are completed.
Incomplete(copy) == {n \in GraphNodes : copy.nodes[n] # "completed"}

Runnable(copy) == {n \in GraphNodes : /\ copy.nodes[n] = "pending"
                                      /\ \A m \in NodeDeps[n] : copy.nodes[m] = "completed"}

NextWave(d) ==
    LET copy == drive[d].copy IN
    /\ drive[d].at = "waves"
    /\ IF Incomplete(copy) = {}
       THEN Checkpoint(d, [copy EXCEPT !.status = "completed"],
                       [drive[d] EXCEPT !.at = "completed"], Raised(d))
       ELSE /\ drive' = [drive EXCEPT ![d] =
                 IF (\E n \in Incomplete(copy) : copy.nodes[n] \in {"failed", "cancelled"})
                    \/ Runnable(copy) = {}
                 THEN [@ EXCEPT !.at = "failing"]
                 ELSE [@ EXCEPT !.at = "nodes", !.active = Runnable(copy), !.error = FALSE]]
            /\ UNCHANGED stored

Running(d) == {n \in drive[d].active : drive[d].copy.nodes[n] = "running"}

KeyHeld(d, n) ==
    NodeKey[n] # "" /\ \E x \in Drives : /\ DriveProcess[x] = DriveProcess[d]
                                        /\ \E m \in Running(x) : NodeKey[m] = NodeKey[n]

\* The semaphore, then the key's lock, then the node is saved as running; a
\* conflict ends the node outside its try, as running.
StartNode(d, n) ==
    /\ drive[d].at = "nodes" /\ n \in drive[d].active
    /\ drive[d].copy.nodes[n] = "pending"
    /\ Cardinality(Running(d)) < MaxParallel
    /\ ~KeyHeld(d, n)
    /\ Checkpoint(d, [drive[d].copy EXCEPT !.nodes[n] = "running"],
                  [drive[d] EXCEPT !.tries[n] = 1],
                  [drive[d] EXCEPT !.active = @ \ {n}, !.error = TRUE])

\* _invoke: another attempt while the retry policy allows.
RetryNode(d, n) ==
    /\ drive[d].at = "nodes" /\ n \in Running(d)
    /\ drive[d].tries[n] < MaxTries
    /\ drive' = [drive EXCEPT ![d].tries[n] = @ + 1]
    /\ UNCHANGED stored

\* Inputs that do not resolve or fit raise before the try: nothing is saved.
InputsRefused(d, n) ==
    /\ drive[d].at = "nodes" /\ n \in Running(d)
    /\ drive' = [drive EXCEPT ![d].active = @ \ {n}, ![d].error = TRUE]
    /\ UNCHANGED stored

EndNode(d, n) ==
    /\ drive[d].at = "nodes" /\ n \in Running(d)
    /\ LET over == [drive[d] EXCEPT !.active = @ \ {n}]
           failed == [over EXCEPT !.error = TRUE]
       IN \/ Checkpoint(d, [drive[d].copy EXCEPT !.nodes[n] = "completed", !.results[n] = d],
                        over, failed)
          \/ /\ drive[d].tries[n] = MaxTries
             /\ Checkpoint(d, [drive[d].copy EXCEPT !.nodes[n] = "failed"], failed, failed)

\* gather returns once every node of the round has ended.
EndWave(d) ==
    /\ drive[d].at = "nodes" /\ drive[d].active = {}
    /\ drive' = [drive EXCEPT ![d].at = IF drive[d].error THEN "failing" ELSE "waves"]
    /\ UNCHANGED stored

FailGraph(d) ==
    /\ drive[d].at = "failing"
    /\ Checkpoint(d, [drive[d].copy EXCEPT !.status = "failed"], Raised(d), Raised(d))

\* The timeout, or the caller's cancellation: nodes in their try fail, and a
\* timeout cancels what is left.
StopGraph(d) ==
    /\ drive[d].at \in {"waves", "nodes"}
    /\ LET stopped == [n \in GraphNodes |-> IF n \in Running(d) THEN "failed"
                                            ELSE drive[d].copy.nodes[n]]
           ended == [n \in GraphNodes |-> IF stopped[n] \in {"pending", "running"} THEN "cancelled"
                                          ELSE stopped[n]]
       IN \/ Checkpoint(d, [drive[d].copy EXCEPT !.status = "failed", !.nodes = ended],
                        Raised(d), Raised(d))
          \/ Checkpoint(d, [drive[d].copy EXCEPT !.status = "cancelled", !.nodes = stopped],
                        Raised(d), Raised(d))

\* A process dies; its drives are gone, the store keeps what was saved.
ProcessDies(p) ==
    /\ \E d \in Drives : DriveProcess[d] = p /\ drive[d].at \in Holding \cup {"locking"}
    /\ drive' = [d \in Drives |-> IF DriveProcess[d] = p /\ drive[d].at # "idle"
                                  THEN Raised(d) ELSE drive[d]]
    /\ UNCHANGED stored

GraphNext ==
    /\ UNCHANGED <<queryVars, compiled, prediction>>
    /\ \/ \E d \in Drives :
             \/ RunGraph(d)
             \/ ResumeGraph(d)
             \/ TakeLock(d)
             \/ NextWave(d)
             \/ EndWave(d)
             \/ FailGraph(d)
             \/ StopGraph(d)
             \/ \E n \in GraphNodes :
                   \/ StartNode(d, n)
                   \/ RetryNode(d, n)
                   \/ InputsRefused(d, n)
                   \/ EndNode(d, n)
       \/ \E d \in Drives : ProcessDies(DriveProcess[d])

-----------------------------------------------------------------------------
(* Governed queries. *)

\* evaluate: every reason to deny, with the estimate and the age of now.
Reasons(q) ==
    LET r == Questions[q] IN
    (IF Policy.purposes # {} /\ r.purpose \notin Policy.purposes THEN {"purpose"} ELSE {})
    \cup (IF Policy.tags \subseteq r.tags THEN {} ELSE {"tags"})
    \cup (IF r.columns \cap Policy.deniedColumns # {} THEN {"column"} ELSE {})
    \cup (IF Policy.certified /\ ~r.certified THEN {"certified"} ELSE {})
    \cup (IF queryClock - r.observed > MaxAge THEN {"stale"} ELSE {})
    \cup (IF r.estimate > Policy.maxRows THEN {"rows"} ELSE {})
    \cup (IF r.actions \subseteq Policy.actions THEN {} ELSE {"export"})

AskQuery(q) ==
    /\ question[q].at = "idle"
    /\ IF Reasons(q) = {}
       THEN question' = [question EXCEPT ![q].at = "looking"] /\ audited' = audited \cup {q}
       ELSE question' = [question EXCEPT ![q].at = "denied"] /\ UNCHANGED audited
    /\ UNCHANGED <<rowsCache, queryClock>>

\* The fingerprint of the statement and of what the caller may see, in the
\* caller's scope of the cache.
RowsKey(q) == [sql |-> Questions[q].sql, auth |-> Questions[q].auth, tenant |-> Questions[q].tenant]

Within(rows) == Len(rows) <= Policy.maxRows

\* _validate_actual_rows, for rows from the cache too.
Answer(q, rows) ==
    question' = [question EXCEPT ![q] = IF Within(rows) THEN [at |-> "answered", rows |-> rows]
                                        ELSE [at |-> "refused", rows |-> Nothing]]

LookUp(q) ==
    /\ question[q].at = "looking"
    /\ IF RowsKey(q) \in DOMAIN rowsCache
       THEN Answer(q, rowsCache[RowsKey(q)])
       ELSE question' = [question EXCEPT ![q].at = "waiting"]
    /\ UNCHANGED <<rowsCache, audited, queryClock>>

Querying(tenant, purpose) ==
    {q \in DOMAIN Questions : /\ question[q].at = "querying"
                              /\ Questions[q].tenant = tenant /\ Questions[q].purpose = purpose}

PoolFree(q) ==
    Cardinality(Querying(Questions[q].tenant, Questions[q].purpose)) < Policy.concurrency

StartQuery(q) ==
    /\ question[q].at = "waiting" /\ PoolFree(q)
    /\ question' = [question EXCEPT ![q].at = "querying"]
    /\ UNCHANGED <<rowsCache, audited, queryClock>>

\* The backend answers with rows of the caller, or the query times out; what
\* it answers is cached before it is measured.
EndQuery(q) ==
    /\ question[q].at = "querying"
    /\ \/ \E n \in 0..Policy.maxRows + 1 :
             LET rows == [i \in 1..n |-> Questions[q].auth] IN
             /\ Answer(q, rows)
             /\ rowsCache' = [k \in DOMAIN rowsCache \cup {RowsKey(q)} |->
                                IF k = RowsKey(q) THEN rows ELSE rowsCache[k]]
       \/ /\ question' = [question EXCEPT ![q].at = "failed"]
          /\ UNCHANGED rowsCache
    /\ UNCHANGED <<audited, queryClock>>

QueryTick ==
    /\ queryClock < QueryUntil
    /\ queryClock' = queryClock + 1
    /\ UNCHANGED <<question, rowsCache, audited>>

QueryNext ==
    /\ UNCHANGED <<graphVars, compiled, prediction>>
    /\ \/ \E q \in DOMAIN Questions :
             \/ AskQuery(q)
             \/ LookUp(q)
             \/ StartQuery(q)
             \/ EndQuery(q)
       \/ QueryTick

-----------------------------------------------------------------------------
(* Compilation of a metric query. *)

Rank == [public |-> 0, internal |-> 1, confidential |-> 2, restricted |-> 3,
         draft |-> 0, verified |-> 1, certified |-> 2]

ModelsOf(q) == {SemanticModels[m] : m \in q.models}

\* _validate_governance and _validate_access, of every selected model.
Accessible(m) ==
    /\ Rank[m.certification] >= Rank[Caller.certification]
    /\ Rank[m.sensitivity] <= Rank[Caller.sensitivity]
    /\ m.tags \subseteq Caller.tags

RequiredFilters(q) ==
    \A m \in ModelsOf(q) : m.required \subseteq {q.filters[i].field : i \in 1..Len(q.filters)}

\* The production compiler takes the governed defaults of every model, then
\* the query's filters, and keeps the first one on a field.
Defaults(q) == UNION {m.defaults : m \in ModelsOf(q)}

EffectiveFilters(q) ==
    {[at |-> 0, filter |-> f] : f \in Defaults(q)}
    \cup {[at |-> i, filter |-> q.filters[i]] : i \in 1..Len(q.filters)}

FirstOnField(places) ==
    {p.filter : p \in {x \in places : \A y \in places : y.filter.field = x.filter.field => x.at <= y.at}}

\* _join_path: direct joins, each from what is reached to a model that is not,
\* until none is left or none is usable. The layer's order decides between
\* several; any of them here.
Reached(q, path, n) == {q.base} \cup UNION {{path[i].left, path[i].right} : i \in 1..n}

JoinsFrom(q, reached) ==
    {j \in SemanticJoins : \/ j.left \in reached /\ j.right \in q.models \ reached
                           \/ j.right \in reached /\ j.left \in q.models \ reached}

JoinPaths(q) ==
    {path \in UNION {[1..n -> SemanticJoins] : n \in 0..Cardinality(q.models)} :
        /\ \A i \in 1..Len(path) : path[i] \in JoinsFrom(q, Reached(q, path, i - 1))
        /\ JoinsFrom(q, Reached(q, path, Len(path))) = {}}

JoinAllowed(j) == j.tags \subseteq Caller.tags

\* The tags of every join are asked, and none may multiply the base model's rows.
SafeJoins(path) == \A i \in 1..Len(path) :
    JoinAllowed(path[i]) /\ ~(path[i].relationship = "one_to_many" /\ ~path[i].fanoutSafe)

\* One plain model goes to the base compiler: every filter counts there, but
\* one that differs from a governed default of its field is refused.
Plain(q) == q.models = {q.base} /\ q.shape = "plain"

KeepsDefaults(q) ==
    \A i \in 1..Len(q.filters), f \in Defaults(q) :
        q.filters[i].field = f.field => q.filters[i] = f

\* Comparisons, windows, cohorts and funnels belong to graph nodes.
Compilable(q, path) ==
    /\ q.shape # "unsupported"
    /\ \A m \in ModelsOf(q) : Accessible(m)
    /\ RequiredFilters(q)
    /\ IF Plain(q) THEN KeepsDefaults(q)
       ELSE q.models \subseteq Reached(q, path, Len(path)) /\ SafeJoins(path)

Where(q) ==
    IF Plain(q) THEN {p.filter : p \in EffectiveFilters(q)} ELSE FirstOnField(EffectiveFilters(q))

Compile(q, path) ==
    compiled' = IF Compilable(q, path)
                THEN [query |-> q, ok |-> TRUE, where |-> Where(q), joins |-> {path[i] : i \in 1..Len(path)}]
                ELSE [query |-> q, ok |-> FALSE, where |-> {}, joins |-> {}]

CompileNext ==
    /\ UNCHANGED <<graphVars, queryVars, prediction>>
    /\ \E q \in SemanticQueries : \E path \in JoinPaths(q) : Compile(q, path)

-----------------------------------------------------------------------------
(* Predictive services: the candidates of a request in their order. *)

\* The latest enabled version, or the one the candidate names.
ResolvedVersions(c) ==
    {v \in ModelVersions : /\ v.name = c.name /\ v.enabled
                          /\ c.version \in {0, v.version}}

LatestOf(found) == {v \in found : \A w \in found : w.version <= v.version}

AskService(r) ==
    /\ prediction = Nothing
    /\ prediction' = [request |-> r, at |-> 1, status |-> "trying", from |-> Nothing, outputs |-> 0]

SameBatch(r, outputs) == outputs = r.inputs

\* Drift, health, the batch limit and the schemas refuse a candidate; so do
\* a failed or late prediction and an answer of another size.
MayServe(r, v) == (r.allowDrifted \/ ~v.drifted) /\ r.inputs <= v.batch

TryService ==
    /\ prediction # Nothing /\ prediction.status = "trying"
    /\ LET r == prediction.request
           next == IF prediction.at < Len(r.candidates) THEN [prediction EXCEPT !.at = @ + 1]
                   ELSE [prediction EXCEPT !.status = "failed"]
           found == ResolvedVersions(r.candidates[prediction.at])
       IN \/ prediction' = next
          \/ \E v \in LatestOf(found), outputs \in 0..r.inputs :
                /\ MayServe(r, v)
                /\ prediction' = IF SameBatch(r, outputs)
                                 THEN [prediction EXCEPT !.status = "answered", !.outputs = outputs, !.from = v]
                                 ELSE next

ServiceNext ==
    /\ UNCHANGED <<graphVars, queryVars, compiled>>
    /\ \/ \E r \in Predictions : AskService(r)
       \/ TryService

AnalyticsNext == GraphNext \/ QueryNext \/ CompileNext \/ ServiceNext

AnalyticsSpec == AnalyticsInit /\ [][AnalyticsNext]_analyticsVars

-----------------------------------------------------------------------------

AnalyticsTypeOK ==
    /\ stored \in GraphStates \cup {Nothing}
    /\ \A d \in Drives : drive[d].active \subseteq GraphNodes
    /\ audited \subseteq DOMAIN Questions /\ queryClock \in 0..QueryUntil
    /\ compiled = Nothing \/ compiled.query \in SemanticQueries

(***************************************************************************)
(* A node runs on results: whichever drives resume the graph, a node that  *)
(* has started (_resolve_inputs) finds the result of every dependency in   *)
(* the copy it works on.                                                   *)
(***************************************************************************)
InputsPresent ==
    \A d \in Drives : \A n \in Running(d) : \A m \in NodeDeps[n] : drive[d].copy.results[m] # Nothing

(***************************************************************************)
(* A graph saved as completed has every node completed, with its result,   *)
(* also after failures, cancellations, crashes and resumes.                *)
(***************************************************************************)
CompletedWhole ==
    stored # Nothing /\ stored.status = "completed" =>
        \A n \in GraphNodes : stored.nodes[n] = "completed" /\ stored.results[n] # Nothing

(***************************************************************************)
(* Nodes with one concurrency_key never run together in a process, and no  *)
(* drive runs more nodes than its semaphore admits.                        *)
(***************************************************************************)
KeysExclusive ==
    \A d, x \in Drives :
        /\ Cardinality(Running(d)) <= MaxParallel
        /\ DriveProcess[d] = DriveProcess[x] =>
             \A n \in Running(d), m \in Running(x) :
                 NodeKey[n] = NodeKey[m] /\ NodeKey[n] # "" => n = m /\ d = x

(***************************************************************************)
(* A result once saved stays: a drive that resumed while another one still *)
(* worked, or that waited for the lock with a copy of before, loses its    *)
(* save to the version check and never replaces a result of the store.     *)
(***************************************************************************)
ResultsKept ==
    stored # Nothing =>
       \A n \in GraphNodes :
           stored.results[n] # Nothing => stored'.results[n] = stored.results[n]

(***************************************************************************)
(* What a governed query answers is within the row quota, from the backend *)
(* or from the cache, which may hold more, and its decision was audited.   *)
(***************************************************************************)
AnswersGoverned ==
    \A q \in DOMAIN Questions :
        question[q].at = "answered" =>
            /\ Len(question[q].rows) <= Policy.maxRows
            /\ q \in audited

(***************************************************************************)
(* Rows computed for one authorization are never served to another, though *)
(* both ask the same statement of one tenant and one cache.                *)
(***************************************************************************)
RowsOfTheCaller ==
    \A q \in DOMAIN Questions :
        question[q].at = "answered" =>
            \A i \in 1..Len(question[q].rows) : question[q].rows[i] = Questions[q].auth

(***************************************************************************)
(* The pool of a tenant and purpose bounds the statements the backend runs *)
(* for it at one time.                                                     *)
(***************************************************************************)
PoolsBounded ==
    \A q \in DOMAIN Questions :
        Cardinality(Querying(Questions[q].tenant, Questions[q].purpose)) <= Policy.concurrency

(***************************************************************************)
(* Whatever filters a planner writes, a compiled query enforces every      *)
(* governed default of every model it reads and nothing else on its field. *)
(***************************************************************************)
DefaultsEnforced ==
    compiled # Nothing /\ compiled.ok =>
        \A m \in ModelsOf(compiled.query) : \A f \in m.defaults :
            /\ f \in compiled.where
            /\ \A g \in compiled.where : g.field = f.field => g = f

(***************************************************************************)
(* A compiled query reads only models the caller may see, each reached     *)
(* from the base model over joins the caller may use.                      *)
(***************************************************************************)
JoinsGoverned ==
    compiled # Nothing /\ compiled.ok =>
        /\ \A m \in ModelsOf(compiled.query) :
             Rank[m.sensitivity] <= Rank[Caller.sensitivity] /\ m.tags \subseteq Caller.tags
        /\ \A j \in compiled.joins : j.tags \subseteq Caller.tags
        /\ compiled.query.models \ {compiled.query.base}
             \subseteq UNION {{j.left, j.right} : j \in compiled.joins}

(***************************************************************************)
(* invoke answers with one output per input, from the newest enabled       *)
(* version of the candidate it has come to, and never from a drifted model *)
(* unless the caller allows it, wherever in the fallbacks that model is.   *)
(***************************************************************************)
ServedAsAsked ==
    prediction # Nothing /\ prediction.status = "answered" =>
        LET r == prediction.request  c == r.candidates[prediction.at] IN
        /\ prediction.outputs = r.inputs
        /\ prediction.from.drifted => r.allowDrifted
        /\ \A v \in ModelVersions :
             v.name = c.name /\ v.enabled /\ c.version \in {0, v.version}
                 => v.version <= prediction.from.version

\* Analytical work is consistent: graphs keep the results their nodes run on, in whatever process they
\* are resumed, and governed answers, queries and predictions stay within what their caller may have.
AnalyticsSafe ==
    /\ [](AnalyticsTypeOK /\ InputsPresent /\ CompletedWhole /\ KeysExclusive /\ AnswersGoverned
          /\ RowsOfTheCaller /\ PoolsBounded /\ DefaultsEnforced /\ JoinsGoverned /\ ServedAsAsked)
    /\ [][ResultsKept]_analyticsVars
=============================================================================
