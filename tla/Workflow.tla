------------------------------ MODULE Workflow ------------------------------
(***************************************************************************)
(* One run of a declarative workflow (workflows/engine.py) and the service *)
(* that drives it for API callers (workflows/service.py).                  *)
(*                                                                         *)
(* The run is a checkpoint: its status, the status of each node and one    *)
(* pause.  Each drive works on its own copy, schedules the nodes whose     *)
(* dependencies allow it in batches, runs a batch concurrently on the      *)
(* shared copy, and writes the whole copy back before every event it       *)
(* emits.  A write is a compare-and-set on the version; versions are only  *)
(* compared for equality, so a copy is current (fresh) or stale for good,  *)
(* and successive writes of the same content are one step.  So are the     *)
(* writes of a clause that ends the run, one per node with the final       *)
(* status in the first: nobody else writes a run that has ended.           *)
(*                                                                         *)
(* Nodes are positions of the manifest.  A "work" node is an agent, a      *)
(* map_agent, a handler or a tool step whose tool needs no approval; a     *)
(* "gated" node is a tool step whose tool requires one; a "join" is a join *)
(* or a predicate, which call nothing.  Child workflow nodes are left out. *)
(* Values, templates and predicates appear as the outcomes they lead to;   *)
(* repairs and loop iterations of an agent node are part of its one call.  *)
(***************************************************************************)
EXTENDS Naturals, FiniteSets

CONSTANTS
    N,          \* nodes of a manifest
    Manifests,  \* the workflows a run may be started with
    Procs,      \* replicas of the service on one checkpoint store
    Tasks,      \* slots for the background tasks of the replicas
    MaxStops,   \* bound: drains and crashes in a behaviour
    Cancels     \* hosts that cancel the drive of an executor of their own

Nodes == 1..N
Kinds == {"work", "gated", "approval", "join"}
Manifest == [kind : [Nodes -> Kinds], deps : [Nodes -> SUBSET Nodes],
             failure : [Nodes -> {"fail_workflow", "skip_dependents", "continue"}],
             rejection : [Nodes -> {"skip_dependents", "continue"}],
             recovery : [Nodes -> {"fail", "retry"}],
             asks : SUBSET Nodes,         \* nodes with a pause rule
             conditional : SUBSET Nodes,  \* nodes with run_if
             maximum_occurrences : Nat,   \* of the pause rules
             maximum_concurrency : Nat \ {0}]

\* validate_dag: every set of nodes has one that depends on none of the set.
Acyclic(m) == \A S \in SUBSET Nodes \ {{}} : \E n \in S : m.deps[n] \cap S = {}

ASSUME WorkflowAssumption ==
    /\ N \in Nat /\ MaxStops \in Nat /\ Cancels \in BOOLEAN
    /\ Manifests \subseteq Manifest
    /\ \A m \in Manifests : Acyclic(m)

VARIABLES
    manifest,  \* the manifest of the run, bound to it by its fingerprint
    saved,     \* the checkpoint in the store
    overdue,   \* the wait in the checkpoint is past its expiry
    fresh,     \* the tasks whose copy carries the stored version
    copy,      \* each task's copy of the checkpoint
    pc, at,    \* where a task is, and the replica that runs it (none for an idle task)
    pend,      \* _schedule's pending set
    phase,     \* the progress of the nodes of a batch
    mode,      \* the life of a replica
    active,    \* the replicas with the run in their _active set
    granted,   \* history: the approval nodes a person approved
    stops      \* history: drains and crashes so far

checkpoint == <<manifest, saved, overdue>>
task == <<fresh, copy, pc, at, pend, phase>>
replica == <<mode, active, stops>>
vars == <<checkpoint, task, replica, granted>>

Terminal == {"completed", "failed", "cancelled"}
Awaiting == {"awaiting_input", "awaiting_approval"}
Interrupted == {"pending", "running"}
WorkflowStatus == {"none"} \cup Interrupted \cup Awaiting \cup Terminal
Settled == {"completed", "failed", "skipped", "rejected", "cancelled"}
NodeStatus == {"pending", "running", "awaiting_approval"} \cup Settled
\* pause is the node that waits, 0 for no pause; answers counts the clarifications.
Checkpoint == [status : WorkflowStatus, node : [Nodes -> NodeStatus],
               pause : 0..N, answers : Nat]

Phases == {"out", "queued", "started", "called", "done"}
Locations == {"idle", "loaded", "plan", "batch", "orphaned"}

TypeOK ==
    /\ manifest \in Manifests
    /\ saved \in Checkpoint /\ overdue \in BOOLEAN
    /\ fresh \subseteq Tasks /\ copy \in [Tasks -> Checkpoint]
    /\ pc \in [Tasks -> Locations] /\ at \in [Tasks -> SUBSET Procs]
    /\ pend \in [Tasks -> SUBSET Nodes] /\ phase \in [Tasks -> [Nodes -> Phases]]
    /\ mode \in [Procs -> {"up", "starting", "draining", "down"}]
    /\ active \subseteq Procs /\ granted \subseteq Nodes /\ stops \in Nat

Blank == [status |-> "none", node |-> [n \in Nodes |-> "pending"], pause |-> 0, answers |-> 0]

Init ==
    /\ manifest \in Manifests
    /\ saved = Blank /\ overdue = FALSE
    /\ fresh = {} /\ copy = [t \in Tasks |-> Blank]
    /\ pc = [t \in Tasks |-> "idle"] /\ at = [t \in Tasks |-> {}]
    /\ pend = [t \in Tasks |-> {}] /\ phase = [t \in Tasks |-> [n \in Nodes |-> "out"]]
    /\ mode = [p \in Procs |-> "up"] /\ active = {} /\ granted = {} /\ stops = 0

-----------------------------------------------------------------------------
(* What the manifest says of a node.                                       *)

\* covering_approval_nodes: the approvals upstream of n with no approval between.
Covering(m, n) ==
    LET seen[k \in Nodes] ==
            m.deps[k] \cup UNION {seen[d] : d \in {e \in m.deps[k] : m.kind[e] # "approval"}}
    IN  {a \in Nodes : a \in seen[n] /\ m.kind[a] = "approval"}

\* A dependency that failed, was skipped or was rejected keeps n from running.
Blocks(c, d, n) ==
    \/ c.node[d] = "skipped" /\ manifest.kind[n] # "join"
    \/ /\ c.node[d] = "rejected" /\ manifest.kind[n] # "join"
       /\ manifest.rejection[d] # "continue"
    \/ c.node[d] = "failed" /\ manifest.failure[d] # "continue"

Blocked(c, P) == {n \in P : \E d \in manifest.deps[n] : Blocks(c, d, n)}

Satisfies(c, d, n) ==
    \/ c.node[d] = "completed"
    \/ /\ c.node[d] = "rejected"
       /\ manifest.kind[n] = "join" \/ manifest.rejection[d] = "continue"
    \/ c.node[d] = "skipped" /\ manifest.kind[n] = "join"
    \/ c.node[d] = "failed" /\ manifest.failure[d] = "continue"

\* Mutant: one finished dependency is enough.
ReadyOnAny(c, P) ==
    {n \in P : manifest.deps[n] = {} \/ \E d \in manifest.deps[n] : Satisfies(c, d, n)}
Ready(c, P) == {n \in P : \A d \in manifest.deps[n] : Satisfies(c, d, n)}

\* A checkpoint holds one pause, so only the first ready approval of the manifest is asked.
Batch(c, P) ==
    LET ready == Ready(c, P)
    IN  {n \in ready : manifest.kind[n] = "approval" =>
                           ~ \E m \in ready : m < n /\ manifest.kind[m] = "approval"}

\* Mutant: a node that did not complete is taken up again.
NotCompleted(c) == {n \in Nodes : c.node[n] # "completed"}
Unfinished(c) == {n \in Nodes : c.node[n] \in {"pending", "running"}}

-----------------------------------------------------------------------------
(* Tasks and the checkpoint store.                                         *)

Running(t) == pc[t] \in {"plan", "batch"}
Settle(c, n, s) == [c EXCEPT !.node = [@ EXCEPT ![n] = s]]
Phase(t, n, s) == phase' = [phase EXCEPT ![t] = [@ EXCEPT ![n] = s]]
Quiet(t) == phase' = [phase EXCEPT ![t] = [n \in Nodes |-> "out"]]
Goes(t, l) == pc' = [pc EXCEPT ![t] = l]

\* Mutant: the version is not compared.
WriteOver(t, c) ==
    /\ saved' = c /\ overdue' = (overdue /\ c.pause = saved.pause)
    /\ UNCHANGED manifest
\* _checkpoint and the store's save: the whole copy, if nobody wrote since it was read.
Write(t, c) ==
    /\ t \in fresh
    /\ saved' = c /\ overdue' = (overdue /\ c.pause = saved.pause)
    /\ UNCHANGED manifest

Save(t, c) == Write(t, c) /\ copy' = [copy EXCEPT ![t] = c] /\ fresh' = {t}

\* _spawn: a task of a replica that reads the checkpoint and makes c of it.
Spawn(t, p, c) ==
    /\ pc[t] = "idle" /\ Goes(t, "loaded")
    /\ at' = [at EXCEPT ![t] = {p}] /\ active' = active \cup {p}
    /\ fresh' = fresh \cup {t} /\ copy' = [copy EXCEPT ![t] = c]
    /\ UNCHANGED <<pend, phase, stops, granted>>

\* The end of _spawn's drive: the run leaves _active, whoever else drives it there.
Leave(t) ==
    /\ Goes(t, "idle") /\ Quiet(t)
    /\ pend' = [pend EXCEPT ![t] = {}] /\ copy' = [copy EXCEPT ![t] = Blank]
    /\ at' = [at EXCEPT ![t] = {}] /\ active' = active \ at[t]
    /\ UNCHANGED <<mode, stops>>

\* The last save of a drive.
SaveAndLeave(t, c) == Write(t, c) /\ fresh' = {} /\ Leave(t)

\* The statement that waits for a batch raises: the calls of its other nodes go on.
Orphans(t) == {n \in Nodes : \/ phase[t][n] = "called"
                             \/ phase[t][n] = "started" /\ manifest.kind[n] = "work"}

\* A save that finds another version raises ConflictError through the drive, whose own
\* clauses fail on the same save: nothing of the copy reaches the store.
Conflict(t) ==
    /\ pc[t] \in {"loaded", "plan", "batch"} /\ t \notin fresh
    /\ IF Orphans(t) = {} THEN Goes(t, "idle") /\ at' = [at EXCEPT ![t] = {}]
                          ELSE Goes(t, "orphaned") /\ UNCHANGED at
    /\ phase' = [phase EXCEPT ![t] =
                    [n \in Nodes |-> IF n \in Orphans(t) THEN @[n] ELSE "out"]]
    /\ pend' = [pend EXCEPT ![t] = {}] /\ copy' = [copy EXCEPT ![t] = Blank]
    /\ active' = active \ at[t]
    /\ UNCHANGED <<checkpoint, fresh, mode, stops, granted>>

OrphanEnds(t, n) ==
    /\ pc[t] = "orphaned" /\ phase[t][n] = "called"
    /\ Phase(t, n, "out")
    /\ IF \A m \in Nodes \ {n} : phase[t][m] = "out"
       THEN Goes(t, "idle") /\ at' = [at EXCEPT ![t] = {}]
       ELSE UNCHANGED <<pc, at>>
    /\ UNCHANGED <<checkpoint, fresh, copy, pend, replica, granted>>

-----------------------------------------------------------------------------
(* The service's requests and sweeps.  A decision or an answer is refused  *)
(* while the replica drains; it does not look at _active.                  *)

Open(p) == mode[p] \in {"up", "starting"}
Takes(p) == Open(p) /\ p \notin active

\* start and run: the checkpoint is created pending and saved as running.
Start(t, p) ==
    /\ Open(p) /\ saved.status = "none"
    /\ saved' = [saved EXCEPT !.status = "pending"]
    /\ Spawn(t, p, [saved EXCEPT !.status = "running"])
    /\ UNCHANGED <<manifest, overdue, mode>>

\* The pause is lifted and the waiting node becomes s.
Lift(n, s) == [Settle(saved, n, s) EXCEPT !.pause = 0, !.status = "running"]

\* decide and decide_approval.  Past its expiry the approval fails, whatever the decision.
Decide(t, p, decision) ==
    /\ Open(p) /\ saved.status = "awaiting_approval" /\ saved.pause # 0
    /\ Spawn(t, p, Lift(saved.pause, IF overdue THEN "failed" ELSE decision))
    /\ UNCHANGED <<checkpoint, mode>>

\* provide_input and resume: the node that asked runs again with the answer.
Answer(t, p) ==
    /\ Open(p) /\ saved.status = "awaiting_input" /\ saved.pause # 0
    /\ Spawn(t, p, [Lift(saved.pause, "pending") EXCEPT !.answers = @ + 1])
    /\ UNCHANGED <<checkpoint, mode>>

\* expire_paused and expire_pause, for a run this replica is not driving.
Sweep(t, p) ==
    /\ Takes(p) /\ saved.status \in Awaiting /\ overdue
    /\ Spawn(t, p, Lift(saved.pause, "failed"))
    /\ UNCHANGED <<checkpoint, mode>>

\* Mutant: an interrupted node gets a status of its own.
RecoveredAsInterrupted ==
    [saved EXCEPT !.status = "running",
                  !.node = [n \in Nodes |-> IF @[n] = "running" THEN "interrupted" ELSE @[n]]]
\* Engine recover: an interrupted node runs again only if its recovery policy says retry;
\* otherwise it fails, and with it the run.
Recovered ==
    LET cut == {n \in Nodes : saved.node[n] = "running"}
        retry == {n \in cut : manifest.recovery[n] = "retry"}
    IN  IF cut = retry
        THEN [saved EXCEPT !.status = "running",
                           !.node = [n \in Nodes |-> IF n \in cut THEN "pending" ELSE @[n]]]
        ELSE [saved EXCEPT !.status = "failed",
                           !.node = [n \in Nodes |->
                                        CASE n \in cut \ retry -> "failed"
                                          [] n \in retry \/ @[n] = "pending" -> "skipped"
                                          [] OTHER -> @[n]]]

\* Service recover, once per start of a replica.
Recover(t, p) ==
    /\ mode[p] = "starting" /\ p \notin active /\ saved.status \in Interrupted
    /\ mode' = [mode EXCEPT ![p] = "up"]
    /\ Spawn(t, p, Recovered)
    /\ UNCHANGED checkpoint

NothingToRecover(p) ==
    /\ mode[p] = "starting" /\ (saved.status \notin Interrupted \/ p \in active)
    /\ mode' = [mode EXCEPT ![p] = "up"]
    /\ UNCHANGED <<checkpoint, task, active, stops, granted>>

\* The first save of what a task made of the checkpoint; _drive follows, unless the run is
\* over: recover refused it.
Commit(t) ==
    /\ pc[t] = "loaded"
    /\ granted' = granted \cup {n \in Nodes : /\ manifest.kind[n] = "approval"
                                             /\ saved.node[n] = "awaiting_approval"
                                             /\ copy[t].node[n] = "completed"}
    /\ IF copy[t].status \in Terminal
       THEN SaveAndLeave(t, copy[t])
       ELSE /\ Save(t, copy[t]) /\ Goes(t, "plan")
            /\ pend' = [pend EXCEPT ![t] = Unfinished(copy[t])]
            /\ UNCHANGED <<at, phase, replica>>

-----------------------------------------------------------------------------
(* _drive and _schedule.                                                   *)

\* The except clause of _drive: what runs fails, what waits to start is skipped.
Failure(c) ==
    [c EXCEPT !.status = "failed",
              !.node = [n \in Nodes |-> CASE @[n] = "running" -> "failed"
                                          [] @[n] = "pending" -> "skipped"
                                          [] OTHER -> @[n]]]

Fail(t) == SaveAndLeave(t, Failure(copy[t])) /\ UNCHANGED granted

\* The deadline of the run passes in a drive, or has passed when it starts.
TimesOut(t) == Running(t) /\ Fail(t)

\* A host without a drain cancels the drive.
Cancel(t) ==
    /\ Cancels /\ Running(t)
    /\ SaveAndLeave(t, [copy[t] EXCEPT
                           !.status = "cancelled",
                           !.node = [n \in Nodes |-> IF n \in Unfinished(copy[t])
                                                     THEN "cancelled" ELSE @[n]]])
    /\ UNCHANGED granted

\* The run waits for a person: the drive ends, and nothing is saved.
Suspend(t) ==
    /\ pc[t] = "plan" /\ copy[t].status \in Awaiting
    /\ fresh' = fresh \ {t} /\ Leave(t)
    /\ UNCHANGED <<checkpoint, granted>>

Planning(t) == pc[t] = "plan" /\ copy[t].status = "running"

SkipBlocked(t, n) ==
    /\ Planning(t) /\ n \in Blocked(copy[t], pend[t])
    /\ Save(t, Settle(copy[t], n, "skipped"))
    /\ pend' = [pend EXCEPT ![t] = @ \ {n}]
    /\ UNCHANGED <<pc, at, phase, replica, granted>>

Dispatch(t) ==
    /\ Planning(t) /\ Blocked(copy[t], pend[t]) = {} /\ Ready(copy[t], pend[t]) # {}
    /\ Goes(t, "batch")
    /\ phase' = [phase EXCEPT ![t] = [n \in Nodes |-> IF n \in Batch(copy[t], pend[t])
                                                      THEN "queued" ELSE "out"]]
    /\ UNCHANGED <<checkpoint, fresh, copy, at, pend, replica, granted>>

\* No node can run: "workflow has no dependency-ready nodes".
NoneReady(t) ==
    /\ Planning(t) /\ pend[t] # {}
    /\ Blocked(copy[t], pend[t]) = {} /\ Ready(copy[t], pend[t]) = {}
    /\ Fail(t)

\* Every node of the batch is through; a failed one may end the run.
EndBatch(t) ==
    LET batch == {n \in Nodes : phase[t][n] # "out"}
    IN  /\ pc[t] = "batch" /\ \A n \in batch : phase[t][n] = "done"
        /\ IF \E n \in batch : copy[t].node[n] = "failed" /\ manifest.failure[n] = "fail_workflow"
           THEN Fail(t)
           ELSE /\ Goes(t, "plan") /\ Quiet(t)
                /\ pend' = [pend EXCEPT ![t] = @ \ batch]
                /\ UNCHANGED <<checkpoint, fresh, copy, at, replica, granted>>

\* The end of _drive; an output that breaks its contract fails the run too.
Finish(t, valid) ==
    /\ Planning(t) /\ pend[t] = {}
    /\ LET failed == {n \in Nodes : /\ copy[t].node[n] = "failed"
                                    /\ manifest.failure[n] # "continue"}
       IN  SaveAndLeave(t, [copy[t] EXCEPT
               !.status = IF valid /\ failed = {} THEN "completed" ELSE "failed"])
    /\ UNCHANGED granted

-----------------------------------------------------------------------------
(* _execute_node: the nodes of a batch run concurrently on the task's copy. *)

\* An event of node n of the batch: the copy becomes c, is saved, and n is at phase s.
NodeEvent(t, n, c, s) ==
    /\ Save(t, c) /\ Phase(t, n, s)
    /\ UNCHANGED <<pc, at, pend, replica, granted>>

InBatch(t, n, s) == pc[t] = "batch" /\ phase[t][n] = s

\* run_if is false.
SkipNode(t, n) ==
    /\ InBatch(t, n, "queued") /\ n \in manifest.conditional
    /\ NodeEvent(t, n, Settle(copy[t], n, "skipped"), "done")

StartNode(t, n) ==
    /\ InBatch(t, n, "queued")
    /\ NodeEvent(t, n, Settle(copy[t], n, "running"), "started")

\* Mutant: the status of the run changes, its pause does not.
AskWithoutPause(t, n) ==
    /\ pc[t] = "batch" /\ phase[t][n] = "started" /\ manifest.kind[n] = "approval"
    /\ NodeEvent(t, n, [Settle(copy[t], n, "awaiting_approval") EXCEPT
                           !.status = "awaiting_approval"], "done")
\* An approval node takes the pause of the checkpoint, and with it the status of the run.
AskApproval(t, n) ==
    /\ InBatch(t, n, "started") /\ manifest.kind[n] = "approval"
    /\ NodeEvent(t, n, [Settle(copy[t], n, "awaiting_approval") EXCEPT
                           !.status = "awaiting_approval", !.pause = n], "done")

\* The semaphore of a drive: the calls of its batch at one time.
Slot(t) == Cardinality({n \in Nodes : phase[t][n] = "called"}) < manifest.maximum_concurrency

\* An agent, a handler or a free tool is called; nothing is saved first.
Call(t, n) ==
    /\ pc[t] \in {"batch", "orphaned"} /\ phase[t][n] = "started"
    /\ manifest.kind[n] = "work" /\ Slot(t)
    /\ Phase(t, n, "called")
    /\ UNCHANGED <<checkpoint, fresh, copy, pc, at, pend, replica, granted>>

\* Mutant: any approval of the step will do.
ApprovedByOne(c, n) == \E a \in Covering(manifest, n) : c.node[a] = "completed"
\* _call_tool_step: every approval that gates the step must have approved it.
Approved(c, n) ==
    /\ Covering(manifest, n) # {}
    /\ \A a \in Covering(manifest, n) : c.node[a] = "completed"

\* workflow.tool.authorized is saved, then the tool is called with the approval.  Without
\* an approval the tool executor refuses the call: FailNode.
CallGated(t, n) ==
    /\ InBatch(t, n, "started") /\ manifest.kind[n] = "gated" /\ Slot(t)
    /\ Approved(copy[t], n)
    /\ NodeEvent(t, n, copy[t], "called")

\* What a node ends from: its call, or for a join and a predicate its start.
Ending(t, n) ==
    \/ manifest.kind[n] = "join" /\ InBatch(t, n, "started")
    \/ manifest.kind[n] \in {"work", "gated"} /\ InBatch(t, n, "called")

CompleteNode(t, n) ==
    /\ Ending(t, n)
    /\ NodeEvent(t, n, Settle(copy[t], n, "completed"), "done")

\* The result calls for a clarification: the node takes the pause, unless it asked too often.
AskInput(t, n) ==
    /\ Ending(t, n) /\ n \in manifest.asks
    /\ NodeEvent(t, n, IF copy[t].answers >= manifest.maximum_occurrences
                       THEN Settle(copy[t], n, "failed")
                       ELSE [Settle(copy[t], n, "completed") EXCEPT
                               !.status = "awaiting_input", !.pause = n], "done")

\* Anything a started node does may raise.
FailNode(t, n) ==
    /\ InBatch(t, n, "started") \/ InBatch(t, n, "called")
    /\ NodeEvent(t, n, Settle(copy[t], n, "failed"), "done")

-----------------------------------------------------------------------------
(* Replicas and time.                                                      *)

\* drain: no new work.  The tasks may go on for a grace period.
Drain(p) ==
    /\ Open(p) /\ stops < MaxStops
    /\ mode' = [mode EXCEPT ![p] = "draining"]
    /\ UNCHANGED <<checkpoint, task, active, stops, granted>>

\* A crash, or the end of a drain's grace period: the checkpoint stays as it is.
Stop(p) ==
    LET mine == {t \in Tasks : p \in at[t]}
    IN  /\ mode[p] # "down" /\ stops < MaxStops
        /\ stops' = stops + 1
        /\ mode' = [mode EXCEPT ![p] = "down"] /\ active' = active \ {p}
        /\ pc' = [t \in Tasks |-> IF t \in mine THEN "idle" ELSE pc[t]]
        /\ pend' = [t \in Tasks |-> IF t \in mine THEN {} ELSE pend[t]]
        /\ phase' = [t \in Tasks |-> IF t \in mine THEN [n \in Nodes |-> "out"] ELSE phase[t]]
        /\ copy' = [t \in Tasks |-> IF t \in mine THEN Blank ELSE copy[t]]
        /\ at' = [t \in Tasks |-> IF t \in mine THEN {} ELSE at[t]]
        /\ fresh' = fresh \ mine
        /\ UNCHANGED <<checkpoint, granted>>

Boot(p) ==
    /\ mode[p] = "down"
    /\ mode' = [mode EXCEPT ![p] = "starting"]
    /\ UNCHANGED <<checkpoint, task, active, stops, granted>>

Expire ==
    /\ saved.status \in Awaiting /\ saved.pause # 0 /\ ~overdue
    /\ overdue' = TRUE
    /\ UNCHANGED <<manifest, saved, task, replica, granted>>

Request(t, p) ==
    \/ Start(t, p) \/ Answer(t, p) \/ Sweep(t, p) \/ Recover(t, p)
    \/ \E decision \in {"completed", "rejected"} : Decide(t, p, decision)

NodeStep(t, n) ==
    \/ SkipBlocked(t, n) \/ SkipNode(t, n) \/ StartNode(t, n) \/ AskApproval(t, n)
    \/ Call(t, n) \/ CallGated(t, n) \/ CompleteNode(t, n) \/ AskInput(t, n)
    \/ FailNode(t, n) \/ OrphanEnds(t, n)

DriveStep(t) ==
    \/ Commit(t) \/ Conflict(t) \/ Suspend(t) \/ Dispatch(t) \/ NoneReady(t) \/ EndBatch(t)
    \/ \E valid \in BOOLEAN : Finish(t, valid)
    \/ TimesOut(t) \/ Cancel(t)

Next ==
    \/ \E t \in Tasks, p \in Procs : Request(t, p)
    \/ \E t \in Tasks, n \in Nodes : NodeStep(t, n)
    \/ \E t \in Tasks : DriveStep(t)
    \/ \E p \in Procs : NothingToRecover(p) \/ Drain(p) \/ Stop(p) \/ Boot(p)
    \/ Expire

Spec == Init /\ [][Next]_vars

-----------------------------------------------------------------------------
(* Properties.                                                             *)

\* A tool that requires approval is called only after a person approved every approval node
\* that gates its step, whatever drives, restarts and decisions came in between
\* (_call_tool_step, covering_approval_nodes).
GatedCallsApproved ==
    \A t \in Tasks, n \in Nodes :
        manifest.kind[n] = "gated" /\ phase[t][n] = "called" =>
            Covering(manifest, n) # {} /\ Covering(manifest, n) \subseteq granted

\* A run that is over stays as it was saved: no drive, decision, sweep or recovery that
\* read it earlier writes over it (_checkpoint, the version check of save).
OverIsOver == [][saved.status \in Terminal => saved' = saved]_saved

\* A node that is done keeps its outcome: later drives never run it again or rewrite it.
\* Only the node that waits for an answer is reopened, by the answer or its expiry (resume,
\* _expire_input; "reruns only the paused node, preserves completed predecessors").
DoneStaysDone ==
    [][\A n \in Nodes : saved.node[n] \in Settled =>
           saved'.node[n] = saved.node[n] \/ n = saved.pause]_saved

\* A run that waits names a node that can take the answer, so a person, or the expiry, can
\* move it on: an approval that is not decided, or a node whose result asked.
WaitCanEnd ==
    saved.status \in Awaiting =>
        /\ saved.pause # 0
        /\ IF saved.status = "awaiting_approval"
           THEN /\ manifest.kind[saved.pause] = "approval"
                /\ saved.node[saved.pause] = "awaiting_approval"
           ELSE saved.node[saved.pause] = "completed" /\ saved.pause \in manifest.asks

\* A node of a current drive runs only when every dependency has an outcome that lets it
\* (_schedule): a later answer, decision or recovery never leaves it behind.
DependenciesHold ==
    \A t \in fresh, n \in Nodes :
        Running(t) /\ phase[t][n] \in {"started", "called"} =>
            \A d \in manifest.deps[n] : Satisfies(saved, d, n)

\* A run completes only after every approval it asked for was decided.
CompletedIsDecided ==
    saved.status = "completed" => \A n \in Nodes : saved.node[n] # "awaiting_approval"
=============================================================================
