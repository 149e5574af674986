--------------------------- MODULE ChildWorkflow ---------------------------
(***************************************************************************)
(* A workflow node that runs another workflow (workflows/engine.py), and   *)
(* the retention sweep over the rows both keep (persistence/retention.py). *)
(*                                                                         *)
(* Parent and child have a checkpoint each, saved with their own version   *)
(* checks, and no transaction spans the two.  The parent records the       *)
(* child's identity before the child exists, mirrors the child's pause     *)
(* into its own checkpoint, sends an answer to the child first and takes   *)
(* the child's outcome afterwards.  Tasks of several replicas (the first   *)
(* drive, answers, expiries, recoveries) work on copies of both rows, and  *)
(* any of them may die with its process between two saves.  Rows age; the  *)
(* sweep deletes old rows of finished workflows and agent runs.            *)
(*                                                                         *)
(* The scheduling of a workflow's own nodes is module Workflow; here the   *)
(* parent has the one workflow node and the child one node that may ask    *)
(* before it works.                                                        *)
(***************************************************************************)
EXTENDS Naturals, FiniteSets

CONSTANTS
  FlowTasks,     \* the numbers of the tasks, each used once
  ChildIds,      \* identities a child may be given: 1..n
  ParentRetry,   \* recovery_policy of the parent's node: TRUE is "retry"
  ChildRetry,    \* recovery_policy of the child's node
  MaxCrashes     \* bound: processes that die

ASSUME ChildConstants ==
  /\ FlowTasks \subseteq Nat /\ ChildIds \subseteq Nat \ {0}
  /\ ParentRetry \in BOOLEAN /\ ChildRetry \in BOOLEAN

VARIABLES
  parentRow,   \* the parent's checkpoint
  childRow,    \* [ChildIds -> the child's checkpoint]
  agentRow,    \* the row of the agent run the child's node starts
  flowTask,    \* [FlowTasks -> where the task is, and its copies]
  workStarted, \* [ChildIds -> how often the child's node began its work], not read by the code
  crashes

childVars == <<parentRow, childRow, agentRow, flowTask, workStarted, crashes>>

-----------------------------------------------------------------------------
Over == {"completed", "failed"}
Unfinished == {"running", "awaiting"}
NoFlow == [status |-> "absent", node |-> "pending", ids |-> 0, version |-> 0, old |-> FALSE]
NoAgentRun == [status |-> "absent", unresolved |-> FALSE, old |-> FALSE]
IdleTask == [at |-> "idle", p |-> NoFlow, c |-> NoFlow, driving |-> FALSE]

ChildInit ==
  /\ parentRow = NoFlow
  /\ childRow = [i \in ChildIds |-> NoFlow]
  /\ agentRow = NoAgentRun
  /\ flowTask = [t \in FlowTasks |-> IdleTask]
  /\ workStarted = [i \in ChildIds |-> 0]
  /\ crashes = 0

\* A save: the version is checked, and counted up.
Saved(row) == [row EXCEPT !.version = @ + 1, !.old = FALSE]

\* Tasks are numbered in the order they begin.
FlowBegins(t) == flowTask[t].at = "idle" /\ \A u \in FlowTasks : u < t => flowTask[u].at # "idle"
At(t, stage, p, c) == flowTask' = [flowTask EXCEPT ![t] = [@ EXCEPT !.at = stage, !.p = p, !.c = c]]
EndTask(t) == flowTask' = [flowTask EXCEPT ![t] = [IdleTask EXCEPT !.at = "ended"]]

\* The parent's copy is saved, or the task ends with the conflict.
SaveParent(t, p, stage, c) ==
  IF parentRow.version = p.version
  THEN /\ parentRow' = Saved(p)
       /\ IF stage = "ended" THEN EndTask(t) ELSE At(t, stage, Saved(p), c)
  ELSE UNCHANGED parentRow /\ EndTask(t)

ParentOver(p, status) == [p EXCEPT !.status = status, !.node = status]

\* The child's copy is saved. A conflict leaves through the parent: the first drive's node handler
\* takes it as the node's failure, an answer, an expiry or a recovery ends with it.
SaveChild(t, c, stage) ==
  LET i == flowTask[t].p.ids IN
  IF childRow[i].version = c.version
  THEN /\ childRow' = [childRow EXCEPT ![i] = Saved(c)]
       /\ At(t, stage, flowTask[t].p, Saved(c))
       /\ UNCHANGED parentRow
  ELSE /\ UNCHANGED childRow
       /\ IF flowTask[t].driving
          THEN SaveParent(t, ParentOver(flowTask[t].p, "failed"), "ended", c)
          ELSE EndTask(t) /\ UNCHANGED parentRow

-----------------------------------------------------------------------------
(* The first drive.                                                        *)

StartParent(t) ==
  /\ FlowBegins(t) /\ parentRow.status = "absent"
  /\ LET p == [NoFlow EXCEPT !.status = "running", !.node = "running", !.version = 1] IN
     /\ parentRow' = p
     /\ flowTask' = [flowTask EXCEPT ![t] = [at |-> "dispatch", p |-> p, c |-> NoFlow, driving |-> TRUE]]
  /\ UNCHANGED <<childRow, agentRow, workStarted, crashes>>

\* The identity goes into the parent's checkpoint before the child runs; a cycle, the nesting
\* limit or the input builder may refuse the dispatch, which fails the node.
Dispatch(t) ==
  /\ flowTask[t].at = "dispatch"
  /\ \/ /\ flowTask[t].p.ids + 1 \in ChildIds
        /\ SaveParent(t, [flowTask[t].p EXCEPT !.ids = @ + 1], "create", NoFlow)
     \/ SaveParent(t, ParentOver(flowTask[t].p, "failed"), "ended", NoFlow)
  /\ UNCHANGED <<childRow, agentRow, workStarted, crashes>>

CreateChild(t) ==
  LET c == [NoFlow EXCEPT !.status = "running"] IN
  /\ flowTask[t].at = "create"
  /\ IF childRow[flowTask[t].p.ids].status \in {"absent", "gone"}
     THEN SaveChild(t, [c EXCEPT !.version = childRow[flowTask[t].p.ids].version], "child")
     ELSE SaveChild(t, c, "child")
  /\ UNCHANGED <<agentRow, workStarted, crashes>>

\* The child's own drive: it asks, or begins its work.
ChildAsks(t) ==
  /\ flowTask[t].at = "child" /\ flowTask[t].c.node = "pending"
  /\ SaveChild(t, [flowTask[t].c EXCEPT !.status = "awaiting", !.node = "asked"], "consume")
  /\ UNCHANGED <<agentRow, workStarted, crashes>>

ChildBegins(t) ==
  LET i == flowTask[t].p.ids IN
  /\ flowTask[t].at = "child"
  /\ SaveChild(t, [flowTask[t].c EXCEPT !.node = "running"], "working")
  /\ IF childRow[i].version = flowTask[t].c.version
     THEN /\ workStarted' = [workStarted EXCEPT ![i] = @ + 1]
          /\ agentRow' = [NoAgentRun EXCEPT !.status = "live"]
     ELSE UNCHANGED <<workStarted, agentRow>>
  /\ UNCHANGED crashes

\* The agent run ends, possibly with a tool execution nobody has resolved, then the child.
ChildEnds(t) ==
  /\ flowTask[t].at = "working"
  /\ \E status \in Over, unresolved \in BOOLEAN :
       /\ SaveChild(t, [flowTask[t].c EXCEPT !.status = status, !.node = status], "consume")
       /\ agentRow' = [status |-> "over", unresolved |-> unresolved, old |-> FALSE]
  /\ UNCHANGED <<workStarted, crashes>>

\* _consume_child_state: a waiting child pauses the parent, a completed one completes its node,
\* any other fails it.
Consumed(p, c) ==
  IF c.status = "awaiting" THEN [p EXCEPT !.status = "awaiting", !.node = "asked"]
  ELSE ParentOver(p, IF c.status = "completed" THEN "completed" ELSE "failed")

Consume(t) ==
  /\ flowTask[t].at = "consume"
  /\ SaveParent(t, Consumed(flowTask[t].p, flowTask[t].c), "ended", NoFlow)
  /\ UNCHANGED <<childRow, agentRow, workStarted, crashes>>

-----------------------------------------------------------------------------
(* Answers, expiries and recoveries.                                       *)

\* An answer to the parent's pause goes to the child it names, which must be waiting.
AnswerChild(t) ==
  /\ FlowBegins(t)
  /\ parentRow.status = "awaiting"
  /\ IF childRow[parentRow.ids].status = "awaiting"
     THEN At(t, "reopen", parentRow, childRow[parentRow.ids])
     ELSE EndTask(t)
  /\ UNCHANGED <<parentRow, childRow, agentRow, workStarted, crashes>>

ReopenChild(t) ==
  /\ flowTask[t].at = "reopen"
  /\ SaveChild(t, [flowTask[t].c EXCEPT !.status = "running", !.node = "answered"], "child")
  /\ UNCHANGED <<agentRow, workStarted, crashes>>

\* expire_pause: the child's wait is expired in the child; a child that no longer waits is
\* consumed as it is.
ExpireChild(t) ==
  /\ FlowBegins(t)
  /\ parentRow.status = "awaiting" /\ parentRow.old
  /\ LET c == childRow[parentRow.ids] IN
     IF c.status \in {"absent", "gone"} THEN EndTask(t)
     ELSE At(t, IF c.status = "awaiting" THEN "expire" ELSE "consume", parentRow, c)
  /\ UNCHANGED <<parentRow, childRow, agentRow, workStarted, crashes>>

CloseChildWait(t) ==
  /\ flowTask[t].at = "expire"
  /\ SaveChild(t, [flowTask[t].c EXCEPT !.status = "failed", !.node = "failed"], "consume")
  /\ UNCHANGED <<agentRow, workStarted, crashes>>

\* recover on a parent found running: a node with a recorded child goes on with that child, one
\* without is dispatched again or refused by its recovery policy.
RecoverChildless(t, p) ==
  IF ParentRetry THEN SaveParent(t, p, "dispatch", NoFlow)
  ELSE SaveParent(t, ParentOver(p, "failed"), "ended", NoFlow)

\* What recovering a recorded child comes to: run it from its recorded input when it never
\* started, take what it reached, or go on where it stopped.
RecoverStage(c) ==
  IF c.status \in {"absent", "gone"} THEN "create"
  ELSE IF c.status # "running" THEN "consume"
  ELSE IF c.node = "running" THEN "interrupted" ELSE "child"

\* Mutant: the recorded child is not looked at: the node is dispatched again.
RecoverParentAnew(t) ==
  /\ FlowBegins(t)
  /\ parentRow.status = "running"
  /\ RecoverChildless(t, parentRow)
  /\ UNCHANGED <<childRow, agentRow, workStarted, crashes>>

RecoverParent(t) ==
  /\ FlowBegins(t)
  /\ parentRow.status = "running"
  /\ IF parentRow.ids = 0
     THEN RecoverChildless(t, parentRow)
     ELSE /\ At(t, RecoverStage(childRow[parentRow.ids]), parentRow, childRow[parentRow.ids])
          /\ UNCHANGED parentRow
  /\ UNCHANGED <<childRow, agentRow, workStarted, crashes>>

\* The child's node was running: again under "retry", otherwise the child fails.
RecoverChild(t) ==
  /\ flowTask[t].at = "interrupted"
  /\ IF ChildRetry
     THEN SaveChild(t, [flowTask[t].c EXCEPT !.node = "answered"], "child")
     ELSE SaveChild(t, [flowTask[t].c EXCEPT !.status = "failed", !.node = "failed"], "consume")
  /\ UNCHANGED <<agentRow, workStarted, crashes>>

\* A process dies with the tasks it ran.
CrashTask(t) ==
  /\ flowTask[t].at \notin {"idle", "ended"}
  /\ crashes < MaxCrashes
  /\ crashes' = crashes + 1
  /\ EndTask(t)
  /\ agentRow' = IF flowTask[t].at = "working" THEN [agentRow EXCEPT !.status = "over", !.unresolved = TRUE]
                 ELSE agentRow
  /\ UNCHANGED <<parentRow, childRow, workStarted>>

\* An operator resolves what the agent run left.
ResolveExecution ==
  /\ agentRow.unresolved
  /\ agentRow' = [agentRow EXCEPT !.unresolved = FALSE]
  /\ UNCHANGED <<parentRow, childRow, flowTask, workStarted, crashes>>

-----------------------------------------------------------------------------
(* Retention.                                                              *)

\* Time passes: every row is now older than its window, and every wait past its expiry. The
\* shortest window is a day: no task stays that long between two statements, only at its work.
AgeRows ==
  /\ \A t \in FlowTasks : flowTask[t].at \in {"idle", "ended", "working"}
  /\ parentRow' = [parentRow EXCEPT !.old = TRUE]
  /\ childRow' = [i \in ChildIds |-> [childRow[i] EXCEPT !.old = TRUE]]
  /\ agentRow' = [agentRow EXCEPT !.old = TRUE]
  /\ UNCHANGED <<flowTask, workStarted, crashes>>

\* A finished child is kept while its parent is unfinished.
ChildDoomed(c) == c.status \in Over /\ c.old /\ parentRow.status \notin Unfinished

\* An agent run is kept while a tool execution of it is unresolved or its workflow unfinished.
RunDoomed(r) ==
  /\ r.status = "over" /\ r.old /\ ~r.unresolved
  /\ \A i \in ChildIds : childRow[i].status \notin Unfinished

\* One batch of the sweep: any of the rows that may go, the others being locked or left to the
\* next batch.
SweepBatch ==
  LET children == {i \in ChildIds : ChildDoomed(childRow[i])} IN
  /\ \/ /\ RunDoomed(agentRow)
        /\ agentRow' = [agentRow EXCEPT !.status = "gone"]
        /\ UNCHANGED <<parentRow, childRow>>
     \/ \E gone \in SUBSET children \ {{}} :
          /\ childRow' = [i \in ChildIds |-> IF i \in gone THEN [childRow[i] EXCEPT !.status = "gone"]
                                             ELSE childRow[i]]
          /\ UNCHANGED <<parentRow, agentRow>>
     \/ /\ parentRow.status \in Over /\ parentRow.old
        /\ parentRow' = [parentRow EXCEPT !.status = "gone"]
        /\ UNCHANGED <<childRow, agentRow>>
  /\ UNCHANGED <<flowTask, workStarted, crashes>>

ChildNext ==
  \/ \E t \in FlowTasks : \/ StartParent(t) \/ Dispatch(t) \/ CreateChild(t)
                          \/ ChildAsks(t) \/ ChildBegins(t) \/ ChildEnds(t) \/ Consume(t)
                          \/ AnswerChild(t) \/ ReopenChild(t)
                          \/ ExpireChild(t) \/ CloseChildWait(t)
                          \/ RecoverParent(t) \/ RecoverChild(t) \/ CrashTask(t)
  \/ ResolveExecution
  \/ AgeRows
  \/ SweepBatch
ChildSpec == ChildInit /\ [][ChildNext]_childVars

-----------------------------------------------------------------------------
FlowStages == {"idle", "dispatch", "create", "child", "working", "consume", "reopen", "expire",
               "interrupted", "ended"}

\* The types of the rows and of the tasks.
ChildTypeOK ==
  /\ parentRow.status \in Unfinished \cup Over \cup {"absent", "gone"}
  /\ parentRow.ids \in {0} \cup ChildIds
  /\ \A i \in ChildIds : childRow[i].status \in Unfinished \cup Over \cup {"absent", "gone"}
  /\ agentRow.status \in {"absent", "live", "over", "gone"}
  /\ \A t \in FlowTasks : flowTask[t].at \in FlowStages
  /\ \A t \in FlowTasks : flowTask[t].at \in {"create", "child", "working", "consume", "reopen",
                                              "expire", "interrupted"} => flowTask[t].p.ids \in ChildIds

\* The sweep never deletes a row that an unfinished workflow's recovery, or an operator, still
\* needs: the child of an unfinished parent, the agent run of an unfinished child, the run of an
\* unresolved tool execution (_DELETE_WORKFLOW_CHECKPOINTS, _DELETE_TERMINAL_RUNS).
NeededRowsKept ==
  /\ \A i \in ChildIds : parentRow.status \in Unfinished => childRow[i].status # "gone"
  /\ agentRow.status = "gone" => /\ ~agentRow.unresolved
                                 /\ \A i \in ChildIds : childRow[i].status \notin Unfinished

\* Unless its node declares "retry", the child's work begins at most once for a dispatch of the
\* parent's node, whatever crashes, recoveries by several replicas, answers, expiries and sweeps
\* overlap; and a node dispatches one child only (recover, _recover_child_workflow).
ChildWorkOnce ==
  /\ Cardinality({i \in ChildIds : workStarted[i] > 0}) <= 1
  /\ ~ChildRetry => \A i \in ChildIds : workStarted[i] <= 1

\* A parent completes only on a child that completed, and a child that completed stays completed
\* (_consume_child_state), even when its pause was answered or expired by several tasks at once.
ParentFollowsChild ==
  parentRow.status = "completed" => childRow[parentRow.ids].status \in {"completed", "gone"}

\* A parent and its child agree over crashes between their saves, recoveries, answers and sweeps: work is
\* begun once, an outcome is the child's, and no row that is needed goes.
ChildSafe == ChildTypeOK /\ NeededRowsKept /\ ChildWorkOnce /\ ParentFollowsChild
=============================================================================
