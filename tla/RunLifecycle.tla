---------------------------- MODULE RunLifecycle ----------------------------
(***************************************************************************)
(* One agent run: its checkpoint in the run store, the drives that execute *)
(* it and the handlers that touch it beside them (runtime/runtime.py):     *)
(* start, cancel, resume, steering of a paused run, the expiry sweep, the  *)
(* continuation after a reconciled tool call, restart recovery and the     *)
(* retry after a store outage.                                             *)
(*                                                                         *)
(* Everybody works on a copy of the checkpoint and writes it back with a   *)
(* compare-and-set on its version.  Versions only grow and are compared    *)
(* for equality alone, so a copy is either current (fresh) or stale for    *)
(* good; the number itself is left out.                                    *)
(*                                                                         *)
(* A model call, a tool call, a policy or an event is one point of a drive *)
(* at which it may raise, be cancelled or time out.  The step and token    *)
(* limits of the loop appear as the choices they lead to.                  *)
(***************************************************************************)
EXTENDS Naturals, FiniteSets

CONSTANTS
    Nodes,       \* processes on the same stores; one per database by contract
    Handlers,    \* slots for requests and background tasks served by the nodes
    None,
    OnRejection, \* ApprovalPolicy.on_rejection: "fail" or "continue"
    Crashes, Outages, Deadlines, Cancels  \* which disturbances happen

ASSUME LifecycleAssumption ==
    /\ None \notin Nodes \cup Handlers
    /\ Nodes \cap Handlers = {}
    /\ OnRejection \in {"fail", "continue"}
    /\ Crashes \in BOOLEAN /\ Outages \in BOOLEAN
    /\ Deadlines \in BOOLEAN /\ Cancels \in BOOLEAN

VARIABLES
    status,    \* RunState.status as stored, "none" before the run is created
    deadline,  \* ahead, elapsed, or passed while the run was paused ("paused")
    approval,  \* the status of the run's latest approval request
    kind,      \* what it is for: a tool call, or more budget and the status to resume in
    settled,   \* the ledger has an outcome for the call the run waits on
    fresh,     \* the writers whose copy carries the stored version
    held,      \* the status in each copy
    pc, goal,  \* a node's drive of the run, and the status its except clause writes
    mode,      \* the life of a process
    outage,    \* the nodes with the run in their _outage_runs
    hpc, hkind, hnode, hgoal,  \* a handler's location, what it does, where, its target
    asked      \* the handlers whose approval request is the run's latest

details == <<deadline, approval, kind, settled>>
copies == <<status, fresh, held>>
drive == <<pc, goal>>
process == <<mode, outage>>
handler == <<hpc, hkind, hnode, hgoal, asked>>
vars == <<details, copies, drive, process, handler>>

Writers == Nodes \cup Handlers

-----------------------------------------------------------------------------
(* The state machine.                                                      *)

Terminal == {"completed", "failed", "cancelled", "timed_out"}
Paused == {"awaiting_clarification", "awaiting_approval", "awaiting_reconciliation"}
Active == {"received", "validating", "building_context", "planning", "invoking_model",
           "invoking_tool", "verifying", "retrying", "composing"}
RunStatus == Active \cup Paused \cup Terminal

\* ALLOWED_TRANSITIONS.
Legal(s, t) ==
    \/ s = "received" /\ t \in {"validating", "cancelled"}
    \/ s = "validating" /\ t \in {"building_context", "failed", "cancelled"}
    \/ s = "building_context" /\ t \in {"planning", "awaiting_approval", "retrying",
                                        "failed", "cancelled", "timed_out"}
    \/ s = "planning" /\ t \in {"invoking_model", "invoking_tool", "awaiting_clarification",
                                "awaiting_approval", "verifying", "composing", "retrying",
                                "failed", "cancelled"}
    \/ s = "awaiting_clarification" /\ t \in {"building_context", "cancelled", "timed_out"}
    \/ s = "awaiting_approval" /\ t \in {"building_context", "planning", "cancelled",
                                         "failed", "timed_out"}
    \/ s = "awaiting_reconciliation" /\ t \in {"building_context", "cancelled", "failed",
                                               "timed_out"}
    \/ s = "invoking_model" /\ t \in {"planning", "verifying", "retrying", "failed",
                                      "cancelled", "timed_out"}
    \/ s = "invoking_tool" /\ t \in {"awaiting_reconciliation", "building_context",
                                     "planning", "retrying", "failed", "cancelled", "timed_out"}
    \/ s = "verifying" /\ t \in {"composing", "retrying", "failed", "cancelled"}
    \/ s = "retrying" /\ t \in {"building_context", "planning", "invoking_model",
                                "invoking_tool", "failed", "cancelled", "timed_out"}
    \/ s = "composing" /\ t \in {"completed", "failed", "cancelled"}

\* The checkpoints of the drive.  A status that stays is a save without a transition:
\* loaded history, compaction, an automatic extension.
LoopStep(s, t) ==
    \/ s = "received" /\ t = "validating"
    \/ s = "validating" /\ t = "building_context"
    \/ s = "building_context" /\ t \in {"building_context", "planning"}

\* The budget is used up: an automatic extension, or a request for more.
LimitStep(s, t) == s \in {"building_context", "planning"} /\ t \in {s, "awaiting_approval"}

\* A planned action that is neither a model nor a tool call.
ActionStep(s, t) == s = "planning" /\ t \in {"awaiting_clarification", "failed"}

\* A model call, its retries, and the save that charges a response that is too large.
ModelStep(s, t) ==
    \/ s = "planning" /\ t = "invoking_model"
    \/ s = "invoking_model" /\ t \in {"invoking_model", "planning", "retrying"}
    \/ s = "retrying" /\ t = "invoking_model"

\* A tool call or a batch of them.
ToolStep(s, t) ==
    \/ s = "planning" /\ t \in {"awaiting_approval", "invoking_tool"}
    \/ s = "invoking_tool" /\ t \in {"building_context", "awaiting_reconciliation"}

\* Verification of the answer, its repair or the end of the run.
VerifyStep(s, t) ==
    \/ s = "planning" /\ t = "verifying"
    \/ s = "verifying" /\ t \in {"composing", "retrying"}
    \/ s = "retrying" /\ t = "planning"
    \/ s = "composing" /\ t = "completed"

Step(s, t) ==
    \/ LoopStep(s, t) \/ LimitStep(s, t) \/ ActionStep(s, t)
    \/ ModelStep(s, t) \/ ToolStep(s, t) \/ VerifyStep(s, t)

\* _recovery_status: where the next drive of an interrupted run starts.
RecoveryStatus(s) ==
    IF s = "validating" THEN "received"
    ELSE IF s \in {"invoking_model", "invoking_tool", "verifying", "retrying", "composing"}
    THEN "planning" ELSE s

-----------------------------------------------------------------------------
(* The run store.                                                          *)

Read(w) ==
    /\ held' = [held EXCEPT ![w] = status]
    /\ fresh' = fresh \cup {w}
    /\ UNCHANGED status

\* Mutant: the stored version is not raised, so older copies stay valid.
SaveKeepsVersion(w, s) ==
    /\ status' = s
    /\ held' = [held EXCEPT ![w] = s]
    /\ fresh' = fresh \cup {w}

\* save, once the version has matched: every other copy becomes stale.
Save(w, s) ==
    /\ status' = s
    /\ held' = [held EXCEPT ![w] = s]
    /\ fresh' = {w}

\* The copy goes away with the drive or the handler.
Discard(w) ==
    /\ held' = [held EXCEPT ![w] = "none"]
    /\ fresh' = fresh \ {w}
    /\ UNCHANGED status

\* A drive's copy goes away; messages that arrived too late for its last transition are
\* saved in the checkpoint as it is then (RunSteering follows the messages).
Leaves(n) ==
    \/ Discard(n)
    \/ /\ held' = [held EXCEPT ![n] = "none"]
       /\ fresh' = {}
       /\ UNCHANGED status

\* The version in the copy is the stored one.
VersionMatches(w) == w \in fresh

-----------------------------------------------------------------------------
(* The drive of a node.                                                    *)

Init ==
    /\ status = "none" /\ deadline = "ahead" /\ approval = "none"
    /\ kind = "none" /\ settled = FALSE
    /\ fresh = {}
    /\ held = [w \in Writers |-> "none"]
    /\ pc = [n \in Nodes |-> "none"]
    /\ goal = [n \in Nodes |-> "none"]
    /\ mode = [n \in Nodes |-> "up"]
    /\ outage = {}
    /\ hpc = [h \in Handlers |-> "idle"]
    /\ hkind = [h \in Handlers |-> "none"]
    /\ hnode = [h \in Handlers |-> None]
    /\ hgoal = [h \in Handlers |-> "none"]
    /\ asked = {}

Running(n) == pc[n] # "none"

\* The task is done.
DriveEnds(n) ==
    /\ pc' = [pc EXCEPT ![n] = "none"]
    /\ goal' = [goal EXCEPT ![n] = "none"]

\* An exception ends _execute; the except clause will write the given status.
Except(n, target) ==
    /\ pc' = [pc EXCEPT ![n] = "except"]
    /\ goal' = [goal EXCEPT ![n] = target]

\* _drive reads the checkpoint.
DriveReads(n) ==
    /\ pc[n] = "starting"
    /\ Read(n)
    /\ pc' = [pc EXCEPT ![n] = "work"]
    /\ UNCHANGED <<details, goal, process, handler>>

\* What the checkpoint of a pause carries: a new approval request, a call to settle.
PausesFor(s, t) ==
    /\ IF t = "awaiting_approval"
       THEN /\ approval' = "pending"
            /\ asked' = {}
            /\ kind' \in IF s = "planning" THEN {"tool", "planning"} ELSE {s}
       ELSE /\ UNCHANGED <<approval, asked>>
            /\ kind' = IF t = "awaiting_clarification" THEN "none" ELSE kind
    /\ settled' = IF t = "awaiting_reconciliation" THEN FALSE ELSE settled
    /\ UNCHANGED <<deadline, hpc, hkind, hnode, hgoal>>

\* _execute writes its next checkpoint, or finds the run changed and stands down.
Checkpoint(n) ==
    /\ pc[n] = "work"
    /\ \E t \in RunStatus :
         /\ Step(held[n], t)
         /\ \/ /\ VersionMatches(n)
               /\ Save(n, t)
               /\ PausesFor(held[n], t)
               /\ UNCHANGED drive
            \/ /\ ~VersionMatches(n)
               /\ Leaves(n)
               /\ DriveEnds(n)
               /\ UNCHANGED <<details, handler>>
    /\ UNCHANGED process

\* The run is paused or over: _execute returns.
Returns(n) ==
    /\ pc[n] = "work"
    /\ held[n] \in Paused \cup Terminal
    /\ Leaves(n)
    /\ DriveEnds(n)
    /\ UNCHANGED <<details, process, handler>>

\* A model, tool, policy or limit error.
Raises(n) ==
    /\ pc[n] = "work"
    /\ Except(n, "failed")
    /\ UNCHANGED <<details, copies, process, handler>>

\* asyncio.timeout fires; a deadline that passed during a pause fires at once if it
\* was not moved.
TimesOut(n) ==
    /\ pc[n] = "work"
    /\ deadline # "ahead"
    /\ Except(n, "timed_out")
    /\ UNCHANGED <<details, copies, process, handler>>

\* task.cancel: ends a drive that has not begun or is in its except clause, else
\* raises in _execute.
Interrupt(n) ==
    IF pc[n] = "work"
    THEN /\ Except(n, IF mode[n] = "stopping" THEN "rewind" ELSE "cancelled")
         /\ UNCHANGED copies
    ELSE DriveEnds(n) /\ Leaves(n)

\* The except clause reads the checkpoint again.
ExceptReads(n) ==
    /\ pc[n] = "except"
    /\ \/ /\ status \in Terminal
          /\ DriveEnds(n)
          /\ Leaves(n)
       \/ /\ status \notin Terminal
          /\ Read(n)
          /\ pc' = [pc EXCEPT ![n] = "writing"]
          /\ UNCHANGED goal
    /\ UNCHANGED <<details, process, handler>>

\* Mutant: a shutdown writes the rewound status over whatever is stored.
ExceptMaySaveAlways(n) == goal[n] = "rewind" \/ (VersionMatches(n) /\ Legal(held[n], goal[n]))

ExceptMaySave(n) ==
    VersionMatches(n) /\ (goal[n] = "rewind" \/ Legal(held[n], goal[n]))

\* Mutant: the marker of a shutdown is stored as the status.
ExceptTargetRaw(n) == goal[n]

ExceptTarget(n) == IF goal[n] = "rewind" THEN RecoveryStatus(held[n]) ELSE goal[n]

\* It writes the run's end, or the rewound checkpoint of a shutdown; a transition the
\* table refuses or a lost race leaves the checkpoint as it is.
ExceptWrites(n) ==
    /\ pc[n] = "writing"
    /\ IF ExceptMaySave(n)
       THEN /\ status' = ExceptTarget(n)
            /\ fresh' = {}
            /\ held' = [held EXCEPT ![n] = "none"]
       ELSE Leaves(n)
    /\ DriveEnds(n)
    /\ UNCHANGED <<details, process, handler>>

\* The store fails in the drive, the write it was making applied or not: the run is
\* kept for _resume_after_outage unless the process is shutting down.
DriveOutage(n) ==
    /\ Outages /\ Running(n)
    /\ \/ /\ Leaves(n)
          /\ UNCHANGED <<details, handler>>
       \/ /\ pc[n] = "work" /\ VersionMatches(n)
          /\ \E t \in RunStatus :
               /\ Step(held[n], t)
               /\ status' = t
               /\ PausesFor(held[n], t)
          /\ fresh' = {}
          /\ held' = [held EXCEPT ![n] = "none"]
       \/ /\ pc[n] = "writing" /\ ExceptMaySave(n)
          /\ status' = ExceptTarget(n)
          /\ fresh' = {}
          /\ held' = [held EXCEPT ![n] = "none"]
          /\ UNCHANGED <<details, handler>>
    /\ DriveEnds(n)
    /\ outage' = IF mode[n] = "up" THEN outage \cup {n} ELSE outage
    /\ UNCHANGED mode

-----------------------------------------------------------------------------
(* Handlers.                                                               *)

Serving(n) == mode[n] \in {"up", "draining"}

Enter(h, n, what, location, target) ==
    /\ hpc[h] = "idle"
    /\ hpc' = [hpc EXCEPT ![h] = location]
    /\ hkind' = [hkind EXCEPT ![h] = what]
    /\ hnode' = [hnode EXCEPT ![h] = n]
    /\ hgoal' = [hgoal EXCEPT ![h] = target]
    /\ asked' = IF location \in {"deciding", "checking"} THEN asked \cup {h} ELSE asked
    /\ UNCHANGED <<details, drive>>

\* A request that begins by reading the checkpoint.
Request(h, n, what, location, target) ==
    /\ Enter(h, n, what, location, target)
    /\ Read(h)

Finish(h) ==
    /\ hpc' = [hpc EXCEPT ![h] = "idle"]
    /\ hkind' = [hkind EXCEPT ![h] = "none"]
    /\ hnode' = [hnode EXCEPT ![h] = None]
    /\ hgoal' = [hgoal EXCEPT ![h] = "none"]
    /\ asked' = asked \ {h}

\* start: the run is created; the run.started event and _schedule follow.
Start(h, n) ==
    /\ mode[n] = "up" /\ status = "none"
    /\ Enter(h, n, "start", "scheduling", "received")
    /\ status' = "received"
    /\ fresh' = {}
    /\ UNCHANGED <<held, process>>

Cancel(h, n) ==
    /\ Cancels /\ Serving(n)
    /\ status \in Active \cup Paused
    /\ Request(h, n, "cancel", "cancelling", "cancelled")
    /\ UNCHANGED process

\* cancel: the task of this process is cancelled before the run is.
CancelTask(h) ==
    /\ hpc[h] = "cancelling"
    /\ IF Running(hnode[h]) THEN Interrupt(hnode[h]) ELSE UNCHANGED <<drive, copies>>
    /\ hpc' = [hpc EXCEPT ![h] = "saving"]
    /\ UNCHANGED <<details, process, hkind, hnode, hgoal, asked>>

\* Mutant: resume does not wait for the drive that paused the run.
ResumeAtOnce(h, n) ==
    /\ Serving(n)
    /\ \/ /\ status = "awaiting_clarification"
          /\ Request(h, n, "resume", "saving", "building_context")
       \/ /\ status = "awaiting_approval"
          /\ Request(h, n, "resume", "deciding", "none")
    /\ UNCHANGED process

\* resume, once the drive that paused the run is over.
Resume(h, n) ==
    /\ Serving(n) /\ ~Running(n)
    /\ \/ /\ status = "awaiting_clarification"
          /\ Request(h, n, "resume", "saving", "building_context")
       \/ /\ status = "awaiting_approval"
          /\ Request(h, n, "resume", "deciding", "none")
    /\ UNCHANGED process

\* Mutant: a request already decided is decided again.
DecidableAgain(h) == h \in asked /\ approval # "expired"

\* decide accepts a pending request that has not expired.
Decidable(h) == h \in asked /\ approval = "pending"

\* Mutant: more budget that was refused lets the run go on as well.
AcceptEitherWay(h) ==
    /\ approval' \in {"approved", "rejected"}
    /\ hgoal' = [hgoal EXCEPT ![h] = IF kind = "tool" THEN "planning" ELSE kind]
    /\ UNCHANGED hkind

\* The decision is stored, and with it what resume will do with the run.
Accept(h) ==
    \/ /\ approval' = "approved"
       /\ hgoal' = [hgoal EXCEPT ![h] = IF kind = "tool" THEN "planning" ELSE kind]
       /\ UNCHANGED hkind
    \/ /\ approval' = "rejected"
       /\ IF kind = "tool" /\ OnRejection = "continue"
          THEN /\ hgoal' = [hgoal EXCEPT ![h] = "planning"]
               /\ hkind' = [hkind EXCEPT ![h] = "declined"]
          ELSE /\ hgoal' = [hgoal EXCEPT ![h] = "failed"]
               /\ UNCHANGED hkind

Decide(h) ==
    /\ hpc[h] = "deciding"
    /\ \/ /\ Decidable(h)
          /\ Accept(h)
          /\ hpc' = [hpc EXCEPT ![h] = "saving"]
          /\ UNCHANGED <<copies, hnode, asked>>
       \/ /\ ~Decidable(h)
          /\ Finish(h)
          /\ Discard(h)
          /\ UNCHANGED approval
    /\ UNCHANGED <<deadline, kind, settled, drive, process>>

\* steer on a paused run: the message is saved in the checkpoint.
SteerPaused(h, n) ==
    /\ Serving(n)
    /\ status \in Paused
    /\ Request(h, n, "steer", "saving", status)
    /\ UNCHANGED process

\* expire_paused_runs, for the run it lists.
Expire(h, n) ==
    /\ Serving(n)
    /\ \/ /\ status = "awaiting_approval"
          /\ Request(h, n, "expire", "checking", "timed_out")
       \/ /\ status = "awaiting_clarification"
          /\ Request(h, n, "expire", "saving", "timed_out")
    /\ UNCHANGED process

ExpireChecks(h) ==
    /\ hpc[h] = "checking"
    /\ \/ /\ h \in asked /\ approval = "expired"
          /\ hpc' = [hpc EXCEPT ![h] = "saving"]
          /\ UNCHANGED <<copies, hkind, hnode, hgoal, asked>>
       \/ /\ ~(h \in asked /\ approval = "expired")
          /\ Finish(h)
          /\ Discard(h)
    /\ UNCHANGED <<details, drive, process>>

\* _continue_run: the call the run waits on has an outcome.
Continue(h, n) ==
    /\ Serving(n)
    /\ status = "awaiting_reconciliation" /\ settled
    /\ Request(h, n, "continue", "saving", "building_context")
    /\ UNCHANGED process

\* recover, during the start of a process and before it serves.
Recover(h, n) ==
    /\ mode[n] = "starting"
    /\ \A g \in Handlers : hnode[g] # n
    /\ \/ /\ status \notin Active
          /\ mode' = [mode EXCEPT ![n] = "up"]
          /\ UNCHANGED <<details, copies, drive, handler>>
       \/ /\ status \in Active /\ deadline # "ahead"
          /\ Request(h, n, "recover", "saving", "timed_out")
          /\ UNCHANGED mode
       \/ /\ status \in Active /\ deadline = "ahead"
          /\ Request(h, n, "recover",
                     IF RecoveryStatus(status) = status THEN "scheduling" ELSE "saving",
                     RecoveryStatus(status))
          /\ UNCHANGED mode
    /\ UNCHANGED outage

\* _resume_after_outage, once the store answers.
Retry(h, n) ==
    /\ n \in outage /\ mode[n] = "up"
    /\ \A g \in Handlers : ~(hnode[g] = n /\ hkind[g] = "retry")
    /\ \/ /\ status \notin Active
          /\ outage' = outage \ {n}
          /\ UNCHANGED <<details, copies, drive, handler>>
       \/ /\ status \in Active /\ RecoveryStatus(status) = status
          /\ outage' = outage \ {n}
          /\ Request(h, n, "retry", "scheduling", status)
       \/ /\ status \in Active /\ RecoveryStatus(status) # status
          /\ UNCHANGED outage
          /\ Request(h, n, "retry", "saving", RecoveryStatus(status))
    /\ UNCHANGED mode

\* Recovery, the retry and steering write a status without validating the step.
MaySave(h) ==
    /\ VersionMatches(h)
    /\ hkind[h] \in {"steer", "recover", "retry"} \/ Legal(held[h], hgoal[h])

Schedules(h) ==
    /\ hkind[h] \in {"start", "resume", "declined", "continue", "recover", "retry"}
    /\ hgoal[h] \notin Terminal

\* Mutant: the time a run waited is charged to it.
NotRestored(h) == deadline

\* _restore_deadline_after_pause, which a declined call does not get.
Restored(h) ==
    IF /\ deadline = "paused" /\ hkind[h] \in {"resume", "continue"}
       /\ hgoal[h] \notin Terminal
    THEN "ahead" ELSE deadline

\* The handler's own transition or save, or the conflict it loses to.
HandlerSaves(h) ==
    /\ hpc[h] = "saving"
    /\ \/ /\ MaySave(h)
          /\ hkind[h] = "steer" => ~Running(hnode[h])
          /\ Save(h, hgoal[h])
          /\ deadline' = Restored(h)
          /\ hpc' = [hpc EXCEPT ![h] = IF Schedules(h) THEN "scheduling" ELSE "saved"]
          /\ UNCHANGED <<hkind, hnode, hgoal, asked, mode>>
       \/ /\ ~MaySave(h) \/ (hkind[h] = "steer" /\ Running(hnode[h]))
          /\ Finish(h)
          /\ Discard(h)
          /\ mode' = IF hkind[h] = "recover" THEN [mode EXCEPT ![hnode[h]] = "down"] ELSE mode
          /\ UNCHANGED deadline
    /\ outage' = IF hkind[h] = "retry" THEN outage \ {hnode[h]} ELSE outage
    /\ UNCHANGED <<approval, kind, settled, drive>>

\* The request is answered.
Answers(h) ==
    /\ hpc[h] = "saved"
    /\ Finish(h)
    /\ Discard(h)
    /\ mode' = IF hkind[h] = "recover" THEN [mode EXCEPT ![hnode[h]] = "up"] ELSE mode
    /\ UNCHANGED <<details, drive, outage>>

\* _schedule: a new drive, unless one is running here.
Schedule(h) ==
    /\ hpc[h] = "scheduling"
    /\ LET n == hnode[h] IN
       /\ pc' = IF Running(n) \/ (hkind[h] = "retry" /\ mode[n] # "up")
                THEN pc ELSE [pc EXCEPT ![n] = "starting"]
       /\ mode' = IF hkind[h] = "recover" THEN [mode EXCEPT ![n] = "up"] ELSE mode
    /\ Finish(h)
    /\ Discard(h)
    /\ UNCHANGED <<details, goal, outage>>

\* Events are published between the save and _schedule.
AnnouncesFirst(h) ==
    \/ hkind[h] \in {"start", "continue"}
    \/ hkind[h] = "resume" /\ kind \in {"planning", "building_context"}

\* The store fails in a handler, its write applied or not; a failed recovery ends the
\* start of the process, a failed retry is made again.
HandlerOutage(h) ==
    /\ Outages
    /\ \/ /\ hpc[h] \in {"deciding", "checking", "saving"}
          /\ Discard(h)
          /\ UNCHANGED details
       \/ /\ hpc[h] = "scheduling" /\ AnnouncesFirst(h)
          /\ Discard(h)
          /\ UNCHANGED details
       \/ /\ hpc[h] = "deciding" /\ Decidable(h)
          /\ approval' \in {"approved", "rejected"}
          /\ Discard(h)
          /\ UNCHANGED <<deadline, kind, settled>>
       \/ /\ hpc[h] = "saving" /\ MaySave(h)
          /\ status' = hgoal[h]
          /\ fresh' = {}
          /\ held' = [held EXCEPT ![h] = "none"]
          /\ deadline' = Restored(h)
          /\ UNCHANGED <<approval, kind, settled>>
    /\ Finish(h)
    /\ mode' = IF hkind[h] = "recover" THEN [mode EXCEPT ![hnode[h]] = "down"] ELSE mode
    /\ UNCHANGED <<drive, outage>>

-----------------------------------------------------------------------------
(* Processes, time and people.                                             *)

\* The process dies, its drive and its handlers with it.
Crash(n) ==
    /\ Crashes /\ mode[n] # "down"
    /\ mode' = [mode EXCEPT ![n] = "down"]
    /\ outage' = outage \ {n}
    /\ DriveEnds(n)
    /\ LET dead == {h \in Handlers : hnode[h] = n} IN
       /\ held' = [w \in Writers |-> IF w = n \/ w \in dead THEN "none" ELSE held[w]]
       /\ fresh' = fresh \ ({n} \cup dead)
       /\ hpc' = [h \in Handlers |-> IF h \in dead THEN "idle" ELSE hpc[h]]
       /\ hkind' = [h \in Handlers |-> IF h \in dead THEN "none" ELSE hkind[h]]
       /\ hnode' = [h \in Handlers |-> IF h \in dead THEN None ELSE hnode[h]]
       /\ hgoal' = [h \in Handlers |-> IF h \in dead THEN "none" ELSE hgoal[h]]
       /\ asked' = asked \ dead
    /\ UNCHANGED <<details, status>>

Restart(n) ==
    /\ mode[n] = "down"
    /\ mode' = [mode EXCEPT ![n] = "starting"]
    /\ UNCHANGED <<details, copies, drive, outage, handler>>

\* shutdown: no new runs, no retries; then the drives left over are cancelled.
Shutdown(n) ==
    /\ Crashes /\ mode[n] = "up"
    /\ mode' = [mode EXCEPT ![n] = "draining"]
    /\ outage' = outage \ {n}
    /\ UNCHANGED <<details, copies, drive, handler>>

ShutdownCancels(n) ==
    /\ mode[n] = "draining" /\ Running(n)
    /\ mode' = [mode EXCEPT ![n] = "stopping"]
    /\ IF pc[n] = "work"
       THEN Except(n, "rewind") /\ UNCHANGED copies
       ELSE DriveEnds(n) /\ Leaves(n)
    /\ UNCHANGED <<details, outage, handler>>

\* The run's deadline passes.
DeadlinePasses ==
    /\ Deadlines /\ deadline = "ahead"
    /\ status \in Active \cup Paused
    /\ deadline' = IF status \in Paused THEN "paused" ELSE "elapsed"
    /\ UNCHANGED <<approval, kind, settled, copies, drive, process, handler>>

ApprovalExpires ==
    /\ approval = "pending"
    /\ approval' = "expired"
    /\ UNCHANGED <<deadline, kind, settled, copies, drive, process, handler>>

\* An operator settles the call in the ledger (ToolLedger).
OperatorSettles ==
    /\ status = "awaiting_reconciliation" /\ ~settled
    /\ settled' = TRUE
    /\ UNCHANGED <<deadline, approval, kind, copies, drive, process, handler>>

-----------------------------------------------------------------------------
Drive(n) ==
    \/ DriveReads(n) \/ Checkpoint(n) \/ Returns(n) \/ Raises(n) \/ TimesOut(n)
    \/ ExceptReads(n) \/ ExceptWrites(n) \/ DriveOutage(n)

Begin(h, n) ==
    \/ Start(h, n) \/ Cancel(h, n) \/ Resume(h, n) \/ SteerPaused(h, n)
    \/ Expire(h, n) \/ Continue(h, n) \/ Recover(h, n) \/ Retry(h, n)

Handle(h) ==
    \/ CancelTask(h) \/ Decide(h) \/ ExpireChecks(h) \/ HandlerSaves(h)
    \/ Answers(h) \/ Schedule(h) \/ HandlerOutage(h)

Process(n) == Crash(n) \/ Restart(n) \/ Shutdown(n) \/ ShutdownCancels(n)

Next ==
    \/ \E n \in Nodes : Drive(n) \/ Process(n)
    \/ \E h \in Handlers : Handle(h)
    \/ \E h \in Handlers, n \in Nodes : Begin(h, n)
    \/ DeadlinePasses \/ ApprovalExpires \/ OperatorSettles

Spec == Init /\ [][Next]_vars

-----------------------------------------------------------------------------
(* Properties.                                                             *)

Somewhere == RunStatus \cup {"none"}

\* Type invariant of the run, the drives, the processes and the handlers.
TypeOK ==
    /\ status \in Somewhere
    /\ deadline \in {"ahead", "paused", "elapsed"}
    /\ approval \in {"none", "pending", "approved", "rejected", "expired"}
    /\ kind \in {"none", "tool", "planning", "building_context"}
    /\ settled \in BOOLEAN
    /\ fresh \subseteq Writers
    /\ held \in [Writers -> Somewhere]
    /\ pc \in [Nodes -> {"none", "starting", "work", "except", "writing"}]
    /\ goal \in [Nodes -> {"none", "failed", "timed_out", "cancelled", "rewind"}]
    /\ mode \in [Nodes -> {"starting", "up", "draining", "stopping", "down"}]
    /\ outage \subseteq Nodes
    /\ hpc \in [Handlers -> {"idle", "cancelling", "deciding", "checking", "saving",
                             "saved", "scheduling"}]
    /\ hkind \in [Handlers -> {"none", "start", "cancel", "resume", "declined", "steer",
                               "expire", "continue", "recover", "retry"}]
    /\ hnode \in [Handlers -> Nodes \cup {None}]
    /\ hgoal \in [Handlers -> Somewhere]
    /\ asked \subseteq Handlers

\* A copy that passes the version check shows the status that is stored: no drive,
\* request or sweep ever writes over a change it has not seen (RunStore.save).
CopiesCoherent == \A w \in fresh : held[w] = status

\* A run that ended stays as it ended, whatever drive, retry, sweep, recovery or
\* decision is still under way.
TerminalIsFinal == [][(status \in Terminal) => status' = status]_vars

\* The stored status moves only along the transition table, back to a step's start
\* when an interrupted run is taken up again, or to timed_out.
HistoryIsLegal ==
    [][\/ status' = status \/ status = "none"
       \/ Legal(status, status')
       \/ status' = RecoveryStatus(status)
       \/ status \in Active /\ status' = "timed_out"]_vars

\* A run waiting for approval goes on only when its request was approved, or declined
\* and the agent continues; of two opposite decisions the run follows the one stored.
RunFollowsDecision ==
    [][status = "awaiting_approval" /\ status' \in Active =>
         \/ approval = "approved"
         \/ approval = "rejected" /\ OnRejection = "continue" /\ kind = "tool"]_vars

\* A decision on an approval request is never changed by a later one.
DecisionStands ==
    [][(approval \in {"approved", "rejected", "expired"}) /\ approval' # approval
         => approval' = "pending" /\ status' = "awaiting_approval"]_vars

\* Time spent waiting for a person is not charged to the run: an executing run never
\* has a deadline that passed while it was paused (_restore_deadline_after_pause).
WaitIsFree == status \in Active => deadline # "paused"

\* A drive that will execute the run as it is now stored.
Driven == \E n \in Nodes : pc[n] = "starting" \/ (pc[n] = "work" /\ n \in fresh)

\* A handler of these kinds has just got past _schedule in a living process.
Scheduled(h, kinds) ==
    /\ hpc[h] = "scheduling" /\ hpc'[h] = "idle"
    /\ hkind[h] \in kinds
    /\ mode'[hnode[h]] # "down"

\* A run that was resumed is executed: no drive still finishing keeps the new one away.
ResumedRunIsDriven == [][\A h \in Handlers : Scheduled(h, {"resume", "declined"}) => Driven']_vars

\* A run whose approval was decided is being continued by the handler that decided it.
DecisionTaken ==
    status = "awaiting_approval" /\ approval \in {"approved", "rejected"} =>
        \E h \in Handlers : hpc[h] = "saving" /\ hkind[h] \in {"resume", "declined"}
=============================================================================
