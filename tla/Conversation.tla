---------------------------- MODULE Conversation ----------------------------
(***************************************************************************)
(* The turns of one conversation: conversations/service.py over the stores *)
(* of conversations/stores.py.  A turn is a user message, the assistant    *)
(* message that answers it and the agent run behind it.  The run is kept   *)
(* abstract (RunLifecycle models it): it runs, pauses, ends, and is driven *)
(* by the process that started or recovered it.                            *)
(*                                                                         *)
(* A process has one lock (ConversationService._lock), one task per        *)
(* conversation (_tasks) and any number of calls under way.  Code between  *)
(* two awaits is one action.  Messages are written without a version.      *)
(***************************************************************************)
EXTENDS Naturals, FiniteSets

CONSTANTS LastTurn,     \* turns are 1..LastTurn, in the order they are submitted
          Procs,        \* replicas that share the stores
          Calls,        \* requests and sweeps that may be under way at once
          MaxRestarts,  \* process deaths in a behaviour
          PublishFails, \* whether publishing an event may raise (a number taken twice, an outage)
          Stops,        \* the ways in which a drive may stop
          NoProc

NoCall == "free"  \* the lock of a process that nobody holds
StopKinds == {"awaiting_approval", "awaiting_clarification", "completed", "failed", "timed_out"}
ASSUME ConversationAssumption == LastTurn \in Nat \ {0} /\ MaxRestarts \in Nat
                                 /\ PublishFails \in BOOLEAN /\ Stops \subseteq StopKinds
                                 /\ NoProc \notin Procs /\ NoCall \notin Calls

VARIABLES msg,      \* status of the assistant message of each turn
          run,      \* status of the run of each turn
          driver,   \* the process that drives a running run
          late,     \* turns whose approval request is past its expiry
          task,     \* per process: the turn task of the conversation
          lock,     \* per process: the call that holds ConversationService._lock
          calls,    \* what each call is doing
          proc,     \* per process: "serving", "starting" or "down"
          version,  \* of the conversation record, changed by titles and renames
          restarts
convVars == <<msg, run, driver, late, task, lock, calls, proc, version, restarts>>

Turns == 1..LastTurn
Awaiting == {"awaiting_approval", "awaiting_input"}
InProgress == {"accepted", "streaming"}
Final == {"completed", "failed", "cancelled", "expired"}
RunPaused == {"awaiting_approval", "awaiting_clarification"}
RunEnded == {"completed", "failed", "cancelled", "timed_out"}
MessageStatus == {"none"} \cup InProgress \cup Awaiting \cup Final
RunState == {"none", "running"} \cup RunPaused \cup RunEnded

NoTask == [turn |-> 0, at |-> "none", outcome |-> "none", cancelled |-> FALSE]
NewTask(t, at) == [NoTask EXCEPT !.turn = t, !.at = at]
Idle == [op |-> "idle", at |-> "idle", p |-> NoProc, turn |-> 0, todo |-> {}, version |-> 0]

(* The store: a message is replaced whole, by id, whoever wrote it last.   *)
AppendMessage(t) == msg' = [msg EXCEPT ![t] = "accepted"]
UpdateMessage(t, status) == msg' = [msg EXCEPT ![t] = status]
AwaitingMessages == {t \in Turns : msg[t] \in Awaiting}
PendingMessages == {t \in Turns : msg[t] \in InProgress}
\* The versioned save of the conversation record.
SaveConflicts(expected) == expected # version

\* `active and not active.done()`
TaskActive(p) == task[p].at # "none"
\* _awaiting_message: the latest assistant message that awaits, 0 if there is none.
AwaitingTurn == LET W == AwaitingMessages
                IN  IF W = {} THEN 0 ELSE CHOOSE t \in W : \A u \in W : u <= t
NextTurn == Cardinality({t \in Turns : msg[t] # "none"}) + 1

\* pending_state
PendingState(t) == CASE run[t] \in RunEnded \cup {"none"} -> "ended"
                     [] run[t] \in RunPaused -> "paused"
                     [] OTHER -> "running"

\* _turn_result with _STATUS_BY_OUTCOME: the statuses a result may give the message.  A timeout of a
\* run that was not waiting ends as expired only for an expiry reason; a wait for a run nobody in this
\* process drives returns at once, with no error and no text.
TurnOutcomes(t, waited) ==
    CASE run[t] = "awaiting_approval" -> {"awaiting_approval"}
      [] run[t] = "awaiting_clarification" -> {"awaiting_input"}
      [] run[t] = "timed_out" -> IF waited THEN {"expired"} ELSE {"expired", "failed"}
      [] run[t] \in {"failed", "none"} -> {"failed"}
      [] run[t] = "cancelled" -> {"cancelled"}
      [] OTHER -> {"completed"}

ConvTypeOK ==
    /\ msg \in [Turns -> MessageStatus]
    /\ run \in [Turns -> RunState]
    /\ driver \in [Turns -> Procs \cup {NoProc}]
    /\ late \subseteq Turns
    /\ task \in [Procs -> [turn : 0..LastTurn, cancelled : BOOLEAN,
                           outcome : {"none"} \cup Awaiting \cup Final,
                           at : {"none", "created", "resumed", "work", "wait",
                                 "store", "announce_result", "fail", "cancel"}]]
    /\ lock \in [Procs -> Calls \cup {NoCall}]
    /\ calls \in [Calls -> [op : {"idle", "submit", "respond", "cancel", "reconcile", "recover"},
                            at : {"idle", "enter", "check", "settle", "append", "task",
                                  "answer", "resumed", "end", "write", "next", "fail"},
                            p : Procs \cup {NoProc}, turn : 0..LastTurn,
                            todo : SUBSET Turns, version : Nat]]
    /\ proc \in [Procs -> {"serving", "starting", "down"}]
    /\ version \in Nat /\ restarts \in 0..MaxRestarts

ConvInit ==
    /\ msg = [t \in Turns |-> "none"] /\ run = [t \in Turns |-> "none"]
    /\ driver = [t \in Turns |-> NoProc] /\ late = {}
    /\ task = [p \in Procs |-> NoTask] /\ lock = [p \in Procs |-> NoCall]
    /\ calls = [c \in Calls |-> Idle] /\ proc = [p \in Procs |-> "serving"]
    /\ version = 0 /\ restarts = 0

-----------------------------------------------------------------------------
(* Calls.  A call enters, takes the lock of its process, works, leaves.    *)

Enter(c, p, op, t, todo) ==
    /\ calls[c] = Idle
    /\ calls' = [calls EXCEPT ![c] = [op |-> op, at |-> "enter", p |-> p, turn |-> t,
                                      todo |-> todo,
                                      version |-> IF op = "submit" /\ NextTurn = 1 THEN version ELSE 0]]
CallIs(c, op, at) == calls[c].op = op /\ calls[c].at = at
CallAt(c, at) == calls' = [calls EXCEPT ![c].at = at]
\* Leave `async with self._lock` and the call.
Leave(c) == /\ calls' = [calls EXCEPT ![c] = Idle]
            /\ lock' = [lock EXCEPT ![calls[c].p] = NoCall]
\* reconcile_pending_turns goes on to the next message it listed.
NextMessage(c) == /\ calls' = [calls EXCEPT ![c].at = "next", ![c].turn = 0]
                  /\ lock' = [lock EXCEPT ![calls[c].p] = NoCall]
Acquire(c) == /\ lock[calls[c].p] = NoCall
              /\ lock' = [lock EXCEPT ![calls[c].p] = c]

\* submit: reads the conversation, then waits for the lock.
Submit(c, p) == /\ proc[p] = "serving" /\ NextTurn \in Turns
                /\ Enter(c, p, "submit", 0, {})
                /\ UNCHANGED <<msg, run, driver, late, task, lock, proc, version, restarts>>

\* Mutant: submit looks only for a running task, not for a turn that waits.
SubmitCheckBusyOnly(c) ==
    /\ CallIs(c, "submit", "enter") /\ lock[calls[c].p] = NoCall
    /\ IF TaskActive(calls[c].p) THEN calls' = [calls EXCEPT ![c] = Idle] /\ lock' = lock
       ELSE Acquire(c) /\ CallAt(c, "append")
    /\ UNCHANGED <<msg, run, driver, late, task, proc, version, restarts>>

\* Refused beside an active response or a turn that waits; a turn whose run ended is settled first.
SubmitCheck(c) ==
    /\ CallIs(c, "submit", "enter") /\ lock[calls[c].p] = NoCall
    /\ LET p == calls[c].p   w == AwaitingTurn
       IN  IF TaskActive(p) \/ (w # 0 /\ PendingState(w) # "ended")
           THEN calls' = [calls EXCEPT ![c] = Idle] /\ lock' = lock
           ELSE /\ Acquire(c)
                /\ calls' = [calls EXCEPT ![c].at = IF w = 0 THEN "append" ELSE "settle", ![c].turn = w]
    /\ UNCHANGED <<msg, run, driver, late, task, proc, version, restarts>>
\* append_message, twice.  The first message also names the conversation: a rename since the call read
\* it makes that save conflict, and the accepted message is left without a task.
SubmitAppend(c) ==
    /\ CallIs(c, "submit", "append")
    /\ IF NextTurn \notin Turns THEN Leave(c) /\ UNCHANGED <<msg, version>>
       ELSE /\ AppendMessage(NextTurn)
            /\ IF NextTurn = 1 /\ SaveConflicts(calls[c].version)
               THEN Leave(c) /\ version' = version
               ELSE /\ calls' = [calls EXCEPT ![c] = [@ EXCEPT !.at = "task", !.turn = NextTurn, !.version = 0]]
                    /\ version' = IF NextTurn = 1 THEN version + 1 ELSE version
                    /\ lock' = lock
    /\ UNCHANGED <<run, driver, late, task, proc, restarts>>
SubmitTask(c) ==
    /\ CallIs(c, "submit", "task")
    /\ task' = [task EXCEPT ![calls[c].p] = NewTask(calls[c].turn, "created")]
    /\ Leave(c)
    /\ UNCHANGED <<msg, run, driver, late, proc, version, restarts>>

\* respond
Respond(c, p, t) == /\ proc[p] = "serving" /\ msg[t] # "none"
                    /\ Enter(c, p, "respond", t, {})
                    /\ UNCHANGED <<msg, run, driver, late, task, lock, proc, version, restarts>>
RespondCheck(c) ==
    /\ CallIs(c, "respond", "enter") /\ lock[calls[c].p] = NoCall
    /\ IF TaskActive(calls[c].p) \/ msg[calls[c].turn] \notin Awaiting
       THEN calls' = [calls EXCEPT ![c] = Idle] /\ lock' = lock
       ELSE Acquire(c) /\ CallAt(c, "answer")
    /\ UNCHANGED <<msg, run, driver, late, task, proc, version, restarts>>
\* handler.resume: an expired approval ends the turn; a run that no longer waits settles it if it
\* ended and refuses the answer otherwise; else the run goes on, driven here.
RespondAnswer(c) ==
    /\ CallIs(c, "respond", "answer")
    /\ LET t == calls[c].turn IN
       \/ /\ t \in late /\ msg[t] = "awaiting_approval"
          /\ UpdateMessage(t, "expired") /\ Leave(c)
          /\ UNCHANGED <<run, driver>>
       \/ /\ ~(t \in late /\ msg[t] = "awaiting_approval") /\ run[t] \in RunPaused
          /\ run' = [run EXCEPT ![t] = "running"]
          /\ driver' = [driver EXCEPT ![t] = calls[c].p]
          /\ CallAt(c, "resumed") /\ UNCHANGED <<msg, lock>>
       \/ /\ ~(t \in late /\ msg[t] = "awaiting_approval") /\ run[t] \notin RunPaused
          /\ IF PendingState(t) = "ended" THEN CallAt(c, "settle") /\ lock' = lock ELSE Leave(c)
          /\ UNCHANGED <<msg, run, driver>>
    /\ UNCHANGED <<late, task, proc, version, restarts>>
\* The message streams again and a task follows the run (respond, and reconcile's last branch).
FollowAgain(c) ==
    /\ calls[c].at = "resumed"
    /\ UpdateMessage(calls[c].turn, "streaming")
    /\ task' = [task EXCEPT ![calls[c].p] = NewTask(calls[c].turn, "resumed")]
    /\ IF calls[c].op = "respond" THEN Leave(c)
       ELSE NextMessage(c)
    /\ UNCHANGED <<run, driver, late, proc, version, restarts>>
\* _settle: the outcome of the ended run, from submit, respond and reconcile.
SettleTurn(c) ==
    /\ calls[c].at = "settle"
    /\ \E outcome \in TurnOutcomes(calls[c].turn, TRUE) : UpdateMessage(calls[c].turn, outcome)
    /\ CASE calls[c].op = "submit" -> calls' = [calls EXCEPT ![c].at = "append", ![c].turn = 0] /\ lock' = lock
         [] calls[c].op = "respond" -> Leave(c)
         [] OTHER -> NextMessage(c)
    /\ UNCHANGED <<run, driver, late, task, proc, version, restarts>>

\* cancel: looks for the task before it takes the lock.
CancelTurn(c, p) ==
    /\ proc[p] = "serving" /\ calls[c] = Idle
    /\ IF TaskActive(p) THEN task' = [task EXCEPT ![p].cancelled = TRUE] /\ calls' = calls
                    ELSE Enter(c, p, "cancel", 0, {}) /\ task' = task
    /\ UNCHANGED <<msg, run, driver, late, lock, proc, version, restarts>>
CancelCheck(c) ==
    /\ CallIs(c, "cancel", "enter") /\ lock[calls[c].p] = NoCall
    /\ IF AwaitingTurn = 0 THEN calls' = [calls EXCEPT ![c] = Idle] /\ lock' = lock
       ELSE Acquire(c) /\ calls' = [calls EXCEPT ![c].at = "end", ![c].turn = AwaitingTurn]
    /\ UNCHANGED <<msg, run, driver, late, task, proc, version, restarts>>
\* _end_pending_run: Runtime.cancel of a run that has not ended.
CancelRun(c) ==
    /\ CallIs(c, "cancel", "end")
    /\ LET t == calls[c].turn IN
       IF run[t] \in RunEnded THEN UNCHANGED <<run, driver, late>>
       ELSE /\ run' = [run EXCEPT ![t] = "cancelled"] /\ driver' = [driver EXCEPT ![t] = NoProc]
            /\ late' = late \ {t}
    /\ CallAt(c, "write")
    /\ UNCHANGED <<msg, task, lock, proc, version, restarts>>
CancelWrite(c) ==
    /\ CallIs(c, "cancel", "write")
    /\ UpdateMessage(calls[c].turn, "cancelled")
    /\ Leave(c)
    /\ UNCHANGED <<run, driver, late, task, proc, version, restarts>>

\* reconcile_pending_turns: the waiting turns are listed once, then taken one by one under the lock.
Reconcile(c, p) ==
    /\ proc[p] = "serving" /\ AwaitingTurn # 0
    /\ \A d \in Calls : calls[d].op \notin {"reconcile", "recover"} \/ calls[d].p # p
    /\ calls[c] = Idle
    /\ calls' = [calls EXCEPT ![c] = [Idle EXCEPT !.op = "reconcile", !.at = "next", !.p = p,
                                      !.todo = AwaitingMessages]]
    /\ UNCHANGED <<msg, run, driver, late, task, lock, proc, version, restarts>>

\* Mutant: the sweep trusts the status it listed.
ReconcileNextAsListed(c) ==
    /\ CallIs(c, "reconcile", "next") /\ calls[c].todo # {}
    /\ lock[calls[c].p] = NoCall
    /\ \E t \in calls[c].todo :
         LET skip == TaskActive(calls[c].p) \/ PendingState(t) = "paused"
             next == IF skip THEN "next" ELSE IF PendingState(t) = "ended" THEN "settle" ELSE "resumed"
         IN  /\ calls' = [calls EXCEPT ![c].todo = @ \ {t}, ![c].at = next, ![c].turn = IF skip THEN 0 ELSE t]
             /\ IF skip THEN lock' = lock ELSE Acquire(c)
    /\ UNCHANGED <<msg, run, driver, late, task, proc, version, restarts>>

\* Mutant: the sweep leaves turns whose run has ended.
ReconcileNextLeavesEnded(c) ==
    /\ CallIs(c, "reconcile", "next") /\ calls[c].todo # {}
    /\ lock[calls[c].p] = NoCall
    /\ \E t \in calls[c].todo :
         LET skip == TaskActive(calls[c].p) \/ msg[t] \notin Awaiting \/ PendingState(t) # "running"
         IN  /\ calls' = [calls EXCEPT ![c].todo = @ \ {t}, ![c].at = IF skip THEN "next" ELSE "resumed",
                                        ![c].turn = IF skip THEN 0 ELSE t]
             /\ IF skip THEN lock' = lock ELSE Acquire(c)
    /\ UNCHANGED <<msg, run, driver, late, task, proc, version, restarts>>

\* The message is read again under the lock; a turn still paused or being answered is left alone.
ReconcileTurn(c, t) ==
    LET skip == TaskActive(calls[c].p) \/ msg[t] \notin Awaiting \/ PendingState(t) = "paused"
        next == IF skip THEN "next" ELSE IF PendingState(t) = "ended" THEN "settle" ELSE "resumed"
    IN  /\ calls' = [calls EXCEPT ![c].todo = @ \ {t}, ![c].at = next, ![c].turn = IF skip THEN 0 ELSE t]
        /\ IF skip THEN lock' = lock ELSE Acquire(c)
ReconcileNext(c) ==
    /\ CallIs(c, "reconcile", "next") /\ calls[c].todo # {}
    /\ lock[calls[c].p] = NoCall
    /\ \E t \in calls[c].todo : ReconcileTurn(c, t)
    /\ UNCHANGED <<msg, run, driver, late, task, proc, version, restarts>>
ReconcileDone(c) ==
    /\ CallIs(c, "reconcile", "next") /\ calls[c].todo = {}
    /\ calls' = [calls EXCEPT ![c] = Idle]
    /\ proc' = [proc EXCEPT ![calls[c].p] = "serving"]
    /\ UNCHANGED <<msg, run, driver, late, task, lock, version, restarts>>

\* update (a rename or an archive): a versioned save.
Update == /\ version = 0 /\ version' = 1
          /\ UNCHANGED <<msg, run, driver, late, task, lock, calls, proc, restarts>>

-----------------------------------------------------------------------------
(* The task of a turn: _respond and _respond_observed.                     *)

StepTask(p, at) == task' = [task EXCEPT ![p].at = at]
EndTask(p) == task' = [task EXCEPT ![p] = NoTask]
Uncancelled(p, at) == task[p].at = at /\ ~task[p].cancelled

\* The message streams; a resumed one does already.
TaskStart(p) ==
    /\ \/ /\ Uncancelled(p, "created")
          /\ UpdateMessage(task[p].turn, "streaming") /\ StepTask(p, "work")
       \/ Uncancelled(p, "resumed") /\ StepTask(p, "wait") /\ msg' = msg
    /\ UNCHANGED <<run, driver, late, lock, calls, proc, version, restarts>>
\* assistant.message.started, which ends the task when it cannot be published; then handler.handle:
\* Runtime.start, or a refusal of it.
TaskWork(p) ==
    /\ Uncancelled(p, "work")
    /\ \/ /\ run' = [run EXCEPT ![task[p].turn] = "running"]
          /\ driver' = [driver EXCEPT ![task[p].turn] = p]
          /\ StepTask(p, "wait")
       \/ StepTask(p, "fail") /\ UNCHANGED <<run, driver>>
       \/ PublishFails /\ EndTask(p) /\ UNCHANGED <<run, driver>>
    /\ UNCHANGED <<msg, late, lock, calls, proc, version, restarts>>
\* follow_run returns when no drive of this process is left: the run paused or ended, or another
\* process drives it.
TaskResult(p) ==
    /\ Uncancelled(p, "wait")
    /\ LET t == task[p].turn IN
       /\ ~(run[t] = "running" /\ driver[t] = p)
       /\ \E outcome \in TurnOutcomes(t, FALSE) :
            task' = [task EXCEPT ![p].at = "store", ![p].outcome = outcome]
    /\ UNCHANGED <<msg, run, driver, late, lock, calls, proc, version, restarts>>
\* _store_result: the message, then its event.
TaskStore(p) ==
    /\ Uncancelled(p, "store")
    /\ UpdateMessage(task[p].turn, task[p].outcome)
    /\ StepTask(p, "announce_result")
    /\ UNCHANGED <<run, driver, late, lock, calls, proc, version, restarts>>
TaskDone(p) ==
    /\ Uncancelled(p, "announce_result")
    /\ EndTask(p) \/ (PublishFails /\ StepTask(p, "fail"))
    /\ UNCHANGED <<msg, run, driver, late, lock, calls, proc, version, restarts>>
\* `except Exception`
TaskFail(p) ==
    /\ Uncancelled(p, "fail")
    /\ UpdateMessage(task[p].turn, "failed") /\ EndTask(p)
    /\ UNCHANGED <<run, driver, late, lock, calls, proc, version, restarts>>
\* CancelledError at the next await.  Before the try block the task ends without a word ("work" begins
\* before it); inside it the wait's cancellation has ended the drive.  A second one interrupts the
\* handler of the first.
TaskCancelled(p) ==
    /\ task[p].cancelled
    /\ LET t == task[p].turn IN
       /\ \/ /\ task[p].at \in {"work", "wait", "store", "announce_result"}
             /\ task' = [task EXCEPT ![p] = NewTask(t, "cancel")]
          \/ task[p].at \notin {"wait", "store", "announce_result"} /\ EndTask(p)
       /\ IF task[p].at = "wait" /\ run[t] = "running" /\ driver[t] = p
          THEN run' = [run EXCEPT ![t] = "cancelled"] /\ driver' = [driver EXCEPT ![t] = NoProc]
          ELSE UNCHANGED <<run, driver>>
    /\ UNCHANGED <<msg, late, lock, calls, proc, version, restarts>>
TaskCancelWrite(p) ==
    /\ Uncancelled(p, "cancel")
    /\ UpdateMessage(task[p].turn, "cancelled") /\ EndTask(p)
    /\ UNCHANGED <<run, driver, late, lock, calls, proc, version, restarts>>

-----------------------------------------------------------------------------
(* The runs and the processes.                                             *)

\* A drive ends its run or pauses it.
RunStops(t) ==
    /\ run[t] = "running" /\ driver[t] # NoProc
    /\ \E s \in Stops : run' = [run EXCEPT ![t] = s]
    /\ driver' = [driver EXCEPT ![t] = NoProc]
    /\ UNCHANGED <<msg, late, task, lock, calls, proc, version, restarts>>
\* A paused run is also resumed through the runtime's own interface.
ResumedElsewhere(t) ==
    /\ run[t] \in RunPaused /\ t \notin late
    /\ \E p \in Procs : proc[p] = "serving" /\ driver' = [driver EXCEPT ![t] = p]
    /\ run' = [run EXCEPT ![t] = "running"]
    /\ UNCHANGED <<msg, late, task, lock, calls, proc, version, restarts>>
\* An approval passes its expiry; expire_paused_runs then ends its run.
ApprovalExpires(t) ==
    /\ run[t] = "awaiting_approval" /\ t \notin late
    /\ late' = late \cup {t}
    /\ UNCHANGED <<msg, run, driver, task, lock, calls, proc, version, restarts>>
ExpirePausedRun(t) ==
    /\ run[t] = "awaiting_approval" /\ t \in late
    /\ run' = [run EXCEPT ![t] = "timed_out"] /\ late' = late \ {t}
    /\ UNCHANGED <<msg, driver, task, lock, calls, proc, version, restarts>>
\* A process dies: its task, calls, lock and drives are gone.
Die(p) ==
    /\ proc[p] # "down" /\ restarts < MaxRestarts
    /\ restarts' = restarts + 1
    /\ proc' = [proc EXCEPT ![p] = "down"]
    /\ task' = [task EXCEPT ![p] = NoTask] /\ lock' = [lock EXCEPT ![p] = NoCall]
    /\ calls' = [c \in Calls |-> IF calls[c].p = p THEN Idle ELSE calls[c]]
    /\ driver' = [t \in Turns |-> IF driver[t] = p THEN NoProc ELSE driver[t]]
    /\ UNCHANGED <<msg, run, late, version>>

\* Mutant: a start does not recover the runs.
StartUpConversationsOnly(p) ==
    /\ proc[p] = "down"
    /\ proc' = [proc EXCEPT ![p] = "starting"]
    /\ UNCHANGED <<msg, run, driver, late, task, lock, calls, version, restarts>>

\* Container.start: the runs are recovered, and driven here, before the conversations.
StartUp(p) ==
    /\ proc[p] = "down"
    /\ proc' = [proc EXCEPT ![p] = "starting"]
    /\ driver' = [t \in Turns |-> IF run[t] = "running" THEN p ELSE driver[t]]
    /\ UNCHANGED <<msg, run, late, task, lock, calls, version, restarts>>
\* recover: the interrupted messages are listed, then failed one by one.
RecoverTurns(c, p) ==
    /\ proc[p] = "starting" /\ calls[c] = Idle
    /\ \A d \in Calls : calls[d].p # p
    /\ calls' = [calls EXCEPT ![c] = [Idle EXCEPT !.op = "recover", !.at = "fail", !.p = p,
                                      !.todo = PendingMessages]]
    /\ UNCHANGED <<msg, run, driver, late, task, lock, proc, version, restarts>>
RecoverFail(c) ==
    /\ CallIs(c, "recover", "fail")
    /\ IF calls[c].todo = {}
       THEN /\ calls' = [calls EXCEPT ![c].op = "reconcile", ![c].at = "next",
                                      ![c].todo = AwaitingMessages]
            /\ msg' = msg
       ELSE \E t \in calls[c].todo : /\ UpdateMessage(t, "failed")
                                     /\ calls' = [calls EXCEPT ![c].todo = @ \ {t}]
    /\ UNCHANGED <<run, driver, late, task, lock, proc, version, restarts>>

CallStep(c) ==
    \/ SubmitCheck(c) \/ SubmitAppend(c) \/ SubmitTask(c)
    \/ RespondCheck(c) \/ RespondAnswer(c) \/ FollowAgain(c) \/ SettleTurn(c)
    \/ CancelCheck(c) \/ CancelRun(c) \/ CancelWrite(c)
    \/ ReconcileNext(c) \/ ReconcileDone(c) \/ RecoverFail(c)
TaskStep(p) ==
    \/ TaskStart(p) \/ TaskWork(p) \/ TaskResult(p) \/ TaskStore(p)
    \/ TaskDone(p) \/ TaskFail(p) \/ TaskCancelled(p) \/ TaskCancelWrite(p)
Request(c, p) == Submit(c, p) \/ CancelTurn(c, p) \/ \E t \in Turns : Respond(c, p, t)
RunStep(t) == RunStops(t) \/ ResumedElsewhere(t) \/ ApprovalExpires(t) \/ ExpirePausedRun(t)

ConvNext ==
    \/ \E c \in Calls, p \in Procs : Request(c, p) \/ Reconcile(c, p) \/ RecoverTurns(c, p)
    \/ \E c \in Calls : CallStep(c)
    \/ \E p \in Procs : TaskStep(p) \/ Die(p) \/ StartUp(p)
    \/ \E t \in Turns : RunStep(t)
    \/ Update

\* Code that is not waiting for another party goes on, drives end, and the maintenance loop sweeps.
ConvFairness ==
    /\ \A c \in Calls : SF_convVars(CallStep(c))
    /\ \A p \in Procs : /\ WF_convVars(TaskStep(p)) /\ WF_convVars(StartUp(p))
                        /\ SF_convVars(\E c \in Calls : Reconcile(c, p))
                        /\ WF_convVars(\E c \in Calls : RecoverTurns(c, p))
    /\ \A t \in Turns : WF_convVars(RunStops(t))

ConvSafe == ConvInit /\ [][ConvNext]_convVars
ConvSpec == ConvInit /\ [][ConvNext]_convVars /\ ConvFairness

-----------------------------------------------------------------------------
(* At most one turn of a conversation waits for a person: submit refuses a
   message beside a waiting turn and no turn starts to wait again unnoticed. *)
OneWaits == Cardinality({t \in Turns : msg[t] \in Awaiting}) <= 1

(* A message that says completed answers a run that completed, also when
   the turn was followed again after a restart. *)
CompletedIsTrue == \A t \in Turns : msg[t] = "completed" => run[t] = "completed"

\* At any time the turns are sound: whatever requests, sweeps and restarts overlap, one of them
\* waits at most and what is told as completed is (submit, _store_result, recover).
TurnsSound == ConvTypeOK /\ OneWaits /\ CompletedIsTrue

(* The outcome of a turn whose task has ended stands: neither a sweep that
   listed it earlier nor an answer or a cancel under way writes over it. *)
OutcomeStands ==
    [][\A t \in Turns : (msg[t] \in Final /\ \A p \in Procs : task[p].turn # t) => msg'[t] = msg[t]]_convVars

(* The conversation keeps its contract: whatever requests, sweeps, cancels
   and restarts overlap, only the newest turn is ever taken up again, and
   none that is over (submit, respond, cancel, reconcile, recover). *)
StageOf == [status \in MessageStatus |->
              CASE status = "accepted" -> "accepted"
                [] status = "streaming" -> "working"
                [] status \in Awaiting -> "waiting"
                [] status \in Final -> "over"
                [] OTHER -> "none"]
Turn == INSTANCE TurnContract WITH stage <- [t \in Turns |-> StageOf[msg[t]]]
ContractKept == Turn!Contract

(* A turn whose run no longer waits does not stay waiting: its answer, its
   end or a restart between the two is taken up by the sweep. *)
PendingFollowsRun ==
    \A t \in Turns : (msg[t] \in Awaiting /\ run[t] \notin RunPaused) ~> (msg[t] \in Awaiting => run[t] \in RunPaused)
=============================================================================
