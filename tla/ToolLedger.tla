----------------------------- MODULE ToolLedger -----------------------------
(***************************************************************************)
(* One tool call in the tool-execution ledger: every execution of it by    *)
(* the executor (tools/executor.py), the operator decisions about it       *)
(* (runtime/reconciliation.py) and the record both write                   *)
(* (persistence/tool_executions.py, PostgresToolExecutionStore).           *)
(*                                                                         *)
(* Calls with different idempotency keys share nothing, so one key is      *)
(* enough.  Each store operation is atomic; what lies between two of them  *)
(* (a hook, a policy, another query) is a window in which every other      *)
(* execution and decision may move.                                        *)
(*                                                                         *)
(* The external system is part of the model: from the moment a handler     *)
(* starts, its effect is possible; it may take effect long after the       *)
(* caller stopped waiting or the process died, or never.                   *)
(***************************************************************************)
EXTENDS Naturals, FiniteSets

CONSTANTS
    Execs,          \* invocations of ToolExecutor.execute with this key
    Ops,            \* operator requests about the call
    SideEffecting,  \* the tool changes something (not SideEffect.NONE or READ)
    Retries,        \* execute runs a raising handler again (not NON_IDEMPOTENT)
    HasHook,        \* the tool has a reconcile hook, used on replay
    SingleNode,     \* one process per database: an execution starts when the earlier
                    \* ones are over, and a stale record's execution is gone
    Serialized,     \* decisions about the call do not overlap
    None

ASSUME LedgerAssumption ==
    /\ SideEffecting \in BOOLEAN /\ Retries \in BOOLEAN /\ HasHook \in BOOLEAN
    /\ SingleNode \in BOOLEAN /\ Serialized \in BOOLEAN
    /\ None \notin Execs
    /\ Execs \cap Ops = {}

VARIABLES
    status,       \* the record's status, "none" before the first reservation
    resolutions,  \* the decisions kept in the record
    holder,       \* (not in the code) the execution of the latest reservation
    decided,      \* (not in the code) every decision that was ever accepted
    effect,       \* [Execs -> ...]: what became of the execution's side effect
    pc, outcome,  \* an execution's location and the outcome it is about to record
    opc, target,  \* an operator request's location and the status it will write
    seen, kept    \* status and resolutions read by an execution or a request

record == <<status, resolutions, holder, decided>>
exec == <<pc, outcome>>
oper == <<opc, target>>
reads == <<seen, kept>>
vars == <<record, effect, exec, oper, reads>>

-----------------------------------------------------------------------------
ToolExecutionStatus ==
    {"started", "indeterminate", "completed", "failed",
     "compensating", "compensated", "compensation_failed"}

UnknownOutcome == {"started", "indeterminate"}
Compensable == {"completed", "indeterminate", "compensation_failed"}
CompensationStatuses == {"compensating", "compensated", "compensation_failed"}

Actors == Execs \cup Ops

\* A decision is named by who made it and what it decided.
Decisions == Actors \X ToolExecutionStatus

Init ==
    /\ status = "none"
    /\ resolutions = {}
    /\ holder = None
    /\ decided = {}
    /\ effect = [e \in Execs |-> "none"]
    /\ pc = [e \in Execs |-> "idle"]
    /\ outcome = [e \in Execs |-> "failed"]
    /\ opc = [o \in Ops |-> "idle"]
    /\ target = [o \in Ops |-> "failed"]
    /\ seen = [a \in Actors |-> "none"]
    /\ kept = [a \in Actors |-> {}]

Running(e) == pc[e] \notin {"idle", "done", "dead"}

Pending(o) == opc[o] \notin {"idle", "done", "dead"}

NobodyDecides ==
    /\ \A e \in Execs : pc[e] # "reconciling"
    /\ \A o \in Ops : ~Pending(o)

\* What the external system can say truthfully about the call.
TookEffect == \E e \in Execs : effect[e] = "applied"
NeverWill == \A e \in Execs : effect[e] \in {"none", "never"}

\* An answer of the reconcile hook, or an operator's finding, that is true.
Truthful(answer) ==
    \/ answer = "completed" /\ TookEffect
    \/ answer = "failed" /\ NeverWill

-----------------------------------------------------------------------------
(* The executor.                                                           *)

\* The reservation is written: the handler runs next, its effect is possible.
Reserve(e, history) ==
    /\ status' = "started"
    /\ resolutions' = history
    /\ holder' = e
    /\ pc' = [pc EXCEPT ![e] = "handler"]
    /\ effect' = IF SideEffecting THEN [effect EXCEPT ![e] = "possible"] ELSE effect
    /\ UNCHANGED <<decided, outcome, oper, reads>>

Goto(e, location) ==
    /\ pc' = [pc EXCEPT ![e] = location]
    /\ UNCHANGED <<record, effect, outcome, oper>>

\* begin: the insert of a first reservation.
Begin(e) ==
    /\ pc[e] = "idle"
    /\ SingleNode => \A f \in Execs : ~Running(f)
    /\ status = "none"
    /\ Reserve(e, resolutions)

\* begin: the read of an existing record, and what execute does with it.
BeginRead(e) ==
    /\ pc[e] = "idle"
    /\ SingleNode => \A f \in Execs : ~Running(f)
    /\ status # "none"
    /\ \/ /\ status = "failed"
          /\ Goto(e, "reserving")
       \/ /\ status \in UnknownOutcome /\ HasHook
          /\ Serialized => NobodyDecides
          /\ Goto(e, "reconciling")
       \/ /\ status \in UnknownOutcome /\ ~HasHook   \* manual reconciliation required
          /\ Goto(e, "done")
       \/ /\ status \in {"completed"} \cup CompensationStatuses  \* replayed or refused
          /\ Goto(e, "done")
    /\ seen' = [seen EXCEPT ![e] = status]
    /\ kept' = [kept EXCEPT ![e] = resolutions]

\* Mutant: a retry starts a new record without the earlier decisions.
BeginAgainForgets(e) ==
    /\ pc[e] = "reserving"
    /\ \/ status = "failed" /\ Reserve(e, {})
       \/ status # "failed" /\ Goto(e, "done") /\ UNCHANGED reads

\* begin: the conditional update that reserves a failed call once more.
BeginAgain(e) ==
    /\ pc[e] = "reserving"
    /\ \/ status = "failed" /\ Reserve(e, kept[e])
       \/ status # "failed" /\ Goto(e, "done") /\ UNCHANGED reads

\* The handler's request takes effect, or is lost for good; the caller may be
\* waiting, have given up, or be dead.
EffectLands(e) ==
    /\ effect[e] = "possible"
    /\ effect' = [effect EXCEPT ![e] = "applied"]
    /\ UNCHANGED <<record, exec, oper, reads>>

EffectLost(e) ==
    /\ effect[e] = "possible"
    /\ effect' = [effect EXCEPT ![e] = "never"]
    /\ UNCHANGED <<record, exec, oper, reads>>

\* The handler's end decides what execute will record.
EndsWith(e, result) ==
    /\ pc' = [pc EXCEPT ![e] = "recording"]
    /\ outcome' = [outcome EXCEPT ![e] = result]
    /\ UNCHANGED <<record, oper, reads>>

\* Mutant: a call that timed out is recorded as a plain failure.
AlwaysFailed == "failed"

\* A failure after the handler may have acted.
UnclearFailure == IF SideEffecting THEN "indeterminate" ELSE "failed"

InHandler(e) == pc[e] \in {"handler", "retry"}

\* The handler returns; its output may then be refused by a check or a policy.  A
\* failure returned as data is an answer too: the external system dealt with the call.
HandlerReturns(e) ==
    /\ InHandler(e)
    /\ SideEffecting => effect[e] = "applied"
    /\ EndsWith(e, "completed") \/ EndsWith(e, UnclearFailure)
    /\ UNCHANGED effect

\* ToolNotAttemptedError or PolicyDeniedError: this attempt sent nothing, but an
\* earlier attempt of the same call may have.
HandlerRefuses(e) ==
    /\ InHandler(e)
    /\ \/ /\ pc[e] = "handler" /\ effect[e] # "applied"
          /\ effect' = IF SideEffecting THEN [effect EXCEPT ![e] = "never"] ELSE effect
       \/ pc[e] = "retry" /\ UNCHANGED effect
    /\ EndsWith(e, "failed")

\* A timeout or an error other than ToolExecutionError: the next attempt.
HandlerRetries(e) ==
    /\ Retries
    /\ pc[e] = "handler"
    /\ Goto(e, "retry")
    /\ UNCHANGED reads

\* Any other error, a timeout or a cancellation, its worker thread still running or not.
HandlerRaises(e) ==
    /\ InHandler(e)
    /\ EndsWith(e, UnclearFailure)
    /\ UNCHANGED effect

\* Mutant: the outcome is written whatever the record says.
OutcomeAlwaysWritten == TRUE

\* _still_started: a call's own outcome is written only to a started record.
StillStarted == status = "started"

\* complete or fail: the record is read ...
RecordRead(e) ==
    /\ pc[e] = "recording"
    /\ kept' = [kept EXCEPT ![e] = resolutions]
    /\ Goto(e, "updating")
    /\ UNCHANGED seen

\* ... and the copy with the outcome is written if the record is still started.
WriteOutcome(e) ==
    /\ status' = IF StillStarted THEN outcome[e] ELSE status
    /\ resolutions' = IF StillStarted THEN kept[e] ELSE resolutions

Record(e) ==
    /\ pc[e] = "updating"
    /\ WriteOutcome(e)
    /\ pc' = [pc EXCEPT ![e] = "done"]
    /\ UNCHANGED <<holder, decided, effect, outcome, oper, reads>>

\* Mutant: a completion that could not be written is recorded as a failure.
RecordUncertainFails(e) ==
    /\ pc[e] \in {"recording", "updating"}
    /\ UNCHANGED <<status, resolutions>> \/ (pc[e] = "updating" /\ WriteOutcome(e))
    /\ IF outcome[e] = "completed"
       THEN /\ outcome' = [outcome EXCEPT ![e] = "failed"]
            /\ pc' = [pc EXCEPT ![e] = "recording"]
       ELSE /\ pc' = [pc EXCEPT ![e] = "done"]
            /\ UNCHANGED outcome
    /\ UNCHANGED <<holder, decided, effect, oper, reads>>

\* The store raises while the outcome is written, committed or not: a failed
\* complete is followed by fail, a failed fail ends the call.
RecordUncertain(e) ==
    /\ pc[e] \in {"recording", "updating"}
    /\ UNCHANGED <<status, resolutions>> \/ (pc[e] = "updating" /\ WriteOutcome(e))
    /\ IF outcome[e] = "completed"
       THEN /\ outcome' = [outcome EXCEPT ![e] = UnclearFailure]
            /\ pc' = [pc EXCEPT ![e] = "recording"]
       ELSE /\ pc' = [pc EXCEPT ![e] = "done"]
            /\ UNCHANGED outcome
    /\ UNCHANGED <<holder, decided, effect, oper, reads>>

\* The process that executes the call dies.
Crash(e) ==
    /\ ~SingleNode /\ Running(e)
    /\ Goto(e, "dead")
    /\ UNCHANGED reads

-----------------------------------------------------------------------------
(* Decisions: a compare-and-set on the status that was read.               *)

\* transition in the store: the whole record is replaced by the decider's copy.
Transition(a, newStatus) ==
    /\ status = seen[a]
    /\ status' = newStatus
    /\ resolutions' = kept[a] \cup {<<a, newStatus>>}
    /\ decided' = decided \cup {<<a, newStatus>>}
    /\ UNCHANGED holder

\* _reconcile_on_replay: the hook answers, then the decision is written; an
\* unknown answer, a raising hook and a lost race all end the call with an error.
ReplayReconcile(e) ==
    /\ pc[e] = "reconciling"
    /\ \/ \E answer \in {"completed", "failed"} :
            Truthful(answer) /\ Transition(e, answer)
       \/ UNCHANGED record
    /\ pc' = [pc EXCEPT ![e] = "done"]
    /\ UNCHANGED <<effect, outcome, oper, reads>>

\* _UNKNOWN_OUTCOME and _require_stale: on a single node a started record old
\* enough to be settled has no execution behind it.
Settleable ==
    \/ status = "indeterminate"
    \/ status = "started" /\ (SingleNode => \A e \in Execs : ~Running(e))

\* The request is admitted on the record it reads.
Admit(o, location, newStatus) ==
    /\ opc[o] = "idle"
    /\ Serialized => NobodyDecides
    /\ opc' = [opc EXCEPT ![o] = location]
    /\ target' = [target EXCEPT ![o] = newStatus]
    /\ seen' = [seen EXCEPT ![o] = status]
    /\ kept' = [kept EXCEPT ![o] = resolutions]
    /\ UNCHANGED <<record, effect, exec>>

\* resolve: the operator states an outcome that is true when it is stated, or
\* settles a compensation that was cut short.
Resolve(o) ==
    \/ \E answer \in {"completed", "failed"} :
         Settleable /\ Truthful(answer) /\ Admit(o, "deciding", answer)
    \/ \E answer \in {"compensated", "compensation_failed"} :
         status = "compensating" /\ Admit(o, "deciding", answer)

\* auto_reconcile: the read, before the hook is asked.
AutoReconcile(o) ==
    /\ HasHook /\ Settleable
    /\ Admit(o, "asking", "failed")

\* The hook answers; unknown or an error ends the request.
HookAnswers(o) ==
    /\ opc[o] = "asking"
    /\ \/ /\ opc' = [opc EXCEPT ![o] = "deciding"]
          /\ \E answer \in {"completed", "failed"} :
               Truthful(answer) /\ target' = [target EXCEPT ![o] = answer]
       \/ opc' = [opc EXCEPT ![o] = "done"] /\ UNCHANGED target
    /\ UNCHANGED <<record, effect, exec, reads>>

\* compensate: the read, before the ledger is moved to compensating.
Compensate(o) ==
    /\ status \in Compensable
    /\ Admit(o, "deciding", "compensating")

\* _decide: the compare-and-set, or ConflictError.
Decide(o) ==
    /\ opc[o] = "deciding"
    /\ \/ /\ Transition(o, target[o])
          /\ opc' = [opc EXCEPT ![o] = IF target[o] = "compensating"
                                       THEN "compensating" ELSE "done"]
          /\ seen' = [seen EXCEPT ![o] = target[o]]
          /\ kept' = [kept EXCEPT ![o] = resolutions']
       \/ /\ status # seen[o]
          /\ opc' = [opc EXCEPT ![o] = "done"]
          /\ UNCHANGED <<record, reads>>
    /\ UNCHANGED <<effect, exec, target>>

\* The compensation handler ends: compensated, or compensation_failed on an exception.
CompensationEnds(o) ==
    /\ opc[o] = "compensating"
    /\ \E result \in {"compensated", "compensation_failed"} :
         target' = [target EXCEPT ![o] = result]
    /\ opc' = [opc EXCEPT ![o] = "deciding"]
    /\ UNCHANGED <<record, effect, exec, reads>>

\* The process that serves an operator request dies.
OpCrash(o) ==
    /\ ~SingleNode /\ Pending(o)
    /\ opc' = [opc EXCEPT ![o] = "dead"]
    /\ UNCHANGED <<record, effect, exec, target, reads>>

\* The only process dies, with everything it was doing.
ProcessDies ==
    /\ SingleNode
    /\ (\E e \in Execs : Running(e)) \/ (\E o \in Ops : Pending(o))
    /\ pc' = [e \in Execs |-> IF Running(e) THEN "dead" ELSE pc[e]]
    /\ opc' = [o \in Ops |-> IF Pending(o) THEN "dead" ELSE opc[o]]
    /\ UNCHANGED <<record, effect, outcome, target, reads>>

-----------------------------------------------------------------------------
Execute(e) ==
    \/ Begin(e) \/ BeginRead(e) \/ BeginAgain(e)
    \/ HandlerReturns(e) \/ HandlerRefuses(e) \/ HandlerRetries(e) \/ HandlerRaises(e)
    \/ RecordRead(e) \/ Record(e) \/ RecordUncertain(e) \/ ReplayReconcile(e) \/ Crash(e)

Operate(o) ==
    \/ Resolve(o) \/ AutoReconcile(o) \/ HookAnswers(o)
    \/ Compensate(o) \/ Decide(o) \/ CompensationEnds(o) \/ OpCrash(o)

Next ==
    \/ \E e \in Execs : Execute(e) \/ EffectLands(e) \/ EffectLost(e)
    \/ \E o \in Ops : Operate(o)
    \/ ProcessDies

Spec == Init /\ [][Next]_vars

-----------------------------------------------------------------------------
(* Properties.                                                             *)

\* Type invariant of the record, the executions and the operator requests.
TypeOK ==
    /\ status \in ToolExecutionStatus \cup {"none"}
    /\ resolutions \subseteq Decisions
    /\ holder \in Execs \cup {None}
    /\ decided \subseteq Decisions
    /\ effect \in [Execs -> {"none", "possible", "applied", "never"}]
    /\ pc \in [Execs -> {"idle", "reserving", "handler", "retry", "recording", "updating",
                         "reconciling", "done", "dead"}]
    /\ outcome \in [Execs -> {"completed", "failed", "indeterminate"}]
    /\ opc \in [Ops -> {"idle", "asking", "deciding", "compensating", "done", "dead"}]
    /\ target \in [Ops -> ToolExecutionStatus]
    /\ seen \in [Actors -> ToolExecutionStatus \cup {"none"}]
    /\ kept \in [Actors -> SUBSET Decisions]

\* A tool call takes effect at most once, however often it is retried, replayed
\* after a crash, timed out or settled: executor.execute with the ledger.
AtMostOneEffect ==
    \A e, f \in Execs : effect[e] = "applied" /\ effect[f] = "applied" => e = f

\* A call recorded completed did take effect: the model is never told of a
\* success that did not happen.
CompletedTookEffect ==
    SideEffecting /\ status = "completed" => TookEffect

\* A call recorded failed did not take effect and never will, so that running it
\* again on the next replay is safe.
FailedNeverTookEffect == status = "failed" => NeverWill

\* The ledger tells the truth about the call (ToolExecutionRecord, in both stores).
LedgerTruthful == TypeOK /\ CompletedTookEffect /\ FailedNeverTookEffect

\* Every decision that was accepted stays in the record.
DecisionsKept == decided \subseteq resolutions

\* What an execution writes, a reservation or an outcome, drops no decision of the record,
\* also of decisions that overlap: begin, complete and fail replace the whole record.
ExecutionsDropNone ==
    [][\A e \in Execs : BeginAgain(e) \/ Record(e) \/ RecordUncertain(e)
                          => resolutions \subseteq resolutions']_vars

\* What was settled stands: a completed call can only be compensated, a compensated
\* one neither runs nor is compensated again, whatever outcome arrives late.
SettledStands ==
    [][/\ status = "completed" => status' \in {"completed", "compensating"}
       /\ status = "compensated" => status' = "compensated"]_vars

=============================================================================
