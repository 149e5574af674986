------------------------------- MODULE RunLoop -------------------------------
(***************************************************************************)
(* What one drive does with the content of a run: model replies, the tool  *)
(* calls they ask for and the guards that hold them back, budgets and      *)
(* their extension, and steering (AgentRuntime in runtime/runtime.py,      *)
(* runtime/guards.py, planning/planners.py).  RunLifecycle models the      *)
(* statuses and the handlers around them.                                  *)
(*                                                                         *)
(* A drive works on a copy of the run and checkpoints it at every          *)
(* transition; a crash, a cancel or an exception leaves the checkpoint.    *)
(***************************************************************************)
EXTENDS Naturals, Sequences, FiniteSets

CONSTANTS EnabledTools,   \* tools of the agent; a reply may name others
          ReadOnlyTools,  \* side effect none or read
          ApprovalTools,  \* tools whose calls need an approval
          CallLimit,      \* [tool -> limit], max_calls_per_tool
          BadCalls,       \* <<tool, argument>> that the schema or the precheck refuses
          Arguments,
          Replies,        \* what the model may ask for: sequences of <<tool, argument>>
          MaxCallId,      \* call ids in a behaviour
          MaxSteps, StepIncrement, AutoExtensions, MaxExtensions, MaxModelCalls,
          MaxAttempts,    \* retry_policy.max_attempts
          MaxPending,     \* MAX_PENDING_STEERING
          MaxSteering,    \* steering messages in a behaviour
          LoopRestarts    \* crashes in a behaviour

ASSUME LoopAssumption ==
    /\ \A r \in Replies : r \in Seq(UNION {{q[i] : i \in DOMAIN q} : q \in Replies})
    /\ \A t \in DOMAIN CallLimit : CallLimit[t] \in Nat
    /\ MaxSteps \in Nat /\ StepIncrement \in Nat /\ MaxModelCalls \in Nat
    /\ AutoExtensions \in Nat /\ MaxExtensions \in Nat /\ MaxAttempts \in Nat \ {0}
    /\ MaxCallId \in Nat /\ MaxPending \in Nat /\ MaxSteering \in Nat /\ LoopRestarts \in Nat

VARIABLES copy,       \* the run as the drive has it
          saved,      \* the checkpoint
          driving, place,   \* whether a drive exists; where it is between two transitions
          attempt,    \* of the model call under way
          batch,      \* the calls under way: <<call, fate>>
          inbox,      \* steering in memory (AgentRuntime._steering)
          late,       \* steering the ending drive has taken out of memory
          accepted,   \* steering messages accepted so far, numbered
          cut,        \* not in the code: messages in the copy of a drive that was cut off
          granted,    \* not in the code: what was approved, as <<id, tool, argument>>
          produced,   \* not in the code: completions the provider returned
          crashes
loopVars == <<copy, saved, driving, place, attempt, batch, inbox, late, accepted, cut, granted, produced, crashes>>

LoopPaused == {"awaiting_approval", "awaiting_reconciliation"}
LoopEnded == {"completed", "failed", "cancelled"}
CallIds == 1..MaxCallId
NoCounts == [t \in DOMAIN CallLimit |-> 0]
FirstCopy == [status |-> "building_context", steps |-> 0, models |-> 0, extensions |-> 0,
              calls |-> <<>>, done |-> {}, approved |-> {}, counts |-> NoCounts, seen |-> {},
              log |-> <<>>, answer |-> FALSE, steer |-> <<>>, told |-> <<>>, pausedOn |-> 0,
              resume |-> "planning"]
Elements(q) == {q[i] : i \in DOMAIN q}
Holds(c) == Elements(c.steer) \cup Elements(c.told)

LoopInit ==
    /\ copy = FirstCopy /\ saved = FirstCopy /\ driving = TRUE /\ place = "top"
    /\ attempt = 0 /\ batch = <<>> /\ inbox = <<>> /\ late = <<>> /\ accepted = 0
    /\ cut = {} /\ granted = {} /\ produced = 0 /\ crashes = 0

-----------------------------------------------------------------------------
(* Limits. *)
StepLimit(c) == MaxSteps + c.extensions * StepIncrement
ModelCallLimit(c) == MaxModelCalls + c.extensions * StepIncrement
LimitReason(c) == c.steps >= StepLimit(c) \/ c.models >= ModelCallLimit(c)

\* _transition: the steering in memory is saved with the checkpoint.
LoopTransition(c, status) ==
    LET kept == [c EXCEPT !.status = status, !.steer = @ \o inbox]
    IN  copy' = kept /\ saved' = kept /\ inbox' = <<>>
Drives(at) == driving /\ place = at
\* An exception: the checkpoint is read again and failed; the copy is gone.
LoopFails ==
    /\ saved' = [saved EXCEPT !.status = "failed", !.steer = @ \o inbox]
    /\ copy' = saved' /\ inbox' = <<>> /\ place' = "end"
    /\ cut' = cut \cup (Holds(copy) \ Holds(saved))
Pausing(status) == IF status \in LoopPaused \cup LoopEnded THEN "end" ELSE "top"

\* _continue_or_pause: an automatic extension, then a question.
ExtendOrAsk ==
    /\ Drives("top") /\ copy.status \in {"building_context", "planning"} /\ LimitReason(copy)
    /\ IF copy.extensions < AutoExtensions
       THEN /\ copy' = [copy EXCEPT !.extensions = @ + 1] /\ saved' = copy'
            /\ UNCHANGED <<inbox, place>>
       ELSE /\ LoopTransition([copy EXCEPT !.pausedOn = 0, !.resume = copy.status], "awaiting_approval")
            /\ place' = "end"
    /\ UNCHANGED <<driving, attempt, batch, late, accepted, cut, granted, produced, crashes>>
BuildContext ==
    /\ Drives("top") /\ copy.status = "building_context" /\ ~LimitReason(copy)
    /\ LoopTransition(copy, "planning")
    /\ UNCHANGED <<driving, place, attempt, batch, late, accepted, cut, granted, produced, crashes>>

(* Steering.  A copy that is given a message and is then lost loses it.    *)
\* Nothing is delivered between a call and its result, or beside the answer.
Delivered(c) == IF c.answer \/ c.calls # <<>> THEN c ELSE [c EXCEPT !.steer = <<>>, !.told = @ \o c.steer]
DeliverSteering ==
    /\ Drives("top") /\ copy.status = "planning" /\ ~LimitReason(copy)
    /\ copy' = Delivered([copy EXCEPT !.steer = @ \o inbox]) /\ inbox' = <<>>
    /\ place' = "plan"
    /\ UNCHANGED <<saved, driving, attempt, batch, late, accepted, cut, granted, produced, crashes>>

-----------------------------------------------------------------------------
(* The model. *)
InvokeModel ==
    /\ Drives("plan") /\ copy.calls = <<>> /\ ~copy.answer
    /\ LoopTransition([copy EXCEPT !.steps = @ + 1], "invoking_model")
    /\ attempt' = 1 /\ place' = "top"
    /\ UNCHANGED <<driving, batch, late, accepted, cut, granted, produced, crashes>>
Unused(ids, n) == CHOOSE q \in [1..n -> CallIds \ ids] : \A i, j \in 1..n : i # j => q[i] # q[j]

\* _fresh_tool_call_ids: an id used earlier in the run or in this reply is replaced.
FreshIds(c, calls) ==
    LET used == c.done \cup {calls[i].id : i \in DOMAIN calls}
    IN  [i \in DOMAIN calls |->
            IF calls[i].id \in c.done \/ \E j \in 1..(i - 1) : calls[j].id = calls[i].id
            THEN [calls[i] EXCEPT !.id = Unused(used, Len(calls))[i]] ELSE calls[i]]
\* The model's own choice of an id: a new one, or one it used before.
ModelIds(c) ==
    {CHOOSE n \in CallIds : n \notin c.done} \cup (IF c.done = {} THEN {} ELSE {CHOOSE n \in c.done : TRUE})
CallsOfReply(reply, id) == [i \in DOMAIN reply |-> [id |-> id, tool |-> reply[i][1], arg |-> reply[i][2]]]
\* _execute_model: a completed reply, with ids of the model's own choosing.
ModelReplies ==
    /\ driving /\ copy.status = "invoking_model"
    /\ \A r \in Replies : Len(r) < Cardinality(CallIds \ copy.done)
    /\ \E reply \in Replies, text \in BOOLEAN, id \in ModelIds(copy) :
         LET calls == FreshIds(copy, CallsOfReply(reply, id))
         IN  LoopTransition([copy EXCEPT !.models = @ + 1, !.answer = text, !.calls = calls], "planning")
    /\ produced' = produced + 1
    /\ UNCHANGED <<driving, place, attempt, batch, late, accepted, cut, granted, crashes>>

\* A completion that is cut off, empty or filtered is charged and asked for again.
Rejected(c) == [c EXCEPT !.models = @ + 1]
\* _model_with_retry: a rejected completion, or a provider that gave none.
ModelRetry(charged) ==
    /\ driving /\ copy.status = "invoking_model"
    /\ produced' = IF charged THEN produced + 1 ELSE produced
    /\ IF attempt < MaxAttempts
       THEN LoopTransition(IF charged THEN Rejected(copy) ELSE copy, "retrying") /\ UNCHANGED <<place, cut>>
       ELSE LoopFails
    /\ UNCHANGED <<driving, attempt, batch, late, accepted, granted, crashes>>
InvokeAgain ==
    /\ driving /\ copy.status = "retrying"
    /\ LoopTransition(copy, "invoking_model") /\ attempt' = attempt + 1
    /\ UNCHANGED <<driving, place, batch, late, accepted, cut, granted, produced, crashes>>

-----------------------------------------------------------------------------
(* Tool calls. *)
Enabled(call) == call.tool \in EnabledTools
NeedsApproval(c, call) == call.tool \in ApprovalTools /\ call.id \notin c.approved
Key(call) == <<call.tool, call.arg>>
Reads(call) == call.tool \in ReadOnlyTools

\* Mutant: nothing is singled out of a reply.
TogetherAll(c) == IF Len(c.calls) >= 2 THEN c.calls ELSE <<Head(c.calls)>>

\* _parallel_tool_batch: the calls of a reply run together when none of them has to be singled out.
Together(c) ==
    LET room == IF MaxSteps > c.steps THEN MaxSteps - c.steps ELSE 0
        fit == SubSeq(c.calls, 1, IF Len(c.calls) < room THEN Len(c.calls) ELSE room)
    IN  IF Len(fit) >= 2 /\ \A i \in DOMAIN fit : Enabled(fit[i]) /\ ~NeedsApproval(c, fit[i])
        THEN fit ELSE <<Head(c.calls)>>

\* _guard_tool_call: how a call is answered without running it.
Guard(c, call, keys) ==
    CASE Key(call) \in BadCalls -> "refused"
      [] call.tool \in DOMAIN CallLimit /\ c.counts[call.tool] >= CallLimit[call.tool] -> "over_limit"
      [] Reads(call) /\ Key(call) \in c.seen \cup keys -> "repeated"
      [] OTHER -> "run"
CountCall(c, call) ==
    IF call.tool \in DOMAIN CallLimit
    THEN [c EXCEPT !.counts = [c.counts EXCEPT ![call.tool] = c.counts[call.tool] + 1]] ELSE c
\* An approved call passed the guards when it was planned.
Fate(c, call, keys) ==
    IF ~Enabled(call) THEN "failed" ELSE IF call.id \in c.approved THEN "run" ELSE Guard(c, call, keys)
Judge(p, call) ==
    LET fate == Fate(p.c, call, p.keys)
        reads == fate = "run" /\ Reads(call) /\ call.id \notin p.c.approved
    IN  [c |-> IF fate = "run" THEN CountCall(p.c, call) ELSE p.c,
         fates |-> Append(p.fates, <<call, fate>>),
         keys |-> IF reads THEN p.keys \cup {Key(call)} ELSE p.keys]
\* Guards judge each call after those before it.
Admitted(c, calls) ==
    LET judged[i \in 0..Len(calls)] ==
          IF i = 0 THEN [c |-> c, fates |-> <<>>, keys |-> {}] ELSE Judge(judged[i - 1], calls[i])
    IN  judged[Len(calls)]
\* _admit_tool_call and the first half of _execute_tool_batch.
AdmitTools ==
    /\ Drives("plan") /\ copy.calls # <<>>
    /\ LET calls == Together(copy)
           a == Admitted(copy, calls)
       IN  /\ ~(Len(calls) = 1 /\ NeedsApproval(copy, calls[1]) /\ a.fates[1][2] = "run")
           /\ LoopTransition([a.c EXCEPT !.steps = @ + Len(calls)], "invoking_tool")
           /\ batch' = a.fates
    /\ place' = "top"
    /\ UNCHANGED <<driving, attempt, late, accepted, cut, granted, produced, crashes>>
AskApproval ==
    /\ Drives("plan") /\ copy.calls # <<>>
    /\ LET call == Head(copy.calls)
       IN  /\ Len(Together(copy)) = 1 /\ NeedsApproval(copy, call) /\ Enabled(call)
           /\ Guard(copy, call, {}) = "run"
           /\ LoopTransition([copy EXCEPT !.steps = @ + 1, !.pausedOn = call.id], "awaiting_approval")
    /\ place' = "end"
    /\ UNCHANGED <<driving, attempt, batch, late, accepted, cut, granted, produced, crashes>>

\* The calls without the one of an id: pending calls have ids of their own.
WithoutCall(calls, id) ==
    LET at == CHOOSE i \in DOMAIN calls : calls[i].id = id
    IN  IF \E i \in DOMAIN calls : calls[i].id = id
        THEN [i \in 1..(Len(calls) - 1) |-> calls[IF i < at THEN i ELSE i + 1]] ELSE calls
\* _finish_tool_call_without_result: the call has its answer.
Answered(c, call, outcome) ==
    [c EXCEPT !.done = c.done \cup {call.id}, !.answer = FALSE, !.calls = WithoutCall(c.calls, call.id),
              !.log = Append(c.log, [call |-> call, outcome |-> outcome])]
\* _remember_tool_call: a change makes every read worth making again.
Remember(c, call) == IF Reads(call) THEN [c EXCEPT !.seen = @ \cup {Key(call)}] ELSE [c EXCEPT !.seen = {}]
\* _record_tool_call
RecordCall(c, call, outcome) == Answered(IF outcome = "ok" THEN Remember(c, call) ELSE c, call, outcome)
\* A tool gives a result, reports a failure, or leaves a change in doubt.
OutcomesOf(call) == IF Reads(call) THEN {"ok", "failed"} ELSE {"ok", "failed", "unknown"}
\* Held by a guard, in doubt, or answered by its tool.
Settle(c, item, outcome) ==
    CASE outcome = "unknown" -> c
      [] outcome = "held" -> Answered(c, item[1], item[2])
      [] OTHER -> RecordCall(c, item[1], outcome)
\* Answers in the order of the calls.
Settled(c, items, outcome) ==
    LET settled[i \in 0..Len(items)] ==
          IF i = 0 THEN c ELSE Settle(settled[i - 1], items[i], outcome[i])
    IN  settled[Len(items)]
\* The second half of _execute_tool_batch, and _execute_tool: a call whose outcome is unknown
\* stays pending and pauses the run.
SettleTools ==
    /\ driving /\ copy.status = "invoking_tool"
    /\ \E outcome \in [DOMAIN batch -> {"ok", "failed", "unknown", "held"}] :
         /\ \A i \in DOMAIN batch : IF batch[i][2] = "run" THEN outcome[i] \in OutcomesOf(batch[i][1])
                                    ELSE outcome[i] = "held"
         /\ LET status == IF \E i \in DOMAIN batch : outcome[i] = "unknown"
                          THEN "awaiting_reconciliation" ELSE "building_context"
            IN  LoopTransition(Settled(copy, batch, outcome), status) /\ place' = Pausing(status)
    /\ batch' = <<>>
    /\ UNCHANGED <<driving, attempt, late, accepted, cut, granted, produced, crashes>>
\* on_error is not return_to_model, or a provider, a policy or the model refuses for good.
LoopRaises ==
    /\ driving /\ place \in {"top", "plan"}
    /\ LoopFails /\ batch' = <<>>
    /\ UNCHANGED <<driving, attempt, late, accepted, granted, produced, crashes>>
\* Verification passed.
CompleteRun ==
    /\ Drives("plan") /\ copy.calls = <<>> /\ copy.answer
    /\ LoopTransition([copy EXCEPT !.steps = @ + 1], "completed") /\ place' = "end"
    /\ UNCHANGED <<driving, attempt, batch, late, accepted, cut, granted, produced, crashes>>

-----------------------------------------------------------------------------

(* The end of a drive and what others do with the run. *)

\* _keep_late_steering: taken from memory, then saved.
TakeLate == late' = inbox
EndDrive ==
    /\ driving /\ place = "end"
    /\ TakeLate /\ inbox' = <<>>
    /\ IF inbox = <<>> THEN driving' = FALSE /\ place' = "top" ELSE driving' = driving /\ place' = "late"
    /\ UNCHANGED <<copy, saved, attempt, batch, accepted, cut, granted, produced, crashes>>
KeepLate ==
    /\ driving /\ place = "late"
    /\ saved' = [saved EXCEPT !.steer = @ \o late] /\ copy' = saved' /\ late' = <<>>
    /\ driving' = FALSE /\ place' = "top"
    /\ UNCHANGED <<attempt, batch, inbox, accepted, cut, granted, produced, crashes>>
\* steer: to memory beside a drive, to the checkpoint of a paused run.
SteerRun ==
    /\ accepted < MaxSteering /\ Len(saved.steer) + Len(inbox) < MaxPending
    /\ \/ /\ driving /\ inbox' = Append(inbox, accepted + 1) /\ UNCHANGED <<saved, copy>>
       \/ /\ ~driving /\ saved.status \in LoopPaused
          /\ saved' = [saved EXCEPT !.steer = Append(@, accepted + 1)] /\ copy' = saved'
          /\ inbox' = inbox
    /\ accepted' = accepted + 1
    /\ UNCHANGED <<driving, place, attempt, batch, late, cut, granted, produced, crashes>>
\* resume and the operator's settlement: a new drive from the checkpoint.
Resumed(c, status) == /\ saved' = [c EXCEPT !.status = status, !.pausedOn = 0, !.steer = @ \o inbox]
                      /\ copy' = saved' /\ inbox' = <<>> /\ driving' = (status \notin LoopEnded)
DecideCall(decision, arg) ==
    /\ ~driving /\ saved.status = "awaiting_approval" /\ saved.pausedOn # 0
    /\ LET id == saved.pausedOn
           call == CHOOSE k \in Elements(saved.calls) : k.id = id
           given == [call EXCEPT !.arg = IF decision = "modified" THEN arg ELSE @]
       IN  \/ /\ decision \in {"approved", "modified"}
              /\ granted' = granted \cup {<<id, given.tool, given.arg>>}
              /\ Resumed([saved EXCEPT !.approved = @ \cup {id},
                                       !.calls = [i \in DOMAIN @ |-> IF @[i].id = id THEN given ELSE @[i]]],
                         "planning")
           \/ /\ decision = "rejected" /\ granted' = granted
              /\ \/ Resumed(Answered(saved, call, "declined"), "planning")
                 \/ Resumed(saved, "failed")
    /\ UNCHANGED <<place, attempt, batch, late, accepted, cut, produced, crashes>>
DecideExtension(decision) ==
    /\ ~driving /\ saved.status = "awaiting_approval" /\ saved.pausedOn = 0
    /\ \/ decision = "approved" /\ saved.extensions < MaxExtensions
          /\ Resumed([saved EXCEPT !.extensions = @ + 1], saved.resume)
       \/ decision = "rejected" /\ Resumed(saved, "failed")
    /\ UNCHANGED <<place, attempt, batch, late, accepted, cut, granted, produced, crashes>>
\* _continue_run: the pause names the first pending call, which has its answer now.
CallSettled ==
    /\ ~driving /\ saved.status = "awaiting_reconciliation" /\ saved.calls # <<>>
    /\ Resumed(Answered(saved, Head(saved.calls), "settled"), "building_context")
    /\ UNCHANGED <<place, attempt, batch, late, accepted, cut, granted, produced, crashes>>
\* cancel: the stored run is ended, the drive interrupted.
CancelDriven ==
    /\ saved.status \notin LoopEnded
    /\ saved' = [saved EXCEPT !.status = "cancelled", !.steer = @ \o inbox] /\ copy' = saved'
    /\ cut' = cut \cup (Holds(copy) \ Holds(saved)) \cup Elements(late)
    /\ inbox' = <<>> /\ late' = <<>> /\ driving' = FALSE /\ place' = "top" /\ batch' = <<>>
    /\ UNCHANGED <<attempt, accepted, granted, produced, crashes>>
\* _rewind_for_recovery: one step is taken back.
Rewound(c) ==
    [c EXCEPT !.status = IF @ \in {"invoking_model", "invoking_tool", "retrying"} THEN "planning" ELSE @,
              !.steps = IF c.status \in {"invoking_model", "invoking_tool"} /\ @ > 0 THEN @ - 1 ELSE @]
\* The process dies and recover drives the run again.
CrashAndRecover ==
    /\ crashes < LoopRestarts /\ crashes' = crashes + 1
    /\ saved' = Rewound(saved) /\ copy' = saved'
    /\ cut' = cut \cup (Holds(copy) \ Holds(saved)) \cup Elements(inbox) \cup Elements(late)
    /\ inbox' = <<>> /\ late' = <<>> /\ batch' = <<>> /\ place' = "top"
    /\ driving' = (saved.status \notin LoopPaused \cup LoopEnded)
    /\ UNCHANGED <<attempt, accepted, granted, produced>>

LoopNext ==
    \/ ExtendOrAsk \/ BuildContext \/ DeliverSteering \/ InvokeModel \/ ModelReplies
    \/ \E charged \in BOOLEAN : ModelRetry(charged)
    \/ InvokeAgain \/ AdmitTools \/ AskApproval \/ SettleTools \/ LoopRaises \/ CompleteRun
    \/ EndDrive \/ KeepLate \/ SteerRun \/ CallSettled \/ CancelDriven \/ CrashAndRecover
    \/ \E d \in {"approved", "modified", "rejected"} :
         DecideExtension(d) \/ \E arg \in Arguments : DecideCall(d, arg)
LoopSpec == LoopInit /\ [][LoopNext]_loopVars

-----------------------------------------------------------------------------
LoopTypeOK ==
    /\ copy.status \in {"building_context", "planning", "invoking_model", "retrying", "invoking_tool"}
                       \cup LoopPaused \cup LoopEnded
    /\ driving \in BOOLEAN /\ place \in {"top", "plan", "end", "late"}
    /\ attempt \in 0..MaxAttempts /\ crashes \in 0..LoopRestarts /\ accepted \in 0..MaxSteering
    /\ copy.done \subseteq CallIds /\ copy.approved \subseteq CallIds
    /\ Len(inbox) <= MaxPending /\ copy.extensions \in 0..(AutoExtensions + MaxExtensions)

(* The model is never called beside a call that has no answer, and no call
   is answered twice or asked for twice: what providers demand of a transcript. *)
TranscriptPaired ==
    /\ copy.status = "invoking_model" => copy.calls = <<>>
    /\ \A i, j \in DOMAIN copy.log : copy.log[i].call.id = copy.log[j].call.id => i = j
    /\ \A k \in Elements(copy.calls) : k.id \notin copy.done
    /\ \A i, j \in DOMAIN copy.calls : copy.calls[i].id = copy.calls[j].id => i = j

(* A call that needs an approval runs as it was approved: its id, tool and
   arguments, also when the model uses an approved id again. *)
ApprovedAsAsked ==
    \A i \in DOMAIN batch :
        (batch[i][2] = "run" /\ batch[i][1].tool \in ApprovalTools)
            => <<batch[i][1].id, batch[i][1].tool, batch[i][1].arg>> \in granted

(* A read with the same arguments is in the transcript again only after a
   change, within one reply and across replies, pauses and restarts, unless
   a person approved it. *)
NoStaleRepeat ==
    \A i, j \in DOMAIN copy.log :
        /\ i < j /\ Reads(copy.log[i].call) /\ copy.log[j].call.id \notin copy.approved /\ Key(copy.log[i].call) = Key(copy.log[j].call)
        /\ copy.log[i].outcome = "ok" /\ copy.log[j].outcome = "ok"
        => \E k \in i..j : copy.log[k].outcome = "ok" /\ ~Reads(copy.log[k].call)

(* A tool with a limit does not run more often, whether its calls come one
   by one or together. *)
CallLimitHolds ==
    \A t \in DOMAIN CallLimit :
        Cardinality({i \in DOMAIN copy.log : copy.log[i].call.tool = t /\ copy.log[i].outcome \in {"ok", "failed"}
                                             /\ t \in EnabledTools})
            <= CallLimit[t]

(* Steps stay within their limit, a batch included; model calls go past
   theirs by the retries of one step at most. *)
LimitsHold == /\ copy.steps <= StepLimit(copy)
              /\ copy.models <= ModelCallLimit(copy) + MaxAttempts - 1

(* The checkpoint is never behind the provider by more than the completion
   in flight, and one for every restart. *)
UsageKept == produced - saved.models <= 1 + crashes

(* An accepted message is in one place, in memory, waiting or delivered, and
   is not delivered twice; only a drive that was cut off takes messages with it. *)
SteeringAccounted ==
    LET queued == Holds(copy) \cup Holds(saved) \cup Elements(inbox) \cup Elements(late) \cup cut
        line == copy.told \o copy.steer \o inbox
    IN  /\ queued = 1..accepted
        /\ \A i, j \in DOMAIN line : i # j => line[i] # line[j]

\* What a run tells the model is sound over replies, pauses, extensions, steering and crashes: calls are
\* answered once, run as approved, not repeated while stale and within the limits, and what was used
\* and said is accounted for.
LoopSafe ==
    /\ LoopTypeOK
    /\ TranscriptPaired
    /\ ApprovedAsAsked
    /\ NoStaleRepeat
    /\ CallLimitHolds
    /\ LimitsHold
    /\ UsageKept
    /\ SteeringAccounted
=============================================================================
