--------------------------- MODULE ServicesProofs ---------------------------
(***************************************************************************)
(* What is proved of the services around a run: ToolLedger, for every      *)
(* number of executions and requests; McpConnections, for every number of  *)
(* calls, users, callbacks, sessions and token versions; TokenTrust, for   *)
(* every number of requests, tokens and keys; and ResponseCache, for every *)
(* number of callers, keys and entries.                                    *)
(***************************************************************************)
EXTENDS ToolLedger, McpConnections, TokenTrust, ResponseCache, SequenceTheorems, FiniteSetTheorems, TLAPS

-----------------------------------------------------------------------------
(* ToolLedger.                                                             *)

\* Type correctness of the ledger record and of those who write it.
THEOREM LedgerTypes == Spec => []TypeOK
<1> USE LedgerAssumption
    DEF TypeOK, ToolExecutionStatus, Actors, record, exec, oper, reads
<1>1. Init => TypeOK
  BY DEF Init, Decisions
<1>2. TypeOK /\ [Next]_vars => TypeOK'
  <2> SUFFICES ASSUME TypeOK, [Next]_vars PROVE TypeOK'
    OBVIOUS
  <2>1. ASSUME NEW a \in Actors, NEW s \in ToolExecutionStatus, Transition(a, s)
        PROVE  /\ status' \in ToolExecutionStatus
               /\ resolutions' \subseteq Decisions /\ decided' \subseteq Decisions
               /\ holder' = holder
    BY <2>1 DEF Transition, Decisions
  <2>2. ASSUME NEW e \in Execs, Begin(e) \/ BeginRead(e) \/ BeginAgain(e) PROVE TypeOK'
    BY <2>2 DEF Begin, BeginRead, BeginAgain, Reserve, Goto
  <2>3. ASSUME NEW e \in Execs, HandlerReturns(e) \/ HandlerRefuses(e) \/ HandlerRaises(e)
                               \/ HandlerRetries(e)
        PROVE  TypeOK'
    BY <2>3 DEF HandlerReturns, HandlerRefuses, HandlerRaises, HandlerRetries, InHandler,
                EndsWith, UnclearFailure, Goto
  <2>4. ASSUME NEW e \in Execs, RecordRead(e) \/ Record(e) \/ RecordUncertain(e)
        PROVE  TypeOK'
    BY <2>4 DEF RecordRead, Record, RecordUncertain, WriteOutcome, UnclearFailure, Goto
  <2>5. ASSUME NEW e \in Execs, ReplayReconcile(e) PROVE TypeOK'
    BY <2>1, <2>5 DEF ReplayReconcile
  <2>6. ASSUME NEW e \in Execs, Crash(e) PROVE TypeOK'
    BY <2>6 DEF Crash, Goto
  <2>7. ASSUME NEW e \in Execs, EffectLands(e) \/ EffectLost(e) PROVE TypeOK'
    BY <2>7 DEF EffectLands, EffectLost
  <2>8. ASSUME NEW o \in Ops, Resolve(o) \/ AutoReconcile(o) \/ Compensate(o) PROVE TypeOK'
    BY <2>8 DEF Resolve, AutoReconcile, Compensate, Admit
  <2>9. ASSUME NEW o \in Ops, HookAnswers(o) PROVE TypeOK'
    BY <2>9 DEF HookAnswers
  <2>10. ASSUME NEW o \in Ops, Decide(o) PROVE TypeOK'
    BY <2>1, <2>10 DEF Decide
  <2>11. ASSUME NEW o \in Ops, CompensationEnds(o) \/ OpCrash(o) PROVE TypeOK'
    BY <2>11 DEF CompensationEnds, OpCrash
  <2>12. CASE ProcessDies
    BY <2>12 DEF ProcessDies
  <2>13. CASE UNCHANGED vars
    BY <2>13 DEF vars
  <2> HIDE DEF TypeOK
  <2> QED
    BY <2>2, <2>3, <2>4, <2>5, <2>6, <2>7, <2>8, <2>9, <2>10, <2>11, <2>12, <2>13
    DEF Next, Execute, Operate
<1> QED
  BY <1>1, <1>2, PTL DEF Spec

-----------------------------------------------------------------------------
\* Whoever is about to write "completed" knows that the call took effect.
CompletedInv ==
    /\ CompletedTookEffect
    /\ \A e \in Execs : pc[e] \in {"idle", "reserving", "reconciling"} => effect[e] = "none"
    /\ SideEffecting => \A e \in Execs :
         pc[e] \in {"recording", "updating"} /\ outcome[e] = "completed" => effect[e] = "applied"
    /\ \A o \in Ops : opc[o] = "deciding" /\ target[o] = "completed" => TookEffect

\* A step of an execution or a decision keeps what "completed" rests on.
LEMMA CompletedStep ==
    ASSUME TypeOK, CompletedInv, [Next]_vars
    PROVE  CompletedInv'
<1> USE LedgerAssumption
    DEF CompletedInv, CompletedTookEffect, TookEffect, record, exec, oper, reads
<1> USE DEF TypeOK
<1>1. ASSUME NEW e \in Execs, Begin(e) \/ BeginRead(e) \/ BeginAgain(e)
      PROVE  CompletedInv'
  <2>1. CASE UNCHANGED <<record, effect, outcome, oper>>
             /\ pc' \in {[pc EXCEPT ![e] = "done"], [pc EXCEPT ![e] = "reserving"],
                         [pc EXCEPT ![e] = "reconciling"]}
    BY <1>1, <2>1 DEF Begin, BeginRead, BeginAgain
  <2>2. CASE \E h : Reserve(e, h)
    <3>1. \A f \in Execs : effect[f] = "applied" => effect'[f] = "applied"
      BY <1>1, <2>2 DEF Reserve, Begin, BeginRead, BeginAgain
    <3>2. status' = "started" /\ pc'[e] = "handler"
      BY <2>2 DEF Reserve
    <3> QED
      BY <2>2, <3>1, <3>2, <1>1 DEF Reserve
  <2> QED
    BY <1>1, <2>1, <2>2 DEF Begin, BeginRead, BeginAgain, Goto
<1>2. ASSUME NEW e \in Execs, HandlerReturns(e) \/ HandlerRefuses(e) \/ HandlerRaises(e)
                             \/ HandlerRetries(e)
      PROVE  CompletedInv'
  BY <1>2 DEF HandlerReturns, HandlerRefuses, HandlerRaises, HandlerRetries, InHandler,
              EndsWith, UnclearFailure, Goto
<1>3. ASSUME NEW e \in Execs, RecordRead(e) \/ Record(e) \/ RecordUncertain(e)
      PROVE  CompletedInv'
  BY <1>3 DEF RecordRead, Record, RecordUncertain, WriteOutcome, UnclearFailure, Goto
<1>4. ASSUME NEW e \in Execs, ReplayReconcile(e) PROVE CompletedInv'
  BY <1>4 DEF ReplayReconcile, Transition, Truthful
<1>5. ASSUME NEW e \in Execs, Crash(e) PROVE CompletedInv'
  BY <1>5 DEF Crash, Goto
<1>6. ASSUME NEW e \in Execs, EffectLands(e) \/ EffectLost(e) PROVE CompletedInv'
  BY <1>6 DEF EffectLands, EffectLost
<1>7. ASSUME NEW o \in Ops, Resolve(o) \/ AutoReconcile(o) \/ Compensate(o)
      PROVE  CompletedInv'
  BY <1>7 DEF Resolve, AutoReconcile, Compensate, Admit, Truthful
<1>8. ASSUME NEW o \in Ops, HookAnswers(o) PROVE CompletedInv'
  BY <1>8 DEF HookAnswers, Truthful
<1>9. ASSUME NEW o \in Ops, Decide(o) PROVE CompletedInv'
  BY <1>9 DEF Decide, Transition
<1>10. ASSUME NEW o \in Ops, CompensationEnds(o) \/ OpCrash(o) PROVE CompletedInv'
  BY <1>10 DEF CompensationEnds, OpCrash
<1>11. CASE ProcessDies
  BY <1>11 DEF ProcessDies
<1>12. CASE UNCHANGED vars
  BY <1>12 DEF vars
<1> HIDE DEF CompletedInv, TypeOK
<1> QED
  BY <1>1, <1>2, <1>3, <1>4, <1>5, <1>6, <1>7, <1>8, <1>9, <1>10, <1>11, <1>12
  DEF Next, Execute, Operate

\* A call recorded completed did take effect, with any number of processes and
\* overlapping decisions (executor.py, reconciliation.py).
THEOREM CompletedIsTrue == Spec => []CompletedTookEffect
<1>1. Init => CompletedInv
  BY DEF Init, CompletedInv, CompletedTookEffect
<1>2. TypeOK /\ CompletedInv /\ [Next]_vars => CompletedInv'
  BY CompletedStep
<1>3. CompletedInv => CompletedTookEffect
  BY DEF CompletedInv
<1> QED
  BY <1>1, <1>2, <1>3, LedgerTypes, PTL DEF Spec

-----------------------------------------------------------------------------
(* At most one effect, on a single node and with decisions one at a time.    *)

Open(e) == effect[e] \in {"possible", "applied"}

\* Executions do not overlap, and neither do decisions.
OneAtATime ==
    /\ \A e, f \in Execs : Running(e) /\ Running(f) => e = f
    /\ \A o, q \in Ops : Pending(o) /\ Pending(q) => o = q
    /\ \A e \in Execs, o \in Ops : pc[e] = "reconciling" => ~Pending(o)

\* A tool without side effects has none.
ReadOnly == ~SideEffecting => \A e \in Execs : effect[e] = "none"

\* Only the call that may be re-run is the one without effect.
ReservableIsSafe == status \in {"none", "failed"} => NeverWill

\* While an execution works under a reservation nobody settles it as failed.
WorkingInv ==
    \A e \in Execs :
        /\ pc[e] # "retry"
        /\ pc[e] = "handler" => status = "started"
        /\ pc[e] \in {"recording", "updating"} => status \notin {"none", "failed", "indeterminate"}
        /\ pc[e] \in {"recording", "updating"} /\ outcome[e] = "failed" /\ SideEffecting
             => effect[e] = "never"
        /\ pc[e] \in {"handler", "recording", "updating"}
             => \A f \in Execs : f # e => ~Open(f)

\* While a decision is under way the record stays what it was when it was read,
\* and a decision that the call failed rests on an effect that never comes.
DecidingInv ==
    /\ \A e \in Execs : pc[e] = "reconciling" =>
         status = seen[e] /\ status \in UnknownOutcome
    /\ \A o \in Ops : Pending(o) =>
         /\ status = seen[o] /\ status \notin {"none", "failed"}
         /\ status \in UnknownOutcome =>
              \A e \in Execs : pc[e] \notin {"handler", "recording", "updating"}
         /\ opc[o] = "deciding" /\ target[o] = "failed" =>
              NeverWill /\ status \in UnknownOutcome
         /\ target[o] \notin {"started", "indeterminate"}
         /\ opc[o] = "asking" => status \in UnknownOutcome

LedgerInv ==
    /\ \A e, f \in Execs : Open(e) /\ Open(f) => e = f
    /\ OneAtATime
    /\ ReadOnly
    /\ ReservableIsSafe
    /\ WorkingInv
    /\ DecidingInv

\* One step of an execution or a decision keeps the invariant.
LEMMA LedgerStep ==
    ASSUME SingleNode, Serialized, ~Retries, TypeOK, CompletedInv, LedgerInv, [Next]_vars
    PROVE  LedgerInv'
<1> USE LedgerAssumption
    DEF LedgerInv, OneAtATime, ReadOnly, ReservableIsSafe, WorkingInv, DecidingInv,
        Open, Running, Pending, NeverWill, UnknownOutcome, TypeOK,
        record, exec, oper, reads
<1>1. ASSUME NEW e \in Execs, NEW h, Reserve(e, h), NeverWill,
             status \in {"none", "failed"}, \A f \in Execs : Running(f) => f = e
      PROVE  LedgerInv'
  BY <1>1 DEF Reserve
<1>2. ASSUME NEW e \in Execs, Begin(e) PROVE LedgerInv'
  BY <1>1, <1>2 DEF Begin
<1>3. ASSUME NEW e \in Execs, BeginRead(e) PROVE LedgerInv'
  BY <1>3 DEF BeginRead, Goto, NobodyDecides, CompensationStatuses, Actors
<1>4. ASSUME NEW e \in Execs, BeginAgain(e) PROVE LedgerInv'
  BY <1>1, <1>4 DEF BeginAgain, Goto
<1>5. ASSUME NEW e \in Execs, HandlerReturns(e) PROVE LedgerInv'
  BY <1>5 DEF HandlerReturns, InHandler, EndsWith, UnclearFailure
<1>6. ASSUME NEW e \in Execs, HandlerRefuses(e) PROVE LedgerInv'
  BY <1>6 DEF HandlerRefuses, InHandler, EndsWith
<1>7. ASSUME NEW e \in Execs, HandlerRaises(e) PROVE LedgerInv'
  BY <1>7 DEF HandlerRaises, InHandler, EndsWith, UnclearFailure
<1>8. ASSUME NEW e \in Execs, RecordRead(e) \/ Record(e) PROVE LedgerInv'
  BY <1>8 DEF RecordRead, Record, WriteOutcome, StillStarted, Goto, Actors
<1>9. ASSUME NEW e \in Execs, RecordUncertain(e) PROVE LedgerInv'
  BY <1>9 DEF RecordUncertain, WriteOutcome, StillStarted, UnclearFailure
<1>10. ASSUME NEW e \in Execs, ReplayReconcile(e) PROVE LedgerInv'
  BY <1>10 DEF ReplayReconcile, Transition, Truthful
<1>11. ASSUME NEW e \in Execs, EffectLands(e) \/ EffectLost(e) PROVE LedgerInv'
  BY <1>11 DEF EffectLands, EffectLost
<1>12. ASSUME NEW o \in Ops, Resolve(o) PROVE LedgerInv'
  BY <1>12 DEF Resolve, Admit, NobodyDecides, Settleable, Truthful, Actors
<1>13. ASSUME NEW o \in Ops, AutoReconcile(o) PROVE LedgerInv'
  BY <1>13 DEF AutoReconcile, Admit, NobodyDecides, Settleable, Actors
<1>14. ASSUME NEW o \in Ops, Compensate(o) PROVE LedgerInv'
  BY <1>14 DEF Compensate, Compensable, Admit, NobodyDecides, Actors
<1>15. ASSUME NEW o \in Ops, HookAnswers(o) PROVE LedgerInv'
  BY <1>15 DEF HookAnswers, Truthful
<1>16. ASSUME NEW o \in Ops, Decide(o) PROVE LedgerInv'
  <2>1. /\ Pending(o) /\ opc[o] = "deciding" /\ o \in Actors
        /\ UNCHANGED <<effect, pc, outcome, target>>
        /\ \A f \in Execs : pc[f] # "reconciling"
        /\ \A q \in Ops : q # o => ~Pending(q)
    BY <1>16 DEF Decide, Actors
  <2>2. CASE status' = status /\ opc' = [opc EXCEPT ![o] = "done"]
    BY <2>1, <2>2
  <2>3. CASE /\ status = seen[o] /\ status' = target[o] /\ target[o] # "compensating"
             /\ opc' = [opc EXCEPT ![o] = "done"]
    <3>1. OneAtATime' /\ DecidingInv' /\ ReadOnly'
      BY <2>1, <2>3
    <3>2. ReservableIsSafe'
      BY <2>1, <2>3 DEF ToolExecutionStatus
    <3>3. \A e \in Execs : pc[e] # "handler"
      BY <2>1
    <3>4. \A e \in Execs : pc[e] \in {"recording", "updating"} => target[o] # "failed"
      BY <2>1
    <3>5. WorkingInv'
      BY <2>1, <2>3, <3>3, <3>4 DEF ToolExecutionStatus
    <3> QED
      BY <2>1, <3>1, <3>2, <3>5
  <2>4. CASE /\ status = seen[o] /\ status' = target[o] /\ target[o] = "compensating"
             /\ opc' = [opc EXCEPT ![o] = "compensating"]
             /\ seen' = [seen EXCEPT ![o] = target[o]]
    <3>1. OneAtATime' /\ DecidingInv' /\ ReadOnly'
      BY <2>1, <2>4
    <3>2. ReservableIsSafe' /\ WorkingInv'
      BY <2>1, <2>4
    <3> QED
      BY <2>1, <3>1, <3>2
  <2> QED
    BY <1>16, <2>2, <2>3, <2>4 DEF Decide, Transition
<1>17. ASSUME NEW o \in Ops, CompensationEnds(o) PROVE LedgerInv'
  BY <1>17 DEF CompensationEnds
<1>18. CASE ProcessDies
  BY <1>18 DEF ProcessDies
<1>19. CASE UNCHANGED vars
  BY <1>19 DEF vars
<1> HIDE DEF LedgerInv, TypeOK
<1> QED
  BY <1>2, <1>3, <1>4, <1>5, <1>6, <1>7, <1>8, <1>9, <1>10, <1>11, <1>12, <1>13,
     <1>14, <1>15, <1>16, <1>17, <1>18, <1>19
  DEF Next, Execute, Operate, HandlerRetries, Crash, OpCrash

\* On a single node, with decisions one at a time, a tool call takes effect at
\* most once, unless a raising handler is run again within the call: replays,
\* crashes, timeouts and lost writes never run it twice.
THEOREM AtMostOnce ==
    ASSUME SingleNode, Serialized, ~Retries
    PROVE  Spec => [](AtMostOneEffect /\ FailedNeverTookEffect)
<1>1. Init => CompletedInv
  BY DEF Init, CompletedInv, CompletedTookEffect
<1>2. Init => LedgerInv
  BY DEF Init, LedgerInv, OneAtATime, ReadOnly, ReservableIsSafe, WorkingInv,
         DecidingInv, Open, Running, Pending, NeverWill
<1>3. TypeOK /\ CompletedInv /\ [Next]_vars => CompletedInv'
  BY CompletedStep
<1>4. TypeOK /\ CompletedInv /\ LedgerInv /\ [Next]_vars => LedgerInv'
  BY LedgerStep
<1>5. LedgerInv => AtMostOneEffect /\ FailedNeverTookEffect
  BY DEF LedgerInv, Open, AtMostOneEffect, FailedNeverTookEffect, ReservableIsSafe
<1> QED
  BY <1>1, <1>2, <1>3, <1>4, <1>5, LedgerTypes, PTL DEF Spec

\* Under the same deployment the ledger tells the truth: a call recorded completed
\* took effect, one recorded failed never does (execute, reconcile, resolve).
THEOREM LedgerIsTruthful ==
    ASSUME SingleNode, Serialized, ~Retries
    PROVE  Spec => []LedgerTruthful
BY LedgerTypes, CompletedIsTrue, AtMostOnce, PTL DEF LedgerTruthful

-----------------------------------------------------------------------------
(* Late outcomes and late decisions, with any number of processes.           *)

\* What a decision under way may write follows from the status it was admitted on.
DecisionFits(o) ==
    \/ seen[o] \in UnknownOutcome /\ target[o] \in {"completed", "failed"}
    \/ seen[o] = "compensating" /\ target[o] \in {"compensated", "compensation_failed"}
    \/ seen[o] \in Compensable /\ target[o] = "compensating"

AdmittedInv ==
    /\ \A e \in Execs : pc[e] = "reconciling" => seen[e] \in UnknownOutcome
    /\ \A o \in Ops :
         /\ opc[o] = "asking" => seen[o] \in UnknownOutcome
         /\ opc[o] = "deciding" => DecisionFits(o)
         /\ opc[o] = "compensating" => seen[o] = "compensating"

\* Every decision under way was admitted on a status it may be taken on.
LEMMA AdmittedAlways == Spec => []AdmittedInv
<1> USE LedgerAssumption
    DEF AdmittedInv, DecisionFits, UnknownOutcome, Compensable, Actors, record, exec, oper, reads
<1>1. Init => AdmittedInv
  BY DEF Init
<1>2. TypeOK /\ AdmittedInv /\ [Next]_vars => AdmittedInv'
  <2> USE DEF TypeOK
  <2> SUFFICES ASSUME TypeOK, AdmittedInv, [Next]_vars PROVE AdmittedInv'
    OBVIOUS
  <2>1. ASSUME NEW e \in Execs, Execute(e) PROVE AdmittedInv'
    <3>1. CASE Begin(e) \/ BeginRead(e) \/ BeginAgain(e)
      BY <3>1 DEF Begin, BeginRead, BeginAgain, Reserve, Goto
    <3>2. CASE HandlerReturns(e) \/ HandlerRefuses(e) \/ HandlerRetries(e) \/ HandlerRaises(e)
      BY <3>2 DEF HandlerReturns, HandlerRefuses, HandlerRetries, HandlerRaises, EndsWith, Goto
    <3>3. CASE RecordRead(e) \/ Record(e) \/ RecordUncertain(e) \/ ReplayReconcile(e) \/ Crash(e)
      BY <3>3 DEF RecordRead, Record, RecordUncertain, ReplayReconcile, Crash, Goto
    <3> QED
      BY <2>1, <3>1, <3>2, <3>3 DEF Execute
  <2>2. ASSUME NEW o \in Ops, Operate(o) PROVE AdmittedInv'
    <3>1. CASE Resolve(o)
      BY <3>1 DEF Resolve, Settleable, Admit
    <3>2. CASE AutoReconcile(o) \/ Compensate(o)
      BY <3>2 DEF AutoReconcile, Compensate, Settleable, Admit
    <3>3. CASE HookAnswers(o) \/ CompensationEnds(o) \/ OpCrash(o)
      BY <3>3 DEF HookAnswers, CompensationEnds, OpCrash
    <3>4. CASE Decide(o)
      BY <3>4 DEF Decide
    <3> QED
      BY <2>2, <3>1, <3>2, <3>3, <3>4 DEF Operate
  <2>3. CASE ProcessDies
    BY <2>3 DEF ProcessDies
  <2>4. ASSUME NEW e \in Execs, EffectLands(e) \/ EffectLost(e) PROVE AdmittedInv'
    BY <2>4 DEF EffectLands, EffectLost
  <2>5. CASE UNCHANGED vars
    BY <2>5 DEF vars
  <2> HIDE DEF AdmittedInv, TypeOK
  <2> QED
    BY <2>1, <2>2, <2>3, <2>4, <2>5 DEF Next
<1> HIDE DEF AdmittedInv
<1> QED
  BY <1>1, <1>2, LedgerTypes, PTL DEF Spec

\* Whatever arrives late, a completed call can only be compensated, and a compensated one
\* is neither run nor compensated again (_still_started, transition), on any number of
\* processes with overlapping decisions.
THEOREM LateChangesNothing == Spec => SettledStands
<1> USE LedgerAssumption
    DEF AdmittedInv, DecisionFits, UnknownOutcome, Compensable, Actors, record, exec, oper, reads
<1> DEFINE Stands == /\ status = "completed" => status' \in {"completed", "compensating"}
                     /\ status = "compensated" => status' = "compensated"
<1>1. AdmittedInv /\ [Next]_vars => [Stands]_vars
  <2> SUFFICES ASSUME AdmittedInv, Next PROVE Stands
    BY DEF Stands
  <2>1. ASSUME NEW e \in Execs, Execute(e) PROVE Stands
    BY <2>1 DEF Execute, Begin, BeginRead, BeginAgain, Reserve, HandlerReturns, HandlerRefuses,
       HandlerRetries, HandlerRaises, EndsWith, RecordRead, Record, RecordUncertain, WriteOutcome,
       StillStarted, ReplayReconcile, Transition, Crash, Goto
  <2>2. ASSUME NEW o \in Ops, Operate(o) PROVE Stands
    BY <2>2 DEF Operate, Resolve, AutoReconcile, Compensate, Admit, HookAnswers, Decide, Transition,
       CompensationEnds, OpCrash
  <2>3. ASSUME NEW e \in Execs, EffectLands(e) \/ EffectLost(e) PROVE Stands
    BY <2>3 DEF EffectLands, EffectLost
  <2>4. CASE ProcessDies
    BY <2>4 DEF ProcessDies
  <2> QED
    BY <2>1, <2>2, <2>3, <2>4 DEF Next
<1> HIDE DEF AdmittedInv
<1> QED
  BY <1>1, AdmittedAlways, PTL DEF Spec, SettledStands

-----------------------------------------------------------------------------
(* What executions write drops no decision, on a single node, however the    *)
(* decisions overlap.                                                        *)

\* One execution runs at a time, and what it has read of the decisions is not behind the
\* record it may still write.
CopiesCarry ==
    /\ \A e, f \in Execs : Running(e) /\ Running(f) => e = f
    /\ \A e \in Execs :
         /\ pc[e] = "reserving" => status = "failed" /\ resolutions \subseteq kept[e]
         /\ pc[e] = "updating" /\ status = "started" => resolutions \subseteq kept[e]

\* No decision moves the record to failed or started while an execution holds a copy of it.
LEMMA CopiesStep ==
    ASSUME SingleNode, TypeOK, AdmittedInv, CopiesCarry, [Next]_vars
    PROVE  CopiesCarry'
<1> USE LedgerAssumption DEF CopiesCarry, Running, TypeOK, Actors, record, exec, oper, reads
<1>1. ASSUME NEW e \in Execs, Begin(e) \/ BeginRead(e) \/ BeginAgain(e) PROVE CopiesCarry'
  BY <1>1 DEF Begin, BeginRead, BeginAgain, Reserve, Goto
<1>2. ASSUME NEW e \in Execs,
             HandlerReturns(e) \/ HandlerRefuses(e) \/ HandlerRaises(e) \/ HandlerRetries(e)
      PROVE  CopiesCarry'
  BY <1>2 DEF HandlerReturns, HandlerRefuses, HandlerRaises, HandlerRetries, InHandler, EndsWith, Goto
<1>3. ASSUME NEW e \in Execs, RecordRead(e) \/ Record(e) \/ RecordUncertain(e) PROVE CopiesCarry'
  BY <1>3 DEF RecordRead, Record, RecordUncertain, WriteOutcome, StillStarted, Goto
<1>4. ASSUME NEW e \in Execs, ReplayReconcile(e) PROVE CopiesCarry'
  BY <1>4 DEF ReplayReconcile, Transition
<1>5. ASSUME NEW e \in Execs, EffectLands(e) \/ EffectLost(e) PROVE CopiesCarry'
  BY <1>5 DEF EffectLands, EffectLost
<1>6. ASSUME NEW o \in Ops, Resolve(o) \/ AutoReconcile(o) \/ Compensate(o) PROVE CopiesCarry'
  BY <1>6 DEF Resolve, AutoReconcile, Compensate, Admit
<1>7. ASSUME NEW o \in Ops, HookAnswers(o) \/ CompensationEnds(o) PROVE CopiesCarry'
  BY <1>7 DEF HookAnswers, CompensationEnds
<1>8. ASSUME NEW o \in Ops, Decide(o) PROVE CopiesCarry'
  <2>1. CASE UNCHANGED record
    BY <1>8, <2>1 DEF Decide
  <2>2. CASE Transition(o, target[o])
    <3>1. opc[o] = "deciding" /\ status = seen[o] /\ status' = target[o]
      BY <1>8, <2>2 DEF Decide, Transition
    <3>2. status # "failed" /\ status' # "started"
      BY <3>1 DEF AdmittedInv, DecisionFits, UnknownOutcome, Compensable
    <3> QED
      BY <1>8, <3>2 DEF Decide
  <2> QED
    BY <1>8, <2>1, <2>2 DEF Decide
<1>9. CASE ProcessDies
  BY <1>9 DEF ProcessDies
<1>10. CASE UNCHANGED vars
  BY <1>10 DEF vars
<1> HIDE DEF CopiesCarry, TypeOK
<1> QED
  BY <1>1, <1>2, <1>3, <1>4, <1>5, <1>6, <1>7, <1>8, <1>9, <1>10 DEF Next, Execute, Operate, Crash, OpCrash

\* A retry's reservation and a late outcome carry every decision the record has, whatever is
\* decided beside them and however often the process dies, on a single node (begin, complete and
\* fail: each replaces the whole record by the copy its caller read).
THEOREM DecisionsAreCarried ==
    ASSUME SingleNode
    PROVE  Spec => ExecutionsDropNone
<1> DEFINE DropNone == \A e \in Execs : BeginAgain(e) \/ Record(e) \/ RecordUncertain(e)
                                         => resolutions \subseteq resolutions'
<1>1. Init => CopiesCarry
  BY DEF Init, CopiesCarry, Running
<1>2. TypeOK /\ AdmittedInv /\ CopiesCarry /\ [Next]_vars => CopiesCarry'
  BY CopiesStep
<1>3. CopiesCarry => [DropNone]_vars
  BY DEF CopiesCarry, BeginAgain, Reserve, Goto, Record, RecordUncertain, WriteOutcome, StillStarted, record
<1> QED
  BY <1>1, <1>2, <1>3, LedgerTypes, AdmittedAlways, PTL DEF Spec, ExecutionsDropNone

-----------------------------------------------------------------------------
(* The table of sessions, a sequence ordered by use: every key has one     *)
(* place in it.                                                            *)

Entries(q) == {q[i] : i \in DOMAIN q}
OnePlace(q) == \A i, j \in DOMAIN q : q[i][1] = q[j][1] => i = j

\* Taking a key out of the table leaves the others, each in one place.
LEMMA DropTakesOut ==
  ASSUME NEW S, NEW q \in Seq(S), NEW k, OnePlace(q)
  PROVE  /\ Drop(q, k) \in Seq(S) /\ OnePlace(Drop(q, k))
         /\ Entries(Drop(q, k)) = {e \in Entries(q) : e[1] # k}
         /\ Len(Drop(q, k)) <= Len(q)
         /\ (\E e \in Entries(q) : e[1] = k) => Len(Drop(q, k)) < Len(q)
<1>1. CASE ~\E i \in DOMAIN q : q[i][1] = k
  BY <1>1 DEF Drop, Entries
<1>2. CASE \E i \in DOMAIN q : q[i][1] = k
  <2> DEFINE p == Place(q, k)
             r == Drop(q, k)
  <2>1. p \in DOMAIN q /\ q[p][1] = k BY <1>2 DEF Place
  <2>2. p \in 1..Len(q) /\ DOMAIN q = 1..Len(q) /\ Len(q) \in Nat BY <2>1
  <2>3. r = SubSeq(q, 1, p - 1) \o SubSeq(q, p + 1, Len(q)) BY <1>2 DEF Drop, RemoveAt
  <2> HIDE DEF p, r
  <2>4. /\ SubSeq(q, 1, p - 1) \in Seq(S) /\ Len(SubSeq(q, 1, p - 1)) = p - 1
        /\ \A i \in 1..(p - 1) : SubSeq(q, 1, p - 1)[i] = q[i]
    BY <2>2
  <2>5. /\ SubSeq(q, p + 1, Len(q)) \in Seq(S) /\ Len(SubSeq(q, p + 1, Len(q))) = Len(q) - p
        /\ \A i \in 1..(Len(q) - p) : SubSeq(q, p + 1, Len(q))[i] = q[i + p]
    <3>1. p + 1 \in Int /\ Len(q) \in Int /\ \A i \in (p + 1)..Len(q) : q[i] \in S BY <2>2
    <3>2. /\ SubSeq(q, p + 1, Len(q)) \in Seq(S)
          /\ Len(SubSeq(q, p + 1, Len(q))) = IF p + 1 <= Len(q) THEN Len(q) - (p + 1) + 1 ELSE 0
          /\ \A i \in 1..(Len(q) - (p + 1) + 1) : SubSeq(q, p + 1, Len(q))[i] = q[(p + 1) + i - 1]
      BY <3>1, SubSeqProperties
    <3>3. p \in Int /\ Len(q) \in Int /\ p <= Len(q) BY <2>2
    <3>4. Len(q) - (p + 1) + 1 = Len(q) - p /\ (p + 1 <= Len(q) \/ Len(q) - p = 0) BY <3>3
    <3>5. ASSUME NEW i \in 1..(Len(q) - p) PROVE SubSeq(q, p + 1, Len(q))[i] = q[i + p]
      <4>1. (p + 1) + i - 1 = i + p /\ i \in 1..(Len(q) - (p + 1) + 1) BY <3>3
      <4>2. SubSeq(q, p + 1, Len(q))[i] = q[(p + 1) + i - 1] BY <3>2, <4>1
      <4> QED BY <4>1, <4>2, Zenon
    <3> QED BY <3>2, <3>4, <3>5, Zenon
  <2>6. /\ r \in Seq(S) /\ Len(r) = Len(q) - 1 /\ DOMAIN r = 1..(Len(q) - 1)
        /\ \A i \in 1..(Len(q) - 1) : r[i] = IF i < p THEN q[i] ELSE q[i + 1]
    <3> DEFINE u == SubSeq(q, 1, p - 1)
               v == SubSeq(q, p + 1, Len(q))
    <3>1. /\ u \in Seq(S) /\ v \in Seq(S) /\ r = u \o v /\ Len(u) = p - 1 /\ Len(v) = Len(q) - p
          /\ \A i \in 1..(p - 1) : u[i] = q[i]
          /\ \A i \in 1..(Len(q) - p) : v[i] = q[i + p]
      BY <2>3, <2>4, <2>5
    <3> HIDE DEF u, v
    <3>2. r \in Seq(S) /\ Len(r) = Len(q) - 1
      <4>1. u \o v \in Seq(S) /\ Len(u \o v) = Len(u) + Len(v) BY <3>1, ConcatProperties
      <4>2. (p - 1) + (Len(q) - p) = Len(q) - 1 BY <2>2
      <4> QED BY <4>1, <4>2, <3>1
    <3>3. DOMAIN r = 1..(Len(q) - 1) BY <3>2
    <3>4. ASSUME NEW i \in 1..(Len(q) - 1), i < p PROVE r[i] = q[i]
      BY <3>1, <3>4, <2>2
    <3>5. ASSUME NEW i \in 1..(Len(q) - 1), ~(i < p) PROVE r[i] = q[i + 1]
      <4>1. i - (p - 1) \in 1..(Len(q) - p) /\ (i - (p - 1)) + p = i + 1 BY <3>5, <2>2
      <4>2. r[i] = v[i - (p - 1)] BY <3>1, <3>5, <2>2
      <4> QED BY <4>1, <4>2, <3>1
    <3> QED BY <3>2, <3>3, <3>4, <3>5
  <2>7. OnePlace(r)
    <3> SUFFICES ASSUME NEW i \in DOMAIN r, NEW j \in DOMAIN r, r[i][1] = r[j][1] PROVE i = j
      BY DEF OnePlace
    <3> DEFINE at(n) == IF n < p THEN n ELSE n + 1
    <3>1. at(i) \in DOMAIN q /\ at(j) \in DOMAIN q /\ r[i] = q[at(i)] /\ r[j] = q[at(j)]
      BY <2>2, <2>6
    <3>2. at(i) = at(j) BY <3>1, OnePlace(q) DEF OnePlace
    <3> QED BY <3>2, <2>2, <2>6
  <2>8. Entries(r) \subseteq {e \in Entries(q) : e[1] # k}
    <3> SUFFICES ASSUME NEW i \in DOMAIN r PROVE r[i] \in Entries(q) /\ r[i][1] # k
      BY DEF Entries
    <3>1. PICK n \in DOMAIN q : r[i] = q[n] /\ n # p BY <2>2, <2>6
    <3> QED BY <3>1, <2>1, OnePlace(q) DEF OnePlace, Entries
  <2>9. {e \in Entries(q) : e[1] # k} \subseteq Entries(r)
    <3> SUFFICES ASSUME NEW n \in DOMAIN q, q[n][1] # k PROVE q[n] \in Entries(r)
      BY DEF Entries
    <3>1. n # p BY <2>1
    <3>2. CASE n < p
      <4>1. n \in DOMAIN r /\ r[n] = q[n] BY <3>2, <2>2, <2>6
      <4> QED BY <4>1 DEF Entries
    <3>3. CASE n > p
      <4>1. n - 1 \in DOMAIN r /\ r[n - 1] = q[n] BY <3>3, <2>2, <2>6
      <4> QED BY <4>1 DEF Entries
    <3> QED BY <3>1, <3>2, <3>3, <2>2
  <2> QED BY <2>2, <2>6, <2>7, <2>8, <2>9 DEF r
<1> QED BY <1>1, <1>2

\* A key that is not in the table gets the last place.
LEMMA AppendPutsIn ==
  ASSUME NEW S, NEW q \in Seq(S), NEW e \in S, OnePlace(q), \A f \in Entries(q) : f[1] # e[1]
  PROVE  /\ Append(q, e) \in Seq(S) /\ OnePlace(Append(q, e))
         /\ Entries(Append(q, e)) = Entries(q) \cup {e} /\ Len(Append(q, e)) = Len(q) + 1
<1> DEFINE r == Append(q, e)
<1>1. /\ r \in Seq(S) /\ Len(r) = Len(q) + 1 /\ DOMAIN r = 1..(Len(q) + 1) /\ DOMAIN q = 1..Len(q)
      /\ Len(q) \in Nat /\ r[Len(q) + 1] = e /\ \A i \in 1..Len(q) : r[i] = q[i]
  OBVIOUS
<1> HIDE DEF r
<1>2. OnePlace(r)
  <2> SUFFICES ASSUME NEW i \in DOMAIN r, NEW j \in DOMAIN r, r[i][1] = r[j][1] PROVE i = j
    BY DEF OnePlace
  <2>1. CASE i \in 1..Len(q) /\ j \in 1..Len(q) BY <2>1, <1>1, OnePlace(q) DEF OnePlace
  <2>2. CASE i \in 1..Len(q) /\ j = Len(q) + 1
    <3>1. r[i] \in Entries(q) BY <2>2, <1>1 DEF Entries
    <3> QED BY <3>1, <2>2, <1>1
  <2>3. CASE j \in 1..Len(q) /\ i = Len(q) + 1
    <3>1. r[j] \in Entries(q) BY <2>3, <1>1 DEF Entries
    <3> QED BY <3>1, <2>3, <1>1
  <2> QED BY <2>1, <2>2, <2>3, <1>1
<1>3. Entries(r) \subseteq Entries(q) \cup {e}
  <2> SUFFICES ASSUME NEW i \in DOMAIN r PROVE r[i] \in Entries(q) \cup {e} BY DEF Entries
  <2>1. i \in 1..Len(q) \/ i = Len(q) + 1 BY <1>1
  <2> QED BY <2>1, <1>1 DEF Entries
<1>4. e \in Entries(r)
  <2>1. Len(q) + 1 \in DOMAIN r BY <1>1
  <2> QED BY <2>1, <1>1 DEF Entries
<1>5. ASSUME NEW i \in DOMAIN q PROVE q[i] \in Entries(r)
  <2>1. i \in DOMAIN r /\ r[i] = q[i] BY <1>1
  <2> QED BY <2>1 DEF Entries
<1> QED BY <1>1, <1>2, <1>3, <1>4, <1>5 DEF r, Entries

\* The first key of the table is taken out, and no other.
LEMMA TailTakesFirst ==
  ASSUME NEW S, NEW q \in Seq(S), OnePlace(q), q # <<>>
  PROVE  /\ Tail(q) \in Seq(S) /\ OnePlace(Tail(q)) /\ Head(q) \in Entries(q)
         /\ Entries(Tail(q)) = Entries(q) \ {Head(q)} /\ Len(Tail(q)) = Len(q) - 1
<1> DEFINE r == Tail(q)
<1>1. /\ r \in Seq(S) /\ Len(r) = Len(q) - 1 /\ DOMAIN r = 1..(Len(q) - 1) /\ DOMAIN q = 1..Len(q)
      /\ Len(q) \in Nat /\ Len(q) >= 1 /\ Head(q) = q[1] /\ \A i \in 1..(Len(q) - 1) : r[i] = q[i + 1]
  OBVIOUS
<1> HIDE DEF r
<1>2. OnePlace(r)
  <2> SUFFICES ASSUME NEW i \in DOMAIN r, NEW j \in DOMAIN r, r[i][1] = r[j][1] PROVE i = j
    BY DEF OnePlace
  <2>1. i + 1 \in DOMAIN q /\ j + 1 \in DOMAIN q /\ r[i] = q[i + 1] /\ r[j] = q[j + 1] BY <1>1
  <2>2. i + 1 = j + 1 BY <2>1, OnePlace(q) DEF OnePlace
  <2> QED BY <2>2, <1>1
<1>3. 1 \in DOMAIN q BY <1>1
<1>4. Entries(r) \subseteq Entries(q) \ {Head(q)}
  <2> SUFFICES ASSUME NEW i \in DOMAIN r PROVE r[i] \in Entries(q) /\ r[i] # Head(q) BY DEF Entries
  <2>1. i + 1 \in DOMAIN q /\ r[i] = q[i + 1] /\ i + 1 # 1 BY <1>1
  <2> QED BY <2>1, <1>1, <1>3, OnePlace(q) DEF OnePlace, Entries
<1>5. ASSUME NEW i \in DOMAIN q, q[i] # Head(q) PROVE q[i] \in Entries(r)
  <2>1. i - 1 \in DOMAIN r /\ r[i - 1] = q[i] BY <1>1, <1>5
  <2> QED BY <2>1 DEF Entries
<1>6. Entries(q) \ {Head(q)} \subseteq Entries(r) BY <1>5 DEF Entries
<1>7. Head(q) \in Entries(q) BY <1>1, <1>3 DEF Entries
<1> QED BY <1>1, <1>2, <1>4, <1>6, <1>7 DEF r

-----------------------------------------------------------------------------
(* McpConnections.                                                         *)

Stages == {"idle", "ended", "connect", "lock", "refresh", "put", "refused", "forget", "opening", "call"}
McpCallRecords == [at : Stages, who : McpUsers \cup {Absent}, process : Processes, used : 0..MaxToken,
                   session : 0..MaxSessions, rejected : 0..MaxToken]
CallbackRecords == [at : {"idle", "exchange", "put", "done"}, key : Keys \cup {Absent},
                    id : 0..MaxAuthorizations, version : 0..MaxToken, renewable : BOOLEAN]
TokenSets == [version : 1..MaxToken, fresh : BOOLEAN, renewable : BOOLEAN]

\* A call that has begun has its caller.
McpCallsInv ==
  /\ mcall \in [McpCalls -> McpCallRecords]
  /\ \A c \in McpCalls : mcall[c].at # "idle" => mcall[c].who \in McpUsers

\* An authorization is unused until the one callback that took it asks the provider.
CodesInv ==
  /\ begun \in 0..MaxAuthorizations
  /\ pending \in [DOMAIN pending -> Keys] /\ DOMAIN pending \subseteq 1..begun
  /\ callback \in [Callbacks -> CallbackRecords]
  /\ exchanges \in [1..MaxAuthorizations -> {0, 1}]
  /\ \A a \in 1..MaxAuthorizations : a \in DOMAIN pending \/ a > begun => exchanges[a] = 0
  /\ \A b \in Callbacks : callback[b].at = "exchange" =>
       /\ callback[b].key \in Keys /\ callback[b].id \in (1..begun) \ DOMAIN pending
       /\ exchanges[callback[b].id] = 0
  /\ \A b, d \in Callbacks : callback[b].at = "exchange" /\ callback[d].at = "exchange" /\ b # d
       => callback[b].id # callback[d].id

\* The table holds the open sessions, one of a key; one call at most opens a session for a key,
\* and there is none then.
TableInv ==
  /\ opened \in 0..MaxSessions /\ conns \in Seq(Keys \X (1..MaxSessions))
  /\ sessions \in [DOMAIN sessions -> Keys] /\ DOMAIN sessions \subseteq 1..opened
  /\ OnePlace(conns) /\ Len(conns) <= MaxOAuthConnections
  /\ Entries(conns) = {<<sessions[s], s>> : s \in DOMAIN sessions}
  /\ \A c \in McpCalls : mcall[c].at = "opening" =>
       /\ \A s \in DOMAIN sessions : sessions[s] # KeyOf(c)
       /\ \A d \in McpCalls : mcall[d].at = "opening" /\ d # c => KeyOf(d) # KeyOf(c)
  /\ \A c \in McpCalls : mcall[c].at = "call" =>
       /\ mcall[c].session \in 1..opened
       /\ mcall[c].session \in DOMAIN sessions => sessions[mcall[c].session] = KeyOf(c)

Refreshing == {"refresh", "put", "refused", "forget"}

\* A version is with the provider, with no one, or was rotated for somebody.
TokenTypes ==
  /\ stored \in [Keys -> TokenSets \cup {Absent}] /\ minted \in [Keys -> 0..MaxToken]
  /\ grants \in [Keys -> SUBSET (1..MaxToken)] /\ disowned \in [Keys -> SUBSET (1..MaxToken)]
  /\ spent \in [Keys -> SUBSET ((1..MaxToken) \X (Processes \cup {Nowhere}))]
  /\ refreshing \in [Processes \X Keys -> McpCalls \cup {Free}]
  /\ \A k \in Keys : stored[k] # Absent => stored[k].version \in 1..minted[k]
  /\ \A k \in Keys : disowned[k] \subseteq 1..minted[k] /\ \A e \in spent[k] : e[1] \in 1..minted[k]
  /\ \A k \in Keys : \A v \in 1..minted[k] :
       v \in grants[k] \cup disowned[k] \/ \E w \in Processes \cup {Nowhere} : <<v, w>> \in spent[k]

\* A version that is on its way to the store: nobody has used it, and nobody else has it.
Unseen(k, v) ==
  /\ v \in 1..minted[k] /\ \A e \in spent[k] : e[1] # v
  /\ stored[k] # Absent => stored[k].version # v
  /\ \A d \in McpCalls : mcall[d].at = "refresh" /\ KeyOf(d) = k => mcall[d].used # v

\* Refreshes of a key follow each other in a process, each with a version that the process did not use.
CallToken(c) ==
  /\ mcall[c].at \in Refreshing => refreshing[Lock(c)] = c
  /\ mcall[c].at = "refresh" => /\ mcall[c].used \in 1..minted[KeyOf(c)]
                               /\ <<mcall[c].used, mcall[c].process>> \notin spent[KeyOf(c)]
  /\ mcall[c].at \in {"refused", "forget"} =>
       mcall[c].used = 0 \/ mcall[c].used \in disowned[KeyOf(c)] \/ Elsewhere(c)
  /\ mcall[c].at = "put" =>
       /\ Unseen(KeyOf(c), mcall[c].used)
       /\ \A d \in McpCalls : mcall[d].at = "put" /\ KeyOf(d) = KeyOf(c) /\ d # c => mcall[d].used # mcall[c].used

\* A process has not used the stored version, but while the successor it got is on the way.
Putting(l) == \E c \in McpCalls : mcall[c].at = "put" /\ Lock(c) = l
StoredToken(k) ==
  stored[k] # Absent => \A w \in Processes : Putting(<<w, k>>) \/ <<stored[k].version, w>> \notin spent[k]

\* A version a callback brings is nobody's yet.
CallbackToken(b) ==
  callback[b].at = "put" =>
    /\ callback[b].key \in Keys /\ Unseen(callback[b].key, callback[b].version)
    /\ \A c \in McpCalls : mcall[c].at = "put" /\ KeyOf(c) = callback[b].key => mcall[c].used # callback[b].version
    /\ \A d \in Callbacks : callback[d].at = "put" /\ callback[d].key = callback[b].key /\ d # b
         => callback[d].version # callback[b].version

TokensInv ==
  /\ TokenTypes
  /\ \A c \in McpCalls : CallToken(c)
  /\ \A k \in Keys : StoredToken(k)
  /\ \A b \in Callbacks : CallbackToken(b)

McpInv == McpCallsInv /\ CodesInv /\ TableInv /\ TokensInv

\* Where a call may be.
LEMMA StagesAre ==
  /\ "idle" \in Stages /\ "ended" \in Stages /\ "connect" \in Stages /\ "lock" \in Stages /\ "call" \in Stages
  /\ "refresh" \in Stages /\ "put" \in Stages /\ "refused" \in Stages /\ "forget" \in Stages /\ "opening" \in Stages
BY DEF Stages

\* A call that begins, or has ended, has its caller.
LEMMA NoCallUpdates ==
  ASSUME NEW p \in McpUsers, NEW at \in Stages, NEW w \in Processes
  PROVE  /\ [NoCall EXCEPT !.who = p, !.at = at] \in McpCallRecords
         /\ [NoCall EXCEPT !.who = p, !.at = at].who = p
         /\ [NoCall EXCEPT !.who = p, !.process = w, !.at = at] \in McpCallRecords
         /\ [NoCall EXCEPT !.who = p, !.process = w, !.at = at].who = p
<1>1. NoCall \in McpCallRecords BY McpAssumption, StagesAre DEF McpCallRecords, NoCall
<1>2. ASSUME NEW r \in McpCallRecords
      PROVE  /\ [r EXCEPT !.who = p, !.at = at] \in McpCallRecords /\ [r EXCEPT !.who = p, !.at = at].who = p
             /\ [r EXCEPT !.who = p, !.process = w, !.at = at] \in McpCallRecords
             /\ [r EXCEPT !.who = p, !.process = w, !.at = at].who = p
  BY <1>2 DEF McpCallRecords
<1> QED BY <1>1, <1>2

\* The key of every caller is one of the keys.
LEMMA KeysOfUsers == \A p \in McpUsers : KeyFor(p) \in Keys
BY DEF Keys

\* A call that has begun has the key of its caller.
LEMMA KeysOfCalls == McpCallsInv => \A c \in McpCalls : mcall[c].at # "idle" => KeyOf(c) \in Keys
BY KeysOfUsers DEF McpCallsInv, KeyOf

\* No connection, no call and no callback: nothing to be wrong.
LEMMA McpInitInv == McpInit => McpInv
<1> SUFFICES ASSUME McpInit PROVE McpInv OBVIOUS
<1> USE McpAssumption
<1>1. McpCallsInv
  <2>1. NoCall \in McpCallRecords /\ NoCall.at = "idle" BY DEF NoCall, McpCallRecords, Stages
  <2> QED BY <2>1 DEF McpInit, McpCallsInv
<1>2. CodesInv BY DEF McpInit, CodesInv, CallbackRecords
<1>3. TableInv
  <2>1. conns = <<>> /\ sessions = [s \in {} |-> Absent] /\ opened = 0 /\ \A c \in McpCalls : mcall[c].at = "idle"
    BY DEF McpInit, NoCall
  <2> QED BY <2>1 DEF TableInv, OnePlace, Entries
<1>4. TokensInv BY DEF McpInit, TokensInv, TokenTypes, CallToken, StoredToken, CallbackToken, NoCall, Refreshing
<1> QED BY <1>1, <1>2, <1>3, <1>4 DEF McpInv

\* Going on, connecting and ending change where a call is, and leave its caller.
LEMMA Goes ==
  ASSUME McpCallsInv, NEW c \in McpCalls, NEW at \in Stages,
         Go(c, at) \/ (at = "connect" /\ Connect(c)) \/ (at = "ended" /\ End(c))
  PROVE  /\ \A d \in McpCalls : d # c => mcall'[d] = mcall[d]
         /\ mcall'[c].at = at /\ mcall'[c].who = mcall[c].who
         /\ Go(c, at) => mcall'[c].used = mcall[c].used /\ mcall'[c].process = mcall[c].process
         /\ \A d \in McpCalls : KeyOf(d)' = KeyOf(d)
         /\ \A d \in McpCalls : d # c => Lock(d)' = Lock(d)
<1>1. /\ \A d \in McpCalls : d # c => mcall'[d] = mcall[d]
      /\ mcall'[c].at = at /\ mcall'[c].who = mcall[c].who
      /\ Go(c, at) => mcall'[c].used = mcall[c].used /\ mcall'[c].process = mcall[c].process
  <2>1. CASE Go(c, at) BY <2>1 DEF Go, McpCallsInv, McpCallRecords
  <2>2. CASE at = "connect" /\ Connect(c) /\ ~Go(c, at) BY <2>2 DEF Connect, McpCallsInv, McpCallRecords
  <2>3. CASE at = "ended" /\ End(c) /\ ~Go(c, at) BY <2>3 DEF End, NoCall, McpCallsInv
  <2> QED BY <2>1, <2>2, <2>3
<1> QED BY <1>1 DEF KeyOf, Lock

\* A call that has to refresh takes the lock, and asks or forgets.
LEMMA LockTakes ==
  ASSUME NEW c \in McpCalls, LockRefresh(c), ~(UNCHANGED refreshing /\ (End(c) \/ Connect(c)))
  PROVE  /\ stored[KeyOf(c)] # Absent /\ refreshing' = [refreshing EXCEPT ![Lock(c)] = c]
         /\ \/ mcall' = [mcall EXCEPT ![c] = [mcall[c] EXCEPT !.at = "refresh", !.used = stored[KeyOf(c)].version]]
            \/ mcall' = [mcall EXCEPT ![c] = [mcall[c] EXCEPT !.at = "forget", !.used = 0]]
<1>1. CASE stored[KeyOf(c)].renewable BY <1>1, Zenon DEF LockRefresh
<1>2. CASE ~stored[KeyOf(c)].renewable BY <1>2, Zenon DEF LockRefresh
<1> QED BY <1>1, <1>2

\* The record of a call that has taken the lock.
LEMMA LockMoves ==
  ASSUME McpCallsInv, NEW c \in McpCalls, LockRefresh(c), ~(UNCHANGED refreshing /\ (End(c) \/ Connect(c)))
  PROVE  /\ \A d \in McpCalls : d # c => mcall'[d] = mcall[d]
         /\ mcall'[c].who = mcall[c].who /\ mcall'[c].process = mcall[c].process
         /\ \/ mcall'[c].at = "refresh" /\ mcall'[c].used = stored[KeyOf(c)].version
            \/ mcall'[c].at = "forget" /\ mcall'[c].used = 0
<1>1. ASSUME NEW r \in McpCallRecords, NEW at, NEW v
      PROVE  /\ [r EXCEPT !.at = at, !.used = v].at = at /\ [r EXCEPT !.at = at, !.used = v].used = v
             /\ [r EXCEPT !.at = at, !.used = v].who = r.who /\ [r EXCEPT !.at = at, !.used = v].process = r.process
  BY DEF McpCallRecords
<1>2. PICK at, v : /\ mcall' = [mcall EXCEPT ![c] = [mcall[c] EXCEPT !.at = at, !.used = v]]
                   /\ (at = "refresh" /\ v = stored[KeyOf(c)].version) \/ (at = "forget" /\ v = 0)
  BY LockTakes
<1>3. mcall[c] \in McpCallRecords /\ mcall'[c] = [mcall[c] EXCEPT !.at = at, !.used = v]
      /\ \A d \in McpCalls : d # c => mcall'[d] = mcall[d]
  BY <1>2 DEF McpCallsInv
<1>4. mcall'[c].at = at /\ mcall'[c].used = v /\ mcall'[c].who = mcall[c].who /\ mcall'[c].process = mcall[c].process
  BY <1>1, <1>3
<1> QED BY <1>2, <1>3, <1>4

\* The actions of a call.
McpCallStep(c) ==
  \/ \E p \in McpUsers, w \in Processes : AskToken(c, p, w)
  \/ LockRefresh(c) \/ PutRefreshed(c) \/ AfterRefusal(c) \/ ForgetRefused(c) \/ UseSession(c)
  \/ \E how \in {"unreached", "answered", "lost", "refused"} : AskProvider(c, how)
  \/ \E works \in BOOLEAN : SessionOpened(c, works)
  \/ \E how \in {"works", "errs", "breaks"} : CallTool(c, how)
  \/ TokenRejected(c)

\* A step of a call keeps its record, and its caller.
LEMMA McpCallsKept ==
  ASSUME McpCallsInv, TableInv, TokensInv, NEW c \in McpCalls, McpCallStep(c)
  PROVE  McpCallsInv'
<1> DEFINE Good(r) == /\ mcall' = [mcall EXCEPT ![c] = r]
                      /\ r.at # "idle" => r.who \in McpUsers
<1>1. ASSUME NEW r \in McpCallRecords, Good(r) PROVE McpCallsInv'
  BY <1>1 DEF McpCallsInv
<1>2. \E r \in McpCallRecords : Good(r)
  <2>0. mcall[c] \in McpCallRecords /\ (mcall[c].at # "idle" => mcall[c].who \in McpUsers)
    BY DEF McpCallsInv
  <2>k. mcall[c].at # "idle" => KeyOf(c) \in Keys BY KeysOfCalls
  <2>g. ASSUME NEW at \in Stages, mcall[c].at # "idle", Go(c, at) PROVE \E r \in McpCallRecords : Good(r)
    <3> DEFINE r == [mcall[c] EXCEPT !.at = at]
    <3>1. r \in McpCallRecords /\ mcall' = [mcall EXCEPT ![c] = r] /\ r.who = mcall[c].who
      BY <2>0, <2>g DEF Go, McpCallRecords, McpCallsInv
    <3> QED BY <3>1, <2>0, <2>g
  <2>e. ASSUME mcall[c].at # "idle", End(c) PROVE \E r \in McpCallRecords : Good(r)
    <3> DEFINE r == [NoCall EXCEPT !.who = mcall[c].who, !.at = "ended"]
    <3>1. mcall' = [mcall EXCEPT ![c] = r] BY <2>e DEF End, NoCall
    <3>2. r \in McpCallRecords /\ r.who = mcall[c].who BY <2>0, <2>e, NoCallUpdates, StagesAre, McpAssumption
    <3> HIDE DEF r
    <3> QED BY <3>1, <3>2, <2>0, <2>e
  <2>n. ASSUME mcall[c].at # "idle", Connect(c) PROVE \E r \in McpCallRecords : Good(r)
    <3> DEFINE r == [mcall[c] EXCEPT !.at = "connect", !.used = 0]
    <3>1. r \in McpCallRecords /\ mcall' = [mcall EXCEPT ![c] = r] /\ r.who = mcall[c].who
      <4>1. 0 \in 0..MaxToken BY McpAssumption
      <4> QED BY <4>1, <2>0, <2>n DEF Connect, McpCallRecords, McpCallsInv, Stages
    <3> HIDE DEF r
    <3> QED BY <3>1, <2>0, <2>n
  <2>v. \A k \in Keys : stored[k] # Absent => stored[k].version \in 0..MaxToken
    BY DEF TokensInv, TokenTypes, TokenSets
  <2>1. CASE \E p \in McpUsers, w \in Processes : AskToken(c, p, w)
    <3> PICK p \in McpUsers, w \in Processes : AskToken(c, p, w) BY <2>1
    <3> PICK at \in {"ended", "connect", "lock"} :
          \/ mcall' = [mcall EXCEPT ![c] = [NoCall EXCEPT !.who = p, !.at = at]]
          \/ mcall' = [mcall EXCEPT ![c] = [NoCall EXCEPT !.who = p, !.process = w, !.at = at]]
      BY DEF AskToken
    <3>1. at \in Stages BY StagesAre
    <3>2. CASE mcall' = [mcall EXCEPT ![c] = [NoCall EXCEPT !.who = p, !.at = at]]
      <4> DEFINE r == [NoCall EXCEPT !.who = p, !.at = at]
      <4>1. r \in McpCallRecords /\ r.who = p BY <3>1, NoCallUpdates
      <4> QED BY <3>2, <4>1
    <3>3. CASE mcall' = [mcall EXCEPT ![c] = [NoCall EXCEPT !.who = p, !.process = w, !.at = at]]
      <4> DEFINE r == [NoCall EXCEPT !.who = p, !.process = w, !.at = at]
      <4>1. r \in McpCallRecords /\ r.who = p BY <3>1, NoCallUpdates
      <4> QED BY <3>3, <4>1
    <3> QED BY <3>2, <3>3
  <2>2. CASE LockRefresh(c)
    <3>1. CASE End(c) \/ Connect(c)
      BY <3>1, <2>2, <2>e, <2>n DEF LockRefresh
    <3>2. CASE ~(End(c) \/ Connect(c))
      <4>1. PICK v \in 0..MaxToken, at \in {"refresh", "forget"} :
              mcall' = [mcall EXCEPT ![c] = [@ EXCEPT !.at = at, !.used = v]]
        <5>1. 0 \in 0..MaxToken /\ KeyOf(c) \in Keys BY <2>2, <2>k, McpAssumption DEF LockRefresh
        <5> QED BY <5>1, <3>2, <2>2, <2>v, LockTakes
      <4> DEFINE r == [mcall[c] EXCEPT !.at = at, !.used = v]
      <4>a. r \in McpCallRecords BY <2>0, StagesAre DEF McpCallRecords
      <4>b. r.who = mcall[c].who BY <2>0 DEF McpCallRecords
      <4>c. mcall' = [mcall EXCEPT ![c] = r] BY <4>1
      <4> HIDE DEF r
      <4> QED BY <4>a, <4>b, <4>c, <2>0, <2>2 DEF LockRefresh
    <3> QED BY <3>1, <3>2
  <2>3. CASE PutRefreshed(c) BY <2>3, <2>n DEF PutRefreshed
  <2>4. CASE AfterRefusal(c) BY <2>4, <2>g, <2>n, StagesAre DEF AfterRefusal
  <2>5. CASE ForgetRefused(c) BY <2>5, <2>e DEF ForgetRefused
  <2>6. CASE UseSession(c)
    <3>1. CASE Go(c, "opening") BY <3>1, <2>6, <2>g DEF UseSession, Stages
    <3>2. CASE ~Go(c, "opening")
      <4> DEFINE s == CHOOSE x \in Existing(KeyOf(c)) : TRUE
      <4>1. s \in Existing(KeyOf(c)) /\ mcall' = [mcall EXCEPT ![c] = [@ EXCEPT !.at = "call", !.session = s]]
        BY <3>2, <2>6 DEF UseSession
      <4>2. s \in 0..MaxSessions
        <5>1. PICK i \in DOMAIN conns : s = conns[i][2] BY <4>1 DEF Existing
        <5>2. conns[i] \in Keys \X (1..MaxSessions) BY <5>1 DEF TableInv
        <5>3. conns[i][2] \in 0..MaxSessions BY <5>2
        <5> QED BY <5>1, <5>3, Zenon
      <4> HIDE DEF s
      <4> DEFINE r == [mcall[c] EXCEPT !.at = "call", !.session = s]
      <4>a. r \in McpCallRecords BY <4>2, <2>0, StagesAre DEF McpCallRecords
      <4>b. r.who = mcall[c].who BY <2>0 DEF McpCallRecords
      <4>c. mcall' = [mcall EXCEPT ![c] = r] BY <4>1, <4>2
      <4> HIDE DEF r
      <4> QED BY <4>a, <4>b, <4>c, <2>0, <2>6 DEF UseSession
    <3> QED BY <3>1, <3>2
  <2>7. ASSUME NEW how, AskProvider(c, how) PROVE \E r \in McpCallRecords : Good(r)
    <3>1. CASE End(c) \/ Go(c, "refused") BY <3>1, <2>7, <2>e, <2>g, StagesAre DEF AskProvider
    <3>2. CASE ~(End(c) \/ Go(c, "refused"))
      <4>0. mcall[c].at # "idle" /\ minted[KeyOf(c)] \in 0..MaxToken
        BY <2>7, <2>k DEF AskProvider, TokensInv, TokenTypes
      <4> DEFINE v == minted[KeyOf(c)] + 1
      <4>2. v \in 0..MaxToken BY <2>7, <3>2, <4>0, McpAssumption DEF AskProvider
      <4>1. mcall' = [mcall EXCEPT ![c] = [@ EXCEPT !.at = "put", !.used = v]]
        BY <3>2, <2>7, <4>0, McpAssumption DEF AskProvider
      <4> HIDE DEF v
      <4> DEFINE r == [mcall[c] EXCEPT !.at = "put", !.used = v]
      <4>a. r \in McpCallRecords BY <4>2, <2>0, StagesAre DEF McpCallRecords
      <4>b. r.who = mcall[c].who BY <2>0 DEF McpCallRecords
      <4>c. mcall' = [mcall EXCEPT ![c] = r] BY <4>1
      <4> HIDE DEF r
      <4> QED BY <4>a, <4>b, <4>c, <4>0, <2>0
    <3> QED BY <3>1, <3>2
  <2>8. ASSUME NEW ok \in BOOLEAN, SessionOpened(c, ok) PROVE \E r \in McpCallRecords : Good(r)
    <3>1. CASE End(c) BY <3>1, <2>8, <2>e DEF SessionOpened
    <3>2. CASE ~End(c)
      <4> DEFINE s == opened + 1
      <4>2. s \in 0..MaxSessions BY <2>8, <3>2, McpAssumption DEF SessionOpened, TableInv
      <4>1. mcall' = [mcall EXCEPT ![c] = [@ EXCEPT !.at = "call", !.session = s]]
        BY <3>2, <2>8, McpAssumption DEF SessionOpened, TableInv
      <4> HIDE DEF s
      <4> DEFINE r == [mcall[c] EXCEPT !.at = "call", !.session = s]
      <4>a. r \in McpCallRecords BY <4>2, <2>0, StagesAre DEF McpCallRecords
      <4>b. r.who = mcall[c].who BY <2>0 DEF McpCallRecords
      <4>c. mcall' = [mcall EXCEPT ![c] = r] BY <4>1
      <4> HIDE DEF r
      <4> QED BY <4>a, <4>b, <4>c, <2>0, <2>8 DEF SessionOpened
    <3> QED BY <3>1, <3>2
  <2>9. ASSUME NEW how, CallTool(c, how) PROVE \E r \in McpCallRecords : Good(r)
    BY <2>9, <2>e DEF CallTool
  <2>10. CASE TokenRejected(c)
    <3>1. PICK v \in 0..MaxToken : mcall' = [mcall EXCEPT ![c] = [@ EXCEPT !.at = "lock", !.rejected = v]]
      BY <2>10, <2>k, <2>v DEF TokenRejected
    <3> DEFINE r == [mcall[c] EXCEPT !.at = "lock", !.rejected = v]
    <3>a. r \in McpCallRecords BY <2>0, StagesAre DEF McpCallRecords
    <3>b. r.who = mcall[c].who BY <2>0 DEF McpCallRecords
    <3>c. mcall' = [mcall EXCEPT ![c] = r] BY <3>1
    <3> HIDE DEF r
    <3> QED BY <3>a, <3>b, <3>c, <2>0, <2>10 DEF TokenRejected
  <2> QED BY <2>1, <2>2, <2>3, <2>4, <2>5, <2>6, <2>7, <2>8, <2>9, <2>10 DEF McpCallStep
<1> QED BY <1>1, <1>2

\* A callback that has ended is a callback still.
LEMMA CallbackEnds == CallbackOver \in CallbackRecords /\ CallbackOver.at = "done"
BY McpAssumption DEF CallbackOver, CallbackRecords

\* Taking the codes of the browser's callbacks, one after the other.
LEMMA CodesKept ==
  ASSUME CodesInv, TokensInv, McpNext
  PROVE  CodesInv'
<1> USE McpAssumption
<1>1. CASE UNCHANGED <<begun, pending, callback, exchanges>>
  BY <1>1 DEF CodesInv
<1>2. ASSUME NEW k \in Keys, Authorize(k) PROVE CodesInv'
  <2>1. /\ begun' = begun + 1 /\ begun' \in 0..MaxAuthorizations /\ begun \in 0..MaxAuthorizations
        /\ DOMAIN pending' = DOMAIN pending \cup {begun'}
        /\ \A a \in DOMAIN pending : a # begun' /\ pending'[a] = pending[a]
        /\ pending'[begun'] = k /\ UNCHANGED <<callback, exchanges>>
        /\ DOMAIN pending \subseteq 1..begun
    BY <1>2 DEF Authorize, CodesInv
  <2>2. pending' \in [DOMAIN pending' -> Keys]
    <3>1. pending' = [a \in DOMAIN pending \cup {begun'} |-> IF a = begun' THEN k ELSE pending[a]]
      BY <1>2 DEF Authorize
    <3> QED BY <3>1, <2>1 DEF CodesInv
  <2>3. DOMAIN pending' \subseteq 1..begun' BY <2>1
  <2>4. \A a \in 1..MaxAuthorizations : a \in DOMAIN pending' \/ a > begun' => exchanges'[a] = 0
    BY <2>1 DEF CodesInv
  <2>5. \A b \in Callbacks : callback'[b].at = "exchange" =>
          /\ callback'[b].key \in Keys /\ callback'[b].id \in (1..begun') \ DOMAIN pending'
          /\ exchanges'[callback'[b].id] = 0
    BY <2>1 DEF CodesInv
  <2> QED BY <2>1, <2>2, <2>3, <2>4, <2>5 DEF CodesInv
<1>3. ASSUME NEW b \in Callbacks, NEW a \in 1..begun, Complete(b, a) PROVE CodesInv'
  <2>1. /\ UNCHANGED <<begun, exchanges>> /\ DOMAIN pending' = DOMAIN pending \ {a}
        /\ pending' \in [DOMAIN pending' -> Keys] /\ DOMAIN pending' \subseteq 1..begun'
    BY <1>3 DEF Complete, TakePending, CodesInv
  <2>2. CASE a \in DOMAIN pending
    <3> DEFINE r == [callback[b] EXCEPT !.at = "exchange", !.key = pending[a], !.id = a]
    <3>1. callback' = [callback EXCEPT ![b] = r] BY <1>3, <2>2 DEF Complete
    <3>2. callback[b] \in CallbackRecords /\ pending[a] \in Keys /\ a \in 0..MaxAuthorizations
      BY <2>2 DEF CodesInv
    <3>3. r \in CallbackRecords /\ r.at = "exchange" /\ r.key = pending[a] /\ r.id = a
      BY <3>2 DEF CallbackRecords
    <3>4. exchanges[a] = 0 BY <2>2, <3>2 DEF CodesInv
    <3> HIDE DEF r
    <3>5. callback' \in [Callbacks -> CallbackRecords] BY <3>1, <3>3 DEF CodesInv
    <3>6. \A d \in Callbacks : callback'[d] = IF d = b THEN r ELSE callback[d]
      BY <3>1 DEF CodesInv
    <3>7. \A d \in Callbacks : callback'[d].at = "exchange" =>
            /\ callback'[d].key \in Keys /\ callback'[d].id \in (1..begun') \ DOMAIN pending'
            /\ exchanges'[callback'[d].id] = 0
      BY <2>1, <3>2, <3>3, <3>4, <3>6 DEF CodesInv
    <3>8. \A d, e \in Callbacks : callback'[d].at = "exchange" /\ callback'[e].at = "exchange" /\ d # e
            => callback'[d].id # callback'[e].id
      <4> SUFFICES ASSUME NEW d \in Callbacks, NEW e \in Callbacks, d # e,
                          callback'[d].at = "exchange", callback'[e].at = "exchange"
                   PROVE  callback'[d].id # callback'[e].id
        OBVIOUS
      <4>1. CASE d = b BY <4>1, <2>2, <3>3, <3>6 DEF CodesInv
      <4>2. CASE e = b BY <4>2, <2>2, <3>3, <3>6 DEF CodesInv
      <4> QED BY <4>1, <4>2, <3>6 DEF CodesInv
    <3>9. \A x \in 1..MaxAuthorizations : x \in DOMAIN pending' \/ x > begun' => exchanges'[x] = 0
      BY <2>1 DEF CodesInv
    <3> QED BY <2>1, <3>5, <3>7, <3>8, <3>9 DEF CodesInv
  <2>3. CASE a \notin DOMAIN pending
    <3>1. callback' = [callback EXCEPT ![b] = CallbackOver] BY <1>3, <2>3 DEF Complete
    <3>2. callback' \in [Callbacks -> CallbackRecords]
      BY <3>1, CallbackEnds DEF CodesInv
    <3>3. \A d \in Callbacks : callback'[d].at = "exchange" => callback'[d] = callback[d]
      BY <3>1, CallbackEnds DEF CodesInv
    <3> QED BY <2>1, <3>2, <3>3 DEF CodesInv
  <2> QED BY <2>2, <2>3
<1>4. ASSUME NEW b \in Callbacks, NEW ok \in BOOLEAN, NEW renewable \in BOOLEAN, Exchange(b, ok, renewable)
      PROVE  CodesInv'
  <2> DEFINE x == callback[b].id
  <2>1. /\ UNCHANGED <<begun, pending>> /\ exchanges' = [exchanges EXCEPT ![x] = @ + 1]
        /\ callback[b].at = "exchange" /\ x \in (1..begun) \ DOMAIN pending /\ exchanges[x] = 0
        /\ x \in 1..MaxAuthorizations /\ callback[b] \in CallbackRecords /\ callback[b].key \in Keys
    BY <1>4 DEF Exchange, CodesInv
  <2>2. PICK r \in CallbackRecords : callback' = [callback EXCEPT ![b] = r] /\ r.at # "exchange"
    <3>1. CASE callback' = [callback EXCEPT ![b] = CallbackOver] BY <3>1, CallbackEnds
    <3>2. CASE callback' # [callback EXCEPT ![b] = CallbackOver]
      <4> DEFINE v == minted[callback[b].key] + 1
                 r == [callback[b] EXCEPT !.at = "put", !.version = v, !.renewable = renewable]
      <4>1. v <= MaxToken /\ callback' = [callback EXCEPT ![b] = r] BY <1>4, <3>2 DEF Exchange
      <4>2. v \in 0..MaxToken BY <4>1, <2>1 DEF TokensInv, TokenTypes
      <4> HIDE DEF v
      <4>3. r \in CallbackRecords /\ r.at # "exchange" BY <2>1, <4>2 DEF CallbackRecords
      <4> QED BY <4>1, <4>3
    <3> QED BY <3>1, <3>2
  <2> HIDE DEF x
  <2>3. exchanges' \in [1..MaxAuthorizations -> {0, 1}]
        /\ \A a \in 1..MaxAuthorizations : a # x => exchanges'[a] = exchanges[a]
    BY <2>1 DEF CodesInv
  <2>4. /\ callback' \in [Callbacks -> CallbackRecords]
        /\ \A d \in Callbacks : callback'[d].at = "exchange" => d # b /\ callback'[d] = callback[d]
    BY <2>2 DEF CodesInv
  <2>5. \A a \in 1..MaxAuthorizations : a \in DOMAIN pending' \/ a > begun' => exchanges'[a] = 0
    BY <2>1, <2>3 DEF CodesInv
  <2>6. \A d \in Callbacks : callback'[d].at = "exchange" =>
          /\ callback'[d].key \in Keys /\ callback'[d].id \in (1..begun') \ DOMAIN pending'
          /\ exchanges'[callback'[d].id] = 0
    <3> SUFFICES ASSUME NEW d \in Callbacks, callback'[d].at = "exchange"
                 PROVE  /\ callback'[d].key \in Keys /\ callback'[d].id \in (1..begun') \ DOMAIN pending'
                        /\ exchanges'[callback'[d].id] = 0
      OBVIOUS
    <3>1. d # b /\ callback'[d] = callback[d] BY <2>4
    <3>2. callback[d].id # x /\ callback[d].id \in 1..MaxAuthorizations BY <2>1, <3>1 DEF CodesInv, x
    <3> QED BY <2>1, <2>3, <3>1, <3>2 DEF CodesInv
  <2> QED BY <2>1, <2>3, <2>4, <2>5, <2>6 DEF CodesInv
<1>5. ASSUME NEW b \in Callbacks, PutExchanged(b) PROVE CodesInv'
  <2>1. UNCHANGED <<begun, pending, exchanges>> /\ callback' = [callback EXCEPT ![b] = CallbackOver]
    BY <1>5 DEF PutExchanged
  <2>2. callback' \in [Callbacks -> CallbackRecords] BY <2>1, CallbackEnds DEF CodesInv
  <2>3. \A d \in Callbacks : callback'[d].at = "exchange" => callback'[d] = callback[d]
    BY <2>1, CallbackEnds DEF CodesInv
  <2> QED BY <2>1, <2>2, <2>3 DEF CodesInv
<1>6. ASSUME NEW c \in McpCalls, McpCallStep(c) PROVE CodesInv'
  BY <1>1, <1>6 DEF McpCallStep, AskToken, LockRefresh, PutRefreshed, AfterRefusal, ForgetRefused, UseSession,
     AskProvider, SessionOpened, CallTool, TokenRejected, authorizing
<1>7. ASSUME NEW k \in Keys, Ages(k) \/ \E w \in Processes, reached \in BOOLEAN : Revoke(k, w, reached)
      PROVE  CodesInv'
  BY <1>1, <1>7 DEF Ages, Revoke, authorizing
<1> QED BY <1>2, <1>3, <1>4, <1>5, <1>6, <1>7 DEF McpNext, McpCallStep

\* The table while no call opens a session or starts to use one.
LEMMA TableStays ==
  ASSUME TableInv, UNCHANGED <<conns, sessions, opened>>,
         \A d \in McpCalls : mcall'[d] = mcall[d] \/ mcall'[d].at \notin {"opening", "call"}
  PROVE  TableInv'
<1>1. \A d \in McpCalls : mcall'[d].at \in {"opening", "call"} =>
        mcall'[d] = mcall[d] /\ KeyOf(d)' = KeyOf(d)
  BY DEF KeyOf
<1>2. \A c \in McpCalls : mcall'[c].at = "opening" =>
        /\ \A s \in DOMAIN sessions' : sessions'[s] # KeyOf(c)'
        /\ \A d \in McpCalls : mcall'[d].at = "opening" /\ d # c => KeyOf(d)' # KeyOf(c)'
  BY <1>1 DEF TableInv
<1>3. \A c \in McpCalls : mcall'[c].at = "call" =>
        /\ mcall'[c].session \in 1..opened'
        /\ mcall'[c].session \in DOMAIN sessions' => sessions'[mcall'[c].session] = KeyOf(c)'
  BY <1>1 DEF TableInv
<1> QED BY <1>2, <1>3 DEF TableInv, OnePlace, Entries

\* The table when a key is taken out of it.
LEMMA TableDrops ==
  ASSUME TableInv, NEW k, conns' = Drop(conns, k), opened' = opened,
         sessions' = [s \in {x \in DOMAIN sessions : sessions[x] # k} |-> sessions[s]],
         \A d \in McpCalls : mcall'[d] = mcall[d] \/ mcall'[d].at \notin {"opening", "call"}
  PROVE  TableInv'
<1>1. \A d \in McpCalls : mcall'[d].at \in {"opening", "call"} =>
        mcall'[d] = mcall[d] /\ KeyOf(d)' = KeyOf(d)
  BY DEF KeyOf
<1>2. /\ conns' \in Seq(Keys \X (1..MaxSessions)) /\ OnePlace(conns')
      /\ Entries(conns') = {e \in Entries(conns) : e[1] # k} /\ Len(conns') <= Len(conns)
  <2>1. conns \in Seq(Keys \X (1..MaxSessions)) /\ OnePlace(conns) BY DEF TableInv
  <2> QED BY <2>1, DropTakesOut
<1>3. /\ DOMAIN sessions' = {x \in DOMAIN sessions : sessions[x] # k}
      /\ \A s \in DOMAIN sessions' : sessions'[s] = sessions[s] /\ s \in DOMAIN sessions
      /\ sessions' \in [DOMAIN sessions' -> Keys] /\ DOMAIN sessions' \subseteq 1..opened'
  BY DEF TableInv
<1>4. Entries(conns') = {<<sessions'[s], s>> : s \in DOMAIN sessions'}
  <2>1. Entries(conns) = {<<sessions[s], s>> : s \in DOMAIN sessions} BY DEF TableInv
  <2>2. ASSUME NEW e \in Entries(conns') PROVE \E s \in DOMAIN sessions' : e = <<sessions'[s], s>>
    <3>1. PICK s \in DOMAIN sessions : e = <<sessions[s], s>> BY <2>1, <2>2, <1>2
    <3>2. sessions[s] # k BY <3>1, <2>2, <1>2
    <3> QED BY <3>1, <3>2, <1>3
  <2>3. ASSUME NEW s \in DOMAIN sessions' PROVE <<sessions'[s], s>> \in Entries(conns')
    <3>1. s \in DOMAIN sessions /\ sessions'[s] = sessions[s] /\ sessions[s] # k BY <1>3
    <3>2. <<sessions[s], s>> \in Entries(conns) /\ <<sessions[s], s>>[1] # k BY <3>1, <2>1
    <3> QED BY <3>1, <3>2, <1>2
  <2> QED BY <2>2, <2>3
<1>5. Len(conns') <= MaxOAuthConnections
  <2>1. Len(conns) \in Nat /\ Len(conns') \in Nat /\ Len(conns) <= MaxOAuthConnections
    BY <1>2 DEF TableInv
  <2> QED BY <1>2, <2>1, McpAssumption
<1>6. \A c \in McpCalls : mcall'[c].at = "opening" =>
        /\ \A s \in DOMAIN sessions' : sessions'[s] # KeyOf(c)'
        /\ \A d \in McpCalls : mcall'[d].at = "opening" /\ d # c => KeyOf(d)' # KeyOf(c)'
  <2> SUFFICES ASSUME NEW c \in McpCalls, mcall'[c].at = "opening"
               PROVE  /\ \A s \in DOMAIN sessions' : sessions'[s] # KeyOf(c)'
                      /\ \A d \in McpCalls : mcall'[d].at = "opening" /\ d # c => KeyOf(d)' # KeyOf(c)'
    OBVIOUS
  <2>1. mcall[c].at = "opening" /\ KeyOf(c)' = KeyOf(c) BY <1>1
  <2>2. \A s \in DOMAIN sessions' : sessions'[s] # KeyOf(c)' BY <2>1, <1>3 DEF TableInv
  <2>3. \A d \in McpCalls : mcall'[d].at = "opening" /\ d # c => KeyOf(d)' # KeyOf(c)'
    BY <2>1, <1>1 DEF TableInv
  <2> QED BY <2>2, <2>3
<1>7. \A c \in McpCalls : mcall'[c].at = "call" =>
        /\ mcall'[c].session \in 1..opened'
        /\ mcall'[c].session \in DOMAIN sessions' => sessions'[mcall'[c].session] = KeyOf(c)'
  BY <1>1, <1>3 DEF TableInv
<1>8. OnePlace(conns)' /\ Entries(conns)' = {<<sessions'[s], s>> : s \in DOMAIN sessions'}
  BY <1>2, <1>4 DEF OnePlace, Entries
<1> QED BY <1>2, <1>3, <1>5, <1>6, <1>7, <1>8 DEF TableInv

\* Sessions in the table, by key.
LEMMA TableByKey ==
  ASSUME TableInv, NEW k
  PROVE  /\ Existing(k) = {s \in DOMAIN sessions : sessions[s] = k}
         /\ {x \in DOMAIN sessions : \A i \in DOMAIN conns : conns[i] # <<k, x>>}
              = {x \in DOMAIN sessions : sessions[x] # k}
         /\ DOMAIN sessions \ Existing(k) = {x \in DOMAIN sessions : sessions[x] # k}
         /\ \A s, t \in Existing(k) : s = t
<1>0. Entries(conns) = {<<sessions[s], s>> : s \in DOMAIN sessions} BY DEF TableInv
<1>1. \A i \in DOMAIN conns : \E s \in DOMAIN sessions : conns[i] = <<sessions[s], s>>
  <2> SUFFICES ASSUME NEW i \in DOMAIN conns PROVE \E s \in DOMAIN sessions : conns[i] = <<sessions[s], s>>
    OBVIOUS
  <2>1. conns[i] \in Entries(conns) BY DEF Entries
  <2> QED BY <2>1, <1>0
<1>2. \A s \in DOMAIN sessions : \E i \in DOMAIN conns : conns[i] = <<sessions[s], s>>
  <2> SUFFICES ASSUME NEW s \in DOMAIN sessions PROVE \E i \in DOMAIN conns : conns[i] = <<sessions[s], s>>
    OBVIOUS
  <2>1. <<sessions[s], s>> \in Entries(conns) BY <1>0
  <2> QED BY <2>1 DEF Entries
<1>3. Existing(k) = {s \in DOMAIN sessions : sessions[s] = k}
  <2>1. ASSUME NEW s \in Existing(k) PROVE s \in DOMAIN sessions /\ sessions[s] = k
    <3>1. PICK i \in DOMAIN conns : conns[i][1] = k /\ s = conns[i][2] BY <2>1 DEF Existing
    <3> QED BY <3>1, <1>1
  <2>2. ASSUME NEW s \in DOMAIN sessions, sessions[s] = k PROVE s \in Existing(k)
    <3>1. PICK i \in DOMAIN conns : conns[i] = <<sessions[s], s>> BY <1>2
    <3>2. conns[i][1] = k /\ conns[i][2] = s BY <3>1, <2>2
    <3> QED BY <3>2 DEF Existing
  <2> QED BY <2>1, <2>2
<1>4. ASSUME NEW x \in DOMAIN sessions
      PROVE  (\A i \in DOMAIN conns : conns[i] # <<k, x>>) <=> sessions[x] # k
  <2>1. PICK i \in DOMAIN conns : conns[i] = <<sessions[x], x>> BY <1>2
  <2>2. ASSUME NEW j \in DOMAIN conns, conns[j] = <<k, x>> PROVE sessions[x] = k
    BY <2>2, <1>1
  <2> QED BY <2>1, <2>2
<1>5. \A s, t \in Existing(k) : s = t
  <2> SUFFICES ASSUME NEW s \in DOMAIN sessions, NEW t \in DOMAIN sessions, sessions[s] = k, sessions[t] = k
               PROVE  s = t
    BY <1>3
  <2>1. PICK i \in DOMAIN conns : conns[i] = <<sessions[s], s>> BY <1>2
  <2>2. PICK j \in DOMAIN conns : conns[j] = <<sessions[t], t>> BY <1>2
  <2>3. conns[i][1] = conns[j][1] BY <2>1, <2>2
  <2>4. i = j BY <2>3 DEF TableInv, OnePlace
  <2> QED BY <2>1, <2>2, <2>4
<1> QED BY <1>3, <1>4, <1>5

\* A session that is there is used again, else a new one is opened.
LEMMA UseKeepsTable ==
  ASSUME McpCallsInv, TableInv, NEW c \in McpCalls, UseSession(c)
  PROVE  TableInv'
<1> DEFINE k == KeyOf(c)
<1>1. UNCHANGED <<sessions, opened>> /\ mcall[c].at = "connect" /\ k \in Keys
  BY KeysOfCalls DEF UseSession
<1>2. CASE Existing(k) # {}
  <2> DEFINE s == CHOOSE x \in Existing(k) : TRUE
  <2>1. /\ s \in Existing(k) /\ conns' = Append(Drop(conns, k), <<k, s>>)
        /\ mcall' = [mcall EXCEPT ![c] = [@ EXCEPT !.at = "call", !.session = s]]
    BY <1>2 DEF UseSession
  <2> HIDE DEF s
  <2>2. s \in DOMAIN sessions /\ sessions[s] = k BY <2>1, TableByKey
  <2>3. s \in 1..opened /\ s \in 1..MaxSessions
    <3>1. DOMAIN sessions \subseteq 1..opened /\ opened \in 0..MaxSessions BY DEF TableInv
    <3> QED BY <3>1, <2>2, McpAssumption
  <2> DEFINE q == Drop(conns, k)
             e == <<k, s>>
  <2>4. /\ q \in Seq(Keys \X (1..MaxSessions)) /\ OnePlace(q)
        /\ Entries(q) = {f \in Entries(conns) : f[1] # k}
        /\ (\E f \in Entries(conns) : f[1] = k) => Len(q) < Len(conns)
    <3>1. conns \in Seq(Keys \X (1..MaxSessions)) /\ OnePlace(conns) BY DEF TableInv
    <3> QED BY <3>1, DropTakesOut
  <2>5. e \in Entries(conns) /\ e[1] = k /\ e \in Keys \X (1..MaxSessions)
    <3>1. e \in Entries(conns) BY <2>2 DEF TableInv
    <3> QED BY <3>1, <2>3, <1>1
  <2> HIDE DEF q, e
  <2>6. /\ Append(q, e) \in Seq(Keys \X (1..MaxSessions)) /\ OnePlace(Append(q, e))
        /\ Entries(Append(q, e)) = Entries(q) \cup {e} /\ Len(Append(q, e)) = Len(q) + 1
    <3>1. \A f \in Entries(q) : f[1] # e[1] BY <2>4, <2>5
    <3> QED BY <2>4, <2>5, <3>1, AppendPutsIn
  <2>7. Entries(conns') = Entries(conns)
    <3>1. \A f \in Entries(conns) : f[1] = k => f = e
      <4> SUFFICES ASSUME NEW f \in Entries(conns), f[1] = k PROVE f = e OBVIOUS
      <4>1. PICK i \in DOMAIN conns : f = conns[i] BY DEF Entries
      <4>2. PICK j \in DOMAIN conns : e = conns[j] BY <2>5 DEF Entries
      <4>3. i = j BY <4>1, <4>2, <2>5 DEF TableInv, OnePlace
      <4> QED BY <4>1, <4>2, <4>3
    <3> QED BY <3>1, <2>1, <2>4, <2>5, <2>6 DEF q, e
  <2>8. conns' = Append(q, e) BY <2>1 DEF q, e
  <2>9. Len(conns') <= MaxOAuthConnections
    <3>1. Len(q) < Len(conns) /\ Len(conns) <= MaxOAuthConnections BY <2>4, <2>5 DEF TableInv
    <3>2. Len(q) \in Nat /\ Len(conns) \in Nat BY <2>4 DEF TableInv
    <3> QED BY <3>1, <3>2, <2>6, <2>8, McpAssumption
  <2>10. /\ \A d \in McpCalls : d # c => mcall'[d] = mcall[d]
         /\ mcall'[c].at = "call" /\ mcall'[c].session = s
         /\ \A d \in McpCalls : mcall'[d].who = mcall[d].who
    BY <2>1 DEF McpCallsInv, McpCallRecords
  <2>11. \A d \in McpCalls : KeyOf(d)' = KeyOf(d) BY <2>10 DEF KeyOf
  <2>12. \A d \in McpCalls : mcall'[d].at = "opening" =>
           /\ \A x \in DOMAIN sessions' : sessions'[x] # KeyOf(d)'
           /\ \A f \in McpCalls : mcall'[f].at = "opening" /\ f # d => KeyOf(f)' # KeyOf(d)'
    <3> SUFFICES ASSUME NEW d \in McpCalls, mcall'[d].at = "opening"
                 PROVE  /\ \A x \in DOMAIN sessions' : sessions'[x] # KeyOf(d)'
                        /\ \A f \in McpCalls : mcall'[f].at = "opening" /\ f # d => KeyOf(f)' # KeyOf(d)'
      OBVIOUS
    <3>1. d # c /\ mcall[d].at = "opening" BY <2>10
    <3>2. \A f \in McpCalls : mcall'[f].at = "opening" => mcall[f].at = "opening" BY <2>10
    <3> QED BY <3>1, <3>2, <2>11, <1>1 DEF TableInv
  <2>13. \A d \in McpCalls : mcall'[d].at = "call" =>
           /\ mcall'[d].session \in 1..opened'
           /\ mcall'[d].session \in DOMAIN sessions' => sessions'[mcall'[d].session] = KeyOf(d)'
    <3> SUFFICES ASSUME NEW d \in McpCalls, mcall'[d].at = "call"
                 PROVE  /\ mcall'[d].session \in 1..opened'
                        /\ mcall'[d].session \in DOMAIN sessions' => sessions'[mcall'[d].session] = KeyOf(d)'
      OBVIOUS
    <3>1. CASE d = c BY <3>1, <2>2, <2>3, <2>10, <2>11, <1>1
    <3>2. CASE d # c BY <3>2, <2>10, <2>11, <1>1 DEF TableInv
    <3> QED BY <3>1, <3>2
  <2>14. OnePlace(conns)' /\ Entries(conns)' = {<<sessions'[x], x>> : x \in DOMAIN sessions'}
    <3>1. OnePlace(conns)' BY <2>6, <2>8 DEF OnePlace
    <3>2. Entries(conns)' = Entries(conns) BY <2>7 DEF Entries
    <3>3. Entries(conns) = {<<sessions[x], x>> : x \in DOMAIN sessions} BY DEF TableInv
    <3> QED BY <3>1, <3>2, <3>3, <1>1
  <2>15. conns' \in Seq(Keys \X (1..MaxSessions)) BY <2>6, <2>8
  <2> QED BY <1>1, <2>9, <2>12, <2>13, <2>14, <2>15 DEF TableInv
<1>3. CASE Existing(k) = {}
  <2>1. /\ mcall' = [mcall EXCEPT ![c].at = "opening"] /\ UNCHANGED conns
        /\ \A d \in McpCalls : mcall[d].at = "opening" /\ d # c => KeyOf(d) # k
    BY <1>3 DEF UseSession, Go
  <2>2. /\ \A d \in McpCalls : d # c => mcall'[d] = mcall[d]
        /\ mcall'[c].at = "opening" /\ \A d \in McpCalls : mcall'[d].who = mcall[d].who
    BY <2>1 DEF McpCallsInv, McpCallRecords
  <2>3. \A d \in McpCalls : KeyOf(d)' = KeyOf(d) BY <2>2 DEF KeyOf
  <2>4. \A x \in DOMAIN sessions : sessions[x] # k BY <1>3, TableByKey
  <2>5. \A d \in McpCalls : mcall'[d].at = "opening" =>
           /\ \A x \in DOMAIN sessions' : sessions'[x] # KeyOf(d)'
           /\ \A f \in McpCalls : mcall'[f].at = "opening" /\ f # d => KeyOf(f)' # KeyOf(d)'
    <3> SUFFICES ASSUME NEW d \in McpCalls, mcall'[d].at = "opening"
                 PROVE  /\ \A x \in DOMAIN sessions' : sessions'[x] # KeyOf(d)'
                        /\ \A f \in McpCalls : mcall'[f].at = "opening" /\ f # d => KeyOf(f)' # KeyOf(d)'
      OBVIOUS
    <3>1. CASE d = c BY <3>1, <2>1, <2>2, <2>3, <2>4, <1>1
    <3>2. CASE d # c
      <4>1. mcall[d].at = "opening" BY <3>2, <2>2
      <4>2. \A x \in DOMAIN sessions' : sessions'[x] # KeyOf(d)' BY <4>1, <2>3, <1>1 DEF TableInv
      <4>3. \A f \in McpCalls : mcall'[f].at = "opening" /\ f # d => KeyOf(f) # KeyOf(d)
        BY <4>1, <3>2, <2>1, <2>2 DEF TableInv
      <4> QED BY <4>2, <4>3, <2>3
    <3> QED BY <3>1, <3>2
  <2>6. \A d \in McpCalls : mcall'[d].at = "call" =>
           /\ mcall'[d].session \in 1..opened'
           /\ mcall'[d].session \in DOMAIN sessions' => sessions'[mcall'[d].session] = KeyOf(d)'
    BY <2>2, <2>3, <1>1 DEF TableInv
  <2>7. OnePlace(conns)' /\ Entries(conns)' = {<<sessions'[x], x>> : x \in DOMAIN sessions'}
    BY <2>1, <1>1 DEF OnePlace, Entries, TableInv
  <2> QED BY <1>1, <2>1, <2>5, <2>6, <2>7 DEF TableInv
<1> QED BY <1>2, <1>3

\* A session that was opened gets its place, and the oldest is closed when there are too many.
LEMMA OpenKeepsTable ==
  ASSUME McpCallsInv, TableInv, NEW c \in McpCalls, NEW works \in BOOLEAN, SessionOpened(c, works)
  PROVE  TableInv'
<1> DEFINE k == KeyOf(c)
           s == opened + 1
           q == Append(conns, <<k, s>>)
           open == [x \in DOMAIN sessions \cup {s} |-> IF x = s THEN k ELSE sessions[x]]
<1>1. /\ mcall[c].at = "opening" /\ opened < MaxSessions /\ opened \in 0..MaxSessions /\ k \in Keys
      /\ s \in 1..MaxSessions /\ DOMAIN sessions \subseteq 1..opened
      /\ sessions \in [DOMAIN sessions -> Keys] /\ conns \in Seq(Keys \X (1..MaxSessions)) /\ OnePlace(conns)
      /\ Entries(conns) = {<<sessions[x], x>> : x \in DOMAIN sessions}
  BY KeysOfCalls, McpAssumption DEF SessionOpened, TableInv
<1>2. CASE ~works
  <2>1. End(c) /\ UNCHANGED <<conns, sessions, opened>> BY <1>2 DEF SessionOpened
  <2>2. \A d \in McpCalls : mcall'[d] = mcall[d] \/ mcall'[d].at \notin {"opening", "call"}
    BY <2>1, Goes, StagesAre
  <2> QED BY <2>1, <2>2, TableStays
<1>3. CASE works
  <2>1. /\ conns' = Evict(q, open)[1] /\ sessions' = Evict(q, open)[2] /\ opened' = s
        /\ mcall' = [mcall EXCEPT ![c] = [@ EXCEPT !.at = "call", !.session = s]]
    BY <1>3 DEF SessionOpened
  <2>2. \A x \in DOMAIN sessions : x # s /\ sessions[x] # k BY <1>1 DEF TableInv
  <2>3. /\ q \in Seq(Keys \X (1..MaxSessions)) /\ OnePlace(q)
        /\ Entries(q) = Entries(conns) \cup {<<k, s>>} /\ Len(q) = Len(conns) + 1
    <3>1. <<k, s>> \in Keys \X (1..MaxSessions) BY <1>1
    <3>2. \A f \in Entries(conns) : f[1] # <<k, s>>[1]
      <4> SUFFICES ASSUME NEW f \in Entries(conns) PROVE f[1] # k OBVIOUS
      <4>1. PICK x \in DOMAIN sessions : f = <<sessions[x], x>> BY <1>1
      <4> QED BY <4>1, <2>2
    <3> QED BY <3>1, <3>2, <1>1, AppendPutsIn
  <2>4. /\ DOMAIN open = DOMAIN sessions \cup {s} /\ open[s] = k
        /\ \A x \in DOMAIN sessions : open[x] = sessions[x]
        /\ open \in [DOMAIN open -> Keys] /\ DOMAIN open \subseteq 1..s
    BY <1>1, <2>2
  <2> HIDE DEF q, open
  <2>5. Entries(q) = {<<open[x], x>> : x \in DOMAIN open}
    <3>1. ASSUME NEW e \in Entries(q) PROVE \E x \in DOMAIN open : e = <<open[x], x>>
      <4>1. CASE e = <<k, s>> BY <4>1, <2>4
      <4>2. CASE e \in Entries(conns)
        <5>1. PICK x \in DOMAIN sessions : e = <<sessions[x], x>> BY <4>2, <1>1
        <5> QED BY <5>1, <2>4
      <4> QED BY <4>1, <4>2, <2>3
    <3>2. ASSUME NEW x \in DOMAIN open PROVE <<open[x], x>> \in Entries(q)
      <4>1. CASE x = s BY <4>1, <2>3, <2>4
      <4>2. CASE x \in DOMAIN sessions
        <5>1. <<sessions[x], x>> \in Entries(conns) BY <4>2, <1>1
        <5> QED BY <5>1, <4>2, <2>3, <2>4
      <4> QED BY <4>1, <4>2, <2>4
    <3> QED BY <3>1, <3>2
  <2>6. /\ conns' \in Seq(Keys \X (1..MaxSessions)) /\ OnePlace(conns') /\ Len(conns') <= MaxOAuthConnections
        /\ Entries(conns') = {<<sessions'[x], x>> : x \in DOMAIN sessions'}
        /\ sessions' \in [DOMAIN sessions' -> Keys] /\ DOMAIN sessions' \subseteq DOMAIN open
        /\ \A x \in DOMAIN sessions' : sessions'[x] = open[x]
    <3>1. CASE Len(q) <= MaxOAuthConnections
      <4>1. conns' = q /\ sessions' = open BY <3>1, <2>1 DEF Evict
      <4> QED BY <4>1, <3>1, <2>3, <2>4, <2>5
    <3>2. CASE ~(Len(q) <= MaxOAuthConnections)
      <4>1. conns' = Tail(q) /\ sessions' = [x \in DOMAIN open \ {Head(q)[2]} |-> open[x]]
        BY <3>2, <2>1 DEF Evict
      <4>2. q # <<>> BY <2>3, <1>1
      <4>3. /\ Tail(q) \in Seq(Keys \X (1..MaxSessions)) /\ OnePlace(Tail(q)) /\ Head(q) \in Entries(q)
            /\ Entries(Tail(q)) = Entries(q) \ {Head(q)} /\ Len(Tail(q)) = Len(q) - 1
        BY <2>3, <4>2, TailTakesFirst
      <4>4. Len(Tail(q)) <= MaxOAuthConnections
        <5>1. Len(conns) \in Nat /\ Len(conns) <= MaxOAuthConnections BY <1>1 DEF TableInv
        <5> QED BY <5>1, <4>3, <2>3, McpAssumption
      <4>5. PICK h \in DOMAIN open : Head(q) = <<open[h], h>> BY <4>3, <2>5
      <4>6. DOMAIN sessions' = DOMAIN open \ {h} /\ \A x \in DOMAIN sessions' : sessions'[x] = open[x]
        BY <4>1, <4>5
      <4>7. Entries(Tail(q)) = {<<open[x], x>> : x \in DOMAIN open \ {h}}
        <5>1. ASSUME NEW e \in Entries(Tail(q)) PROVE \E x \in DOMAIN open \ {h} : e = <<open[x], x>>
          <6>1. PICK x \in DOMAIN open : e = <<open[x], x>> /\ e # Head(q) BY <4>3, <2>5
          <6> QED BY <6>1, <4>5
        <5>2. ASSUME NEW x \in DOMAIN open \ {h} PROVE <<open[x], x>> \in Entries(Tail(q))
          <6>1. <<open[x], x>> \in Entries(q) /\ <<open[x], x>> # <<open[h], h>> BY <2>5
          <6> QED BY <6>1, <4>3, <4>5
        <5> QED BY <5>1, <5>2
      <4>8. {<<open[x], x>> : x \in DOMAIN open \ {h}} = {<<sessions'[x], x>> : x \in DOMAIN sessions'}
        BY <4>6
      <4>9. sessions' \in [DOMAIN sessions' -> Keys] BY <4>1, <4>6, <2>4
      <4> QED BY <4>1, <4>3, <4>4, <4>6, <4>7, <4>8, <4>9
    <3> QED BY <3>1, <3>2
  <2>7. /\ \A d \in McpCalls : d # c => mcall'[d] = mcall[d]
        /\ mcall'[c].at = "call" /\ mcall'[c].session = s
        /\ \A d \in McpCalls : mcall'[d].who = mcall[d].who
    BY <2>1 DEF McpCallsInv, McpCallRecords
  <2>8. \A d \in McpCalls : KeyOf(d)' = KeyOf(d) BY <2>7 DEF KeyOf
  <2>9. \A d \in McpCalls : mcall'[d].at = "opening" =>
           /\ \A x \in DOMAIN sessions' : sessions'[x] # KeyOf(d)'
           /\ \A f \in McpCalls : mcall'[f].at = "opening" /\ f # d => KeyOf(f)' # KeyOf(d)'
    <3> SUFFICES ASSUME NEW d \in McpCalls, mcall'[d].at = "opening"
                 PROVE  /\ \A x \in DOMAIN sessions' : sessions'[x] # KeyOf(d)'
                        /\ \A f \in McpCalls : mcall'[f].at = "opening" /\ f # d => KeyOf(f)' # KeyOf(d)'
      OBVIOUS
    <3>1. d # c /\ mcall[d].at = "opening" BY <2>7
    <3>2. KeyOf(d) # k /\ \A x \in DOMAIN sessions : sessions[x] # KeyOf(d) BY <3>1, <1>1 DEF TableInv
    <3>3. \A x \in DOMAIN sessions' : sessions'[x] # KeyOf(d)' BY <3>2, <2>4, <2>6, <2>8
    <3>4. \A f \in McpCalls : mcall'[f].at = "opening" /\ f # d => mcall[f].at = "opening" /\ f # d
      BY <2>7
    <3> QED BY <3>1, <3>3, <3>4, <2>8 DEF TableInv
  <2>10. \A d \in McpCalls : mcall'[d].at = "call" =>
           /\ mcall'[d].session \in 1..opened'
           /\ mcall'[d].session \in DOMAIN sessions' => sessions'[mcall'[d].session] = KeyOf(d)'
    <3> SUFFICES ASSUME NEW d \in McpCalls, mcall'[d].at = "call"
                 PROVE  /\ mcall'[d].session \in 1..opened'
                        /\ mcall'[d].session \in DOMAIN sessions' => sessions'[mcall'[d].session] = KeyOf(d)'
      OBVIOUS
    <3>1. CASE d = c
      <4>1. s \in 1..s BY <1>1
      <4> QED BY <4>1, <3>1, <2>1, <2>4, <2>6, <2>7, <2>8
    <3>2. CASE d # c
      <4>1. mcall[d].at = "call" /\ mcall'[d] = mcall[d] BY <3>2, <2>7
      <4>2. /\ mcall[d].session \in 1..opened
            /\ mcall[d].session \in DOMAIN sessions => sessions[mcall[d].session] = KeyOf(d)
        BY <4>1 DEF TableInv
      <4>3. mcall[d].session # s /\ mcall[d].session \in 1..s BY <4>2, <1>1
      <4> QED BY <4>1, <4>2, <4>3, <2>1, <2>4, <2>6, <2>8
    <3> QED BY <3>1, <3>2
  <2>11. OnePlace(conns)' /\ Entries(conns)' = {<<sessions'[x], x>> : x \in DOMAIN sessions'}
    BY <2>6 DEF OnePlace, Entries
  <2>12. opened' \in 0..MaxSessions /\ DOMAIN sessions' \subseteq 1..opened' BY <1>1, <2>1, <2>4, <2>6
  <2> QED BY <2>6, <2>9, <2>10, <2>11, <2>12 DEF TableInv
<1> QED BY <1>2, <1>3

\* No other step takes a session from a key but by dropping the key.
LEMMA TableKept ==
  ASSUME McpCallsInv, TableInv, McpNext
  PROVE  TableInv'
<1>1. ASSUME NEW k, NEW w, Forget(k, w), UNCHANGED opened,
             \A d \in McpCalls : mcall'[d] = mcall[d] \/ mcall'[d].at \notin {"opening", "call"}
      PROVE  TableInv'
  <2>1. CASE w = Here
    <3>1. sessions' = [s \in {x \in DOMAIN sessions : sessions[x] # k} |-> sessions[s]] /\ conns' = Drop(conns, k)
      BY <1>1, <2>1, TableByKey DEF Forget
    <3> QED BY <1>1, <3>1, TableDrops
  <2>2. CASE w # Here BY <1>1, <2>2, TableStays DEF Forget
  <2> QED BY <2>1, <2>2
<1>2. ASSUME NEW c \in McpCalls, End(c) \/ Connect(c) \/ \E at \in Stages \ {"opening", "call"} : Go(c, at)
      PROVE  \A d \in McpCalls : mcall'[d] = mcall[d] \/ mcall'[d].at \notin {"opening", "call"}
  BY <1>2, Goes, StagesAre
<1>3. ASSUME NEW c \in McpCalls, McpCallStep(c) PROVE TableInv'
  <2>1. CASE \E p \in McpUsers, w \in Processes : AskToken(c, p, w)
    <3>1. \A d \in McpCalls : mcall'[d] = mcall[d] \/ mcall'[d].at \notin {"opening", "call"}
      BY <2>1 DEF AskToken, NoCall, McpCallsInv, McpCallRecords
    <3> QED BY <2>1, <3>1, TableStays DEF AskToken
  <2>2. CASE LockRefresh(c)
    <3>1. \A d \in McpCalls : mcall'[d] = mcall[d] \/ mcall'[d].at \notin {"opening", "call"}
      <4>1. CASE End(c) \/ Connect(c) BY <4>1, <1>2
      <4>2. CASE ~(End(c) \/ Connect(c))
        <5>1. \A d \in McpCalls : d # c => mcall'[d] = mcall[d] BY <2>2, <4>2, LockMoves
        <5>2. mcall'[c].at = "refresh" \/ mcall'[c].at = "forget" BY <2>2, <4>2, LockMoves
        <5> QED BY <5>1, <5>2
      <4> QED BY <4>1, <4>2
    <3> QED BY <2>2, <3>1, TableStays DEF LockRefresh
  <2>3. CASE PutRefreshed(c) BY <2>3, <1>2, TableStays DEF PutRefreshed
  <2>4. CASE AfterRefusal(c)
    <3>1. Connect(c) \/ Go(c, "forget") BY <2>4 DEF AfterRefusal
    <3>2. \A d \in McpCalls : mcall'[d] = mcall[d] \/ mcall'[d].at \notin {"opening", "call"}
      BY <3>1, <1>2, StagesAre
    <3> QED BY <2>4, <3>2, TableStays DEF AfterRefusal
  <2>5. CASE ForgetRefused(c) BY <2>5, <1>1, <1>2 DEF ForgetRefused
  <2>6. CASE UseSession(c) BY <2>6, UseKeepsTable
  <2>7. ASSUME NEW how, AskProvider(c, how) PROVE TableInv'
    <3>1. \A d \in McpCalls : mcall'[d] = mcall[d] \/ mcall'[d].at \notin {"opening", "call"}
      <4>1. CASE End(c) \/ Go(c, "refused") BY <4>1, <1>2, StagesAre
      <4>2. CASE ~(End(c) \/ Go(c, "refused")) BY <2>7, <4>2 DEF AskProvider, McpCallsInv, McpCallRecords
      <4> QED BY <4>1, <4>2
    <3> QED BY <2>7, <3>1, TableStays DEF AskProvider
  <2>8. ASSUME NEW works \in BOOLEAN, SessionOpened(c, works) PROVE TableInv' BY <2>8, OpenKeepsTable
  <2>9. ASSUME NEW how, CallTool(c, how) PROVE TableInv'
    <3>1. End(c) /\ UNCHANGED opened BY <2>9 DEF CallTool
    <3>2. CASE UNCHANGED <<conns, sessions>> BY <3>1, <3>2, <1>2, TableStays
    <3>3. CASE /\ conns' = Drop(conns, KeyOf(c))
               /\ sessions' = [s \in DOMAIN sessions \ Existing(KeyOf(c)) |-> sessions[s]]
      <4>1. sessions' = [s \in {x \in DOMAIN sessions : sessions[x] # KeyOf(c)} |-> sessions[s]]
        BY <3>3, TableByKey
      <4> QED BY <3>1, <3>3, <4>1, <1>2, TableDrops
    <3> QED BY <2>9, <3>2, <3>3 DEF CallTool
  <2>10. CASE TokenRejected(c)
    <3>1. \A d \in McpCalls : mcall'[d] = mcall[d] \/ mcall'[d].at \notin {"opening", "call"}
      BY <2>10 DEF TokenRejected, McpCallsInv, McpCallRecords
    <3> QED BY <2>10, <3>1, TableStays DEF TokenRejected
  <2> QED BY <1>3, <2>1, <2>2, <2>3, <2>4, <2>5, <2>6, <2>7, <2>8, <2>9, <2>10 DEF McpCallStep
<1>4. ASSUME NEW k \in Keys, NEW w \in Processes, NEW reached \in BOOLEAN, Revoke(k, w, reached) PROVE TableInv'
  BY <1>4, <1>1 DEF Revoke
<1>5. ASSUME UNCHANGED <<conns, sessions, opened, mcall>> PROVE TableInv'
  BY <1>5, TableStays
<1>6. ASSUME NEW k \in Keys, Authorize(k) \/ Ages(k) PROVE TableInv' BY <1>5, <1>6 DEF Authorize, Ages
<1>7. ASSUME NEW b \in Callbacks,
             \/ \E a \in 1..begun : Complete(b, a)
             \/ PutExchanged(b) \/ \E ok, renewable \in BOOLEAN : Exchange(b, ok, renewable)
      PROVE  TableInv'
  BY <1>5, <1>7 DEF Complete, PutExchanged, Exchange
<1> QED BY <1>3, <1>4, <1>6, <1>7 DEF McpNext, McpCallStep

\* The tokens while no refresh begins or goes on.
LEMMA TokensStay ==
  ASSUME TokensInv, UNCHANGED <<stored, grants, minted, refreshing, disowned, spent>>,
         \A d \in McpCalls : mcall'[d] = mcall[d]
                             \/ (mcall'[d].at \notin Refreshing /\ mcall[d].at # "put"),
         \A b \in Callbacks : callback'[b] = callback[b] \/ callback'[b].at # "put"
  PROVE  TokensInv'
<1> USE DEF Refreshing
<1>1. \A d \in McpCalls : mcall'[d] = mcall[d] => KeyOf(d)' = KeyOf(d) /\ Lock(d)' = Lock(d)
  BY DEF KeyOf, Lock
<1>2. \A d \in McpCalls : mcall'[d].at \in Refreshing => mcall'[d] = mcall[d] OBVIOUS
<1>3. \A k, v : Unseen(k, v) => Unseen(k, v)' BY <1>1, <1>2 DEF Unseen
<1>4. ASSUME NEW d \in McpCalls PROVE CallToken(d)'
  <2>1. CASE mcall'[d] = mcall[d]
    <3>1. CallToken(d) BY DEF TokensInv
    <3>2. Elsewhere(d)' <=> Elsewhere(d) BY <2>1, <1>1 DEF Elsewhere
    <3> QED BY <2>1, <3>1, <3>2, <1>1, <1>2, <1>3 DEF CallToken
  <2>2. CASE mcall'[d] # mcall[d] BY <2>2 DEF CallToken
  <2> QED BY <2>1, <2>2
<1>5. ASSUME NEW k \in Keys PROVE StoredToken(k)'
  <2>1. StoredToken(k) BY DEF TokensInv
  <2>2. \A l : Putting(l) => Putting(l)' BY <1>1 DEF Putting
  <2> QED BY <2>1, <2>2 DEF StoredToken
<1>6. ASSUME NEW b \in Callbacks PROVE CallbackToken(b)'
  <2>1. CallbackToken(b) BY DEF TokensInv
  <2> QED BY <2>1, <1>1, <1>2, <1>3 DEF CallbackToken
<1>7. TokenTypes' BY DEF TokensInv, TokenTypes
<1> QED BY <1>4, <1>5, <1>6, <1>7 DEF TokensInv

\* One call moves, under the refresh lock or to it: what it leaves of the account of all the others.
LEMMA CallMoves ==
  ASSUME McpCallsInv, TokensInv, NEW c \in McpCalls, NEW k \in Keys, NEW p \in Processes,
         k = KeyOf(c), p = mcall[c].process, KeyOf(c)' = k, callback' = callback,
         mcall[c].at \in Refreshing \/ refreshing[<<p, k>>] = Free,
         \A d \in McpCalls : d # c => mcall'[d] = mcall[d],
         \A l \in Processes \X Keys : l # <<p, k>> => refreshing'[l] = refreshing[l],
         \A j \in Keys : /\ 1..minted[j] \subseteq 1..minted'[j] /\ disowned[j] \subseteq disowned'[j]
                         /\ spent[j] \subseteq spent'[j],
         \A j \in Keys : \A e \in spent'[j] : e \in spent[j] \/
           /\ j = k /\ mcall[c].at = "refresh" /\ e[1] = mcall[c].used
           /\ e[2] = Nowhere \/ (e[2] = p /\ mcall'[c].at = "put" /\ mcall'[c].process = p),
         \A j \in Keys : stored'[j] = stored[j] \/ stored'[j] = Absent
                         \/ (j = k /\ mcall[c].at = "put"),
         mcall[c].at = "put" => stored'[k].version = mcall[c].used,
         mcall'[c].at = "refresh" => stored[k] # Absent /\ mcall'[c].used = stored[k].version,
         mcall'[c].at = "put" => mcall'[c].used \notin 1..minted[k]
  PROVE  /\ \A d \in McpCalls : d # c => CallToken(d)'
         /\ \A j \in Keys : StoredToken(j)'
         /\ \A b \in Callbacks : CallbackToken(b)'
<1> USE DEF Refreshing
<1>1. /\ \A d \in McpCalls : KeyOf(d)' = KeyOf(d) /\ (d # c => Lock(d)' = Lock(d))
      /\ CallToken(c) /\ Lock(c) = <<p, k>>
      /\ \A d \in McpCalls : mcall[d].at # "idle" => KeyOf(d) \in Keys /\ mcall[d].process \in Processes
  BY KeysOfCalls DEF KeyOf, Lock, TokensInv, McpCallsInv, McpCallRecords
<1>2. ASSUME NEW d \in McpCalls, d # c, mcall[d].at \in Refreshing
      PROVE  Lock(d) # <<p, k>> /\ (KeyOf(d) = k => mcall[d].process # p)
  <2>1. refreshing[Lock(d)] = d BY <1>2 DEF TokensInv, CallToken
  <2> QED BY <2>1, <1>1, <1>2, McpAssumption DEF CallToken, Lock
<1>3. ASSUME NEW j \in Keys, NEW v, Unseen(j, v), j = k /\ mcall[c].at = "put" => mcall[c].used # v
      PROVE  Unseen(j, v)'
  <2>1. v \in 1..minted'[j] BY <1>3 DEF Unseen
  <2>2. \A e \in spent'[j] : e[1] # v BY <1>1, <1>3 DEF Unseen
  <2>3. stored'[j] # Absent => stored'[j].version # v BY <1>3 DEF Unseen
  <2>4. ASSUME NEW d \in McpCalls, mcall'[d].at = "refresh", KeyOf(d) = j PROVE mcall'[d].used # v
    <3>1. CASE d = c BY <2>4, <3>1, <1>3 DEF Unseen
    <3>2. CASE d # c BY <2>4, <3>2, <1>3 DEF Unseen
    <3> QED BY <3>1, <3>2
  <2> QED BY <2>1, <2>2, <2>3, <2>4, <1>1 DEF Unseen
<1>4. ASSUME NEW j \in Keys, NEW v, Unseen(j, v), NEW d \in McpCalls, mcall'[d].at = "put", KeyOf(d) = j,
             mcall[d].at = "put" => mcall[d].used # v
      PROVE  mcall'[d].used # v
  BY <1>4 DEF Unseen
<1>5. ASSUME NEW d \in McpCalls, d # c PROVE CallToken(d)'
  <2>1. mcall'[d] = mcall[d] /\ Lock(d)' = Lock(d) /\ KeyOf(d)' = KeyOf(d) /\ CallToken(d)
    BY <1>1, <1>5 DEF TokensInv
  <2>2. CASE mcall[d].at \notin Refreshing BY <2>1, <2>2 DEF CallToken
  <2>3. CASE mcall[d].at \in Refreshing
    <3>1. /\ Lock(d) # <<p, k>> /\ Lock(d) = <<mcall[d].process, KeyOf(d)>>
          /\ KeyOf(d) \in Keys /\ mcall[d].process \in Processes /\ (KeyOf(d) = k => mcall[d].process # p)
      BY <2>3, <1>1, <1>2, <1>5 DEF Lock
    <3>2. refreshing'[Lock(d)] = d BY <2>1, <2>3, <3>1 DEF CallToken
    <3>3. mcall[d].at = "refresh" => /\ mcall[d].used \in 1..minted'[KeyOf(d)]
                                     /\ <<mcall[d].used, mcall[d].process>> \notin spent'[KeyOf(d)]
      BY <2>1, <3>1, McpAssumption DEF CallToken
    <3>4. Elsewhere(d) => Elsewhere(d)' BY <2>1, <3>1 DEF Elsewhere
    <3>5. mcall[d].at = "put" =>
            /\ Unseen(KeyOf(d), mcall[d].used)'
            /\ \A f \in McpCalls : mcall'[f].at = "put" /\ KeyOf(f) = KeyOf(d) /\ f # d => mcall'[f].used # mcall[d].used
      <4> SUFFICES ASSUME mcall[d].at = "put"
                   PROVE  /\ Unseen(KeyOf(d), mcall[d].used)'
                          /\ \A f \in McpCalls : mcall'[f].at = "put" /\ KeyOf(f) = KeyOf(d) /\ f # d
                                                   => mcall'[f].used # mcall[d].used
        OBVIOUS
      <4>1. Unseen(KeyOf(d), mcall[d].used) BY <2>1 DEF CallToken
      <4>2. \A f \in McpCalls : mcall[f].at = "put" /\ KeyOf(f) = KeyOf(d) /\ f # d => mcall[f].used # mcall[d].used
        BY <2>1 DEF CallToken
      <4>3. Unseen(KeyOf(d), mcall[d].used)' BY <4>1, <4>2, <3>1, <2>1, <1>3, <1>5
      <4> QED BY <4>1, <4>2, <4>3, <3>1, <1>4
    <3> QED BY <2>1, <3>1, <3>2, <3>3, <3>4, <3>5, <1>1 DEF CallToken
  <2> QED BY <2>2, <2>3
<1>6. ASSUME NEW j \in Keys PROVE StoredToken(j)'
  <2> SUFFICES ASSUME stored'[j] # Absent, NEW w \in Processes, <<stored'[j].version, w>> \in spent'[j]
               PROVE  Putting(<<w, j>>)'
    BY DEF StoredToken
  <2>1. ~(j = k /\ mcall[c].at = "put")
    <3> SUFFICES ASSUME j = k, mcall[c].at = "put" PROVE FALSE OBVIOUS
    <3>1. Unseen(k, mcall[c].used) /\ stored'[j].version = mcall[c].used BY <1>1 DEF CallToken
    <3>2. <<mcall[c].used, w>> \in spent[k] BY <3>1
    <3> QED BY <3>1, <3>2 DEF Unseen
  <2>2. stored'[j] = stored[j] /\ StoredToken(j) BY <2>1 DEF TokensInv
  <2>3. CASE <<stored[j].version, w>> \in spent[j]
    <3>1. PICK f \in McpCalls : mcall[f].at = "put" /\ Lock(f) = <<w, j>> BY <2>2, <2>3 DEF StoredToken, Putting
    <3>2. f # c BY <3>1, <2>1, <1>1
    <3> QED BY <3>1, <3>2, <1>1 DEF Putting
  <2>4. CASE <<stored[j].version, w>> \notin spent[j]
    <3>1. j = k /\ w = p /\ mcall'[c].at = "put" /\ mcall'[c].process = p BY <2>2, <2>4, McpAssumption
    <3>2. Lock(c)' = <<w, j>> BY <3>1 DEF Lock
    <3> QED BY <3>1, <3>2 DEF Putting
  <2> QED BY <2>3, <2>4
<1>7. ASSUME NEW b \in Callbacks PROVE CallbackToken(b)'
  <2> SUFFICES ASSUME callback[b].at = "put"
               PROVE  /\ callback[b].key \in Keys /\ Unseen(callback[b].key, callback[b].version)'
                      /\ \A d \in McpCalls : mcall'[d].at = "put" /\ KeyOf(d) = callback[b].key
                                               => mcall'[d].used # callback[b].version
                      /\ \A d \in Callbacks : callback[d].at = "put" /\ callback[d].key = callback[b].key /\ d # b
                                               => callback[d].version # callback[b].version
    BY <1>1 DEF CallbackToken, Unseen
  <2>1. CallbackToken(b) BY DEF TokensInv
  <2> QED BY <2>1, <1>3, <1>4 DEF CallbackToken
<1> QED BY <1>5, <1>6, <1>7

\* A call takes the refresh lock, with the stored version, or to forget what has no refresh token.
LEMMA LockKeepsTokens ==
  ASSUME McpCallsInv, TokensInv, NEW c \in McpCalls, LockRefresh(c)
  PROVE  TokensInv'
<1>0. PICK k \in Keys, p \in Processes : k = KeyOf(c) /\ p = mcall[c].process /\ Lock(c) = <<p, k>>
  BY KeysOfCalls DEF LockRefresh, Lock, McpCallsInv, McpCallRecords
<1>1. /\ mcall[c].at = "lock" /\ refreshing[<<p, k>>] = Free /\ mcall[c] \in McpCallRecords
      /\ UNCHANGED <<stored, grants, minted, disowned, spent, callback>>
  BY <1>0 DEF LockRefresh, MayRefresh, authorizing, McpCallsInv
<1>2. CASE UNCHANGED refreshing /\ (End(c) \/ Connect(c))
  <2>1. \A d \in McpCalls : mcall'[d] = mcall[d] \/ (mcall'[d].at \notin Refreshing /\ mcall[d].at # "put")
    BY <1>1, <1>2, Goes, StagesAre DEF Refreshing
  <2> QED BY <1>1, <1>2, <2>1, TokensStay
<1>3. CASE ~(UNCHANGED refreshing /\ (End(c) \/ Connect(c)))
  <2>1. stored[k] # Absent /\ refreshing' = [refreshing EXCEPT ![<<p, k>>] = c]
    BY <1>0, <1>3, LockTakes
  <2>2. /\ \A d \in McpCalls : d # c => mcall'[d] = mcall[d]
        /\ mcall'[c].who = mcall[c].who /\ mcall'[c].process = p
        /\ \/ mcall'[c].at = "refresh" /\ mcall'[c].used = stored[k].version
           \/ mcall'[c].at = "forget" /\ mcall'[c].used = 0
    BY <1>0, <1>3, LockMoves
  <2>3. KeyOf(c)' = k /\ Lock(c)' = <<p, k>> BY <1>0, <2>2 DEF KeyOf, Lock
  <2>4. /\ refreshing' \in [Processes \X Keys -> McpCalls \cup {Free}] /\ refreshing'[<<p, k>>] = c
        /\ \A l \in Processes \X Keys : l # <<p, k>> => refreshing'[l] = refreshing[l]
    BY <2>1 DEF TokensInv, TokenTypes
  <2>5. stored[k].version \in 1..minted[k] /\ <<stored[k].version, p>> \notin spent[k]
    <3>1. stored[k].version \in 1..minted[k] BY <2>1 DEF TokensInv, TokenTypes
    <3>2. ASSUME NEW d \in McpCalls, mcall[d].at = "put" PROVE Lock(d) # <<p, k>>
      <4>1. refreshing[Lock(d)] = d BY <3>2 DEF TokensInv, CallToken, Refreshing
      <4> QED BY <4>1, <1>1, McpAssumption
    <3>3. ~Putting(<<p, k>>) BY <3>2 DEF Putting
    <3> QED BY <3>1, <3>3, <2>1 DEF TokensInv, StoredToken
  <2>6. CallToken(c)' BY <2>2, <2>3, <2>4, <2>5, <1>1 DEF CallToken, Refreshing
  <2>7. TokenTypes' BY <2>4, <1>1 DEF TokensInv, TokenTypes
  <2>8. /\ \A d \in McpCalls : d # c => CallToken(d)'
        /\ \A j \in Keys : StoredToken(j)' /\ \A b \in Callbacks : CallbackToken(b)'
    BY <1>0, <1>1, <2>1, <2>2, <2>3, <2>4, CallMoves
  <2> QED BY <2>6, <2>7, <2>8 DEF TokensInv
<1> QED BY <1>2, <1>3

\* A refresh ends without a new version: the stored one stays or is forgotten.
LEMMA ReleaseKeepsTokens ==
  ASSUME McpCallsInv, TokensInv, NEW c \in McpCalls, mcall[c].at \in Refreshing, mcall[c].at # "put",
         End(c) \/ Connect(c), refreshing' = [refreshing EXCEPT ![Lock(c)] = Free],
         stored' = stored \/ stored' = [stored EXCEPT ![KeyOf(c)] = Absent],
         UNCHANGED <<grants, minted, disowned, spent, callback>>
  PROVE  TokensInv'
<1>0. PICK k \in Keys, p \in Processes : k = KeyOf(c) /\ p = mcall[c].process /\ Lock(c) = <<p, k>>
  BY KeysOfCalls DEF Refreshing, Lock, McpCallsInv, McpCallRecords
<1>1. /\ \A d \in McpCalls : d # c => mcall'[d] = mcall[d]
      /\ mcall'[c].at \notin Refreshing /\ KeyOf(c)' = k
  BY <1>0, Goes, StagesAre DEF Refreshing
<1>2. /\ refreshing' \in [Processes \X Keys -> McpCalls \cup {Free}]
      /\ \A l \in Processes \X Keys : l # <<p, k>> => refreshing'[l] = refreshing[l]
  BY <1>0 DEF TokensInv, TokenTypes
<1>3. /\ stored' \in [Keys -> TokenSets \cup {Absent}]
      /\ \A j \in Keys : stored'[j] = stored[j] \/ stored'[j] = Absent
  BY DEF TokensInv, TokenTypes
<1>4. CallToken(c)' BY <1>1 DEF CallToken, Refreshing
<1>5. TokenTypes'
  <2>1. \A j \in Keys : stored'[j] # Absent => stored'[j].version \in 1..minted'[j]
    BY <1>3 DEF TokensInv, TokenTypes
  <2> QED BY <2>1, <1>2, <1>3 DEF TokensInv, TokenTypes
<1>6. /\ \A d \in McpCalls : d # c => CallToken(d)'
      /\ \A j \in Keys : StoredToken(j)' /\ \A b \in Callbacks : CallbackToken(b)'
  BY <1>0, <1>1, <1>2, <1>3, CallMoves DEF Refreshing
<1> QED BY <1>4, <1>5, <1>6 DEF TokensInv

\* The provider is not reached, does not take the version, or rotates it for the one refresh of a process.
LEMMA AskKeepsTokens ==
  ASSUME McpCallsInv, TokensInv, NEW c \in McpCalls, NEW how, AskProvider(c, how)
  PROVE  TokensInv'
<1>0. PICK k \in Keys, p \in Processes : k = KeyOf(c) /\ p = mcall[c].process /\ Lock(c) = <<p, k>>
  BY KeysOfCalls DEF AskProvider, Lock, McpCallsInv, McpCallRecords
<1>1. /\ mcall[c].at = "refresh" /\ mcall[c] \in McpCallRecords /\ CallToken(c)
      /\ UNCHANGED <<stored, callback>>
  BY DEF AskProvider, authorizing, McpCallsInv, TokensInv
<1> DEFINE u == mcall[c].used
<1>2. /\ refreshing[<<p, k>>] = c /\ u \in 1..minted[k] /\ <<u, p>> \notin spent[k]
      /\ minted[k] \in 0..MaxToken /\ grants[k] \subseteq 1..MaxToken /\ disowned[k] \subseteq 1..MaxToken
      /\ spent[k] \subseteq (1..MaxToken) \X (Processes \cup {Nowhere}) /\ u \in 1..MaxToken
  BY <1>0, <1>1, McpAssumption DEF CallToken, Refreshing, TokensInv, TokenTypes
<1> HIDE DEF u
<1>3. CASE how = "unreached"
  <2>1. /\ End(c) /\ refreshing' = [refreshing EXCEPT ![Lock(c)] = Free]
        /\ UNCHANGED <<grants, minted, disowned, spent>>
    BY <1>3 DEF AskProvider
  <2> QED BY <2>1, <1>1, ReleaseKeepsTokens DEF Refreshing
<1>4. CASE how = "refused"
  <2>1. /\ Go(c, "refused") /\ UNCHANGED <<minted, spent, refreshing>>
        /\ disowned' = [disowned EXCEPT ![k] = @ \cup (grants[k] \cap {u})]
        /\ grants' = [grants EXCEPT ![k] = @ \ {u}]
    BY <1>0, <1>4 DEF AskProvider, u
  <2>2. /\ \A d \in McpCalls : d # c => mcall'[d] = mcall[d]
        /\ mcall'[c].at = "refused" /\ mcall'[c].used = u /\ mcall'[c].process = p
        /\ KeyOf(c)' = k
    BY <2>1, <1>0, Goes, StagesAre DEF u
  <2>3. /\ grants' \in [Keys -> SUBSET (1..MaxToken)] /\ disowned' \in [Keys -> SUBSET (1..MaxToken)]
        /\ \A j \in Keys : disowned[j] \subseteq disowned'[j] /\ grants[j] \subseteq grants'[j] \cup disowned'[j]
        /\ u \in grants[k] => u \in disowned'[k]
        /\ \A j \in Keys : disowned'[j] \subseteq 1..minted[j]
    BY <2>1, <1>2 DEF TokensInv, TokenTypes
  <2>4. u \in disowned'[k] \/ \E w \in (Processes \cup {Nowhere}) \ {p} : <<u, w>> \in spent[k]
    <3>1. \/ u \in grants[k] \cup disowned[k]
          \/ \E w \in Processes \cup {Nowhere} : <<u, w>> \in spent[k]
      BY <1>2 DEF TokensInv, TokenTypes
    <3> QED BY <3>1, <1>2, <2>3
  <2>5. CallToken(c)'
    <3>1. Lock(c)' = <<p, k>> BY <2>2 DEF Lock
    <3> QED BY <3>1, <2>1, <2>2, <2>4, <1>2 DEF CallToken, Refreshing, Elsewhere
  <2>6. TokenTypes' BY <2>1, <2>3, <1>1 DEF TokensInv, TokenTypes
  <2>7. /\ \A d \in McpCalls : d # c => CallToken(d)'
        /\ \A j \in Keys : StoredToken(j)' /\ \A b \in Callbacks : CallbackToken(b)'
    BY <1>0, <1>1, <2>1, <2>2, <2>3, CallMoves DEF Refreshing
  <2> QED BY <2>5, <2>6, <2>7 DEF TokensInv
<1>5. CASE how \in {"answered", "lost"}
  <2>0. PICK v \in 1..MaxToken, taker \in {p, Nowhere} :
          /\ v = minted[k] + 1 /\ taker = (IF how = "lost" THEN Nowhere ELSE p)
          /\ minted' = [minted EXCEPT ![k] = v] /\ grants' = [grants EXCEPT ![k] = (@ \ {u}) \cup {v}]
          /\ spent' = [spent EXCEPT ![k] = @ \cup {<<u, taker>>}] /\ UNCHANGED disowned
    <3>1. minted[k] + 1 \in 1..MaxToken BY <1>0, <1>2, <1>5, McpAssumption DEF AskProvider
    <3> QED BY <3>1, <1>0, <1>5 DEF AskProvider, u
  <2>1. /\ \A d \in McpCalls : d # c => mcall'[d] = mcall[d]
        /\ mcall'[c].who = mcall[c].who
        /\ \/ taker = p /\ mcall'[c].at = "put" /\ mcall'[c].used = v /\ mcall'[c].process = p
           \/ taker = Nowhere /\ mcall'[c].at = "ended"
    <3>1. CASE how = "lost"
      <4>1. End(c) BY <1>5, <3>1 DEF AskProvider
      <4> QED BY <4>1, <3>1, <2>0, Goes, StagesAre
    <3>2. CASE how # "lost"
      <4>1. mcall' = [mcall EXCEPT ![c] = [mcall[c] EXCEPT !.at = "put", !.used = v]]
        BY <1>0, <1>5, <2>0, <3>2 DEF AskProvider
      <4> QED BY <4>1, <3>2, <2>0, <1>0, <1>1 DEF McpCallsInv, McpCallRecords
    <3> QED BY <3>1, <3>2
  <2>2. KeyOf(c)' = k BY <2>1, <1>0 DEF KeyOf
  <2>3. /\ refreshing' \in [Processes \X Keys -> McpCalls \cup {Free}]
        /\ \A l \in Processes \X Keys : l # <<p, k>> => refreshing'[l] = refreshing[l]
        /\ mcall'[c].at = "put" => refreshing'[<<p, k>>] = c
    <3>1. \/ refreshing' = [refreshing EXCEPT ![<<p, k>>] = Free] /\ how = "lost"
          \/ UNCHANGED refreshing
      BY <1>0, <1>5 DEF AskProvider
    <3>2. how = "lost" => mcall'[c].at = "ended" BY <2>0, <2>1, McpAssumption
    <3> QED BY <3>1, <3>2, <1>2 DEF TokensInv, TokenTypes
  <2>4. /\ \A j \in Keys : j # k => /\ grants'[j] = grants[j] /\ minted'[j] = minted[j] /\ spent'[j] = spent[j]
        /\ grants'[k] = (grants[k] \ {u}) \cup {v} /\ minted'[k] = v /\ spent'[k] = spent[k] \cup {<<u, taker>>}
        /\ minted' \in [Keys -> 0..MaxToken] /\ grants' \in [Keys -> SUBSET (1..MaxToken)]
        /\ spent' \in [Keys -> SUBSET ((1..MaxToken) \X (Processes \cup {Nowhere}))]
    <3>1. v \in 0..MaxToken /\ <<u, taker>> \in (1..MaxToken) \X (Processes \cup {Nowhere}) BY <1>2
    <3> QED BY <3>1, <2>0 DEF TokensInv, TokenTypes
  <2>5. 1..minted'[k] = 1..minted[k] \cup {v} /\ v \notin 1..minted[k]
    <3>1. minted'[k] = minted[k] + 1 BY <2>0, <2>4
    <3> QED BY <3>1, <1>2, <2>0
  <2>6. TokenTypes'
    <3>1. ASSUME NEW j \in Keys
          PROVE  /\ stored[j] # Absent => stored[j].version \in 1..minted'[j]
                 /\ disowned[j] \subseteq 1..minted'[j] /\ \A e \in spent'[j] : e[1] \in 1..minted'[j]
      <4>1. /\ stored[j] # Absent => stored[j].version \in 1..minted[j]
            /\ disowned[j] \subseteq 1..minted[j] /\ \A e \in spent[j] : e[1] \in 1..minted[j]
        BY DEF TokensInv, TokenTypes
      <4>2. CASE j = k BY <4>1, <4>2, <2>4, <2>5, <1>2
      <4>3. CASE j # k BY <4>1, <4>3, <2>4
      <4> QED BY <4>2, <4>3
    <3>2. ASSUME NEW j \in Keys, NEW x \in 1..minted'[j]
          PROVE  x \in grants'[j] \cup disowned[j] \/ \E w \in Processes \cup {Nowhere} : <<x, w>> \in spent'[j]
      <4>1. x \in 1..minted[j] => x \in grants[j] \cup disowned[j] \/ \E w \in Processes \cup {Nowhere} : <<x, w>> \in spent[j]
        BY DEF TokensInv, TokenTypes
      <4>2. CASE j = k
        <5>1. CASE x = v BY <5>1, <4>2, <2>4
        <5>2. CASE x = u BY <5>2, <4>2, <2>0, <2>4
        <5>3. CASE x # v /\ x # u BY <5>3, <4>1, <4>2, <2>4, <2>5, <3>2
        <5> QED BY <5>1, <5>2, <5>3
      <4>3. CASE j # k BY <4>1, <4>3, <2>4, <3>2
      <4> QED BY <4>2, <4>3
    <3> QED BY <3>1, <3>2, <2>0, <2>3, <2>4, <1>1 DEF TokensInv, TokenTypes
  <2>7. /\ \A j \in Keys : /\ 1..minted[j] \subseteq 1..minted'[j] /\ disowned[j] \subseteq disowned'[j]
                           /\ spent[j] \subseteq spent'[j]
        /\ \A j \in Keys : \A e \in spent'[j] : e \in spent[j] \/
             /\ j = k /\ mcall[c].at = "refresh" /\ e[1] = mcall[c].used
             /\ e[2] = Nowhere \/ (e[2] = p /\ mcall'[c].at = "put" /\ mcall'[c].process = p)
    BY <2>0, <2>1, <2>4, <2>5, <1>1 DEF u
  <2>8. /\ \A d \in McpCalls : d # c => CallToken(d)'
        /\ \A j \in Keys : StoredToken(j)' /\ \A b \in Callbacks : CallbackToken(b)'
    BY <1>0, <1>1, <2>1, <2>2, <2>3, <2>5, <2>7, CallMoves DEF Refreshing
  <2>9. ASSUME mcall'[c].at = "put" PROVE CallToken(c)'
    <3>1. mcall'[c].used = v /\ Lock(c)' = <<p, k>> BY <2>1, <2>2, <2>9 DEF Lock
    <3>2. \A e \in spent'[k] : e[1] # v
      BY <2>4, <2>5, <1>2 DEF TokensInv, TokenTypes
    <3>3. stored[k] # Absent => stored[k].version # v BY <2>5 DEF TokensInv, TokenTypes
    <3>4. ASSUME NEW d \in McpCalls, d # c, KeyOf(d) = k, mcall[d].at \in {"refresh", "put"}
          PROVE  mcall[d].used # v
      BY <3>4, <2>5 DEF TokensInv, CallToken, Unseen
    <3>5. \A d \in McpCalls : d # c => mcall'[d] = mcall[d] /\ KeyOf(d)' = KeyOf(d) BY <2>1 DEF KeyOf
    <3>6. Unseen(k, v)' BY <2>4, <2>5, <2>9, <3>2, <3>3, <3>4, <3>5, <1>1 DEF Unseen
    <3> QED BY <3>1, <3>4, <3>5, <3>6, <2>2, <2>3, <2>9 DEF CallToken
  <2>10. CallToken(c)' BY <2>1, <2>9 DEF CallToken, Refreshing
  <2> QED BY <2>6, <2>8, <2>10 DEF TokensInv
<1> QED BY <1>3, <1>4, <1>5 DEF AskProvider

\* A version is made for a callback.
LEMMA ExchangeKeepsTokens ==
  ASSUME McpCallsInv, CodesInv, TokensInv, NEW b \in Callbacks, NEW ok \in BOOLEAN, NEW renewable \in BOOLEAN,
         Exchange(b, ok, renewable)
  PROVE  TokensInv'
<1>0. PICK k \in Keys, v \in Nat : k = callback[b].key /\ v = minted[k] + 1
  BY DEF Exchange, CodesInv, TokensInv, TokenTypes
<1>1. /\ callback[b].at = "exchange" /\ UNCHANGED <<stored, refreshing, mcall, disowned, spent>>
      /\ callback[b] \in CallbackRecords
  BY DEF Exchange, CodesInv
<1>2. CASE callback' = [callback EXCEPT ![b] = CallbackOver] /\ UNCHANGED <<grants, minted>>
  <2>1. \A d \in Callbacks : callback'[d] = callback[d] \/ callback'[d].at # "put"
    BY <1>2 DEF CodesInv, CallbackOver
  <2> QED BY <1>1, <1>2, <2>1, TokensStay
<1>3. CASE ok /\ v <= MaxToken
  <2>1. /\ minted' = [minted EXCEPT ![k] = v] /\ grants' = [grants EXCEPT ![k] = @ \cup {v}]
        /\ callback' = [callback EXCEPT ![b].at = "put", ![b].version = v, ![b].renewable = renewable]
    BY <1>0, <1>3 DEF Exchange
  <2>2. v \in 1..MaxToken /\ minted[k] \in Nat /\ v \in 0..MaxToken BY <1>0, <1>1, <1>3 DEF TokensInv, TokenTypes
  <2>3. /\ \A j \in Keys : j # k => grants'[j] = grants[j] /\ minted'[j] = minted[j]
        /\ grants'[k] = grants[k] \cup {v} /\ minted'[k] = v
        /\ minted' \in [Keys -> 0..MaxToken] /\ grants' \in [Keys -> SUBSET (1..MaxToken)]
    BY <2>1, <2>2, <1>1 DEF TokensInv, TokenTypes
  <2>4. /\ \A d \in Callbacks : d # b => callback'[d] = callback[d]
        /\ callback'[b].at = "put" /\ callback'[b].version = v /\ callback'[b].key = k
    <3>1. ASSUME NEW r \in CallbackRecords
          PROVE  /\ [r EXCEPT !.at = "put", !.version = v, !.renewable = renewable].at = "put"
                 /\ [r EXCEPT !.at = "put", !.version = v, !.renewable = renewable].version = v
                 /\ [r EXCEPT !.at = "put", !.version = v, !.renewable = renewable].key = r.key
      BY DEF CallbackRecords
    <3>2. callback' = [callback EXCEPT ![b] = [callback[b] EXCEPT !.at = "put", !.version = v, !.renewable = renewable]]
      BY <2>1
    <3> QED BY <3>1, <3>2, <1>0, <1>1 DEF CodesInv
  <2>5. 1..minted'[k] = 1..minted[k] \cup {v} /\ v \notin 1..minted[k] BY <1>0, <2>2, <2>3
  <2>6. \A d \in McpCalls : mcall'[d] = mcall[d] /\ KeyOf(d)' = KeyOf(d) /\ Lock(d)' = Lock(d)
    BY <1>1 DEF KeyOf, Lock
  <2>7. \A j \in Keys : \A w : Unseen(j, w) => Unseen(j, w)' BY <2>3, <2>5, <2>6, <1>1 DEF Unseen
  <2>8. TokenTypes'
    <3>1. ASSUME NEW j \in Keys
          PROVE  /\ stored[j] # Absent => stored[j].version \in 1..minted'[j]
                 /\ disowned[j] \subseteq 1..minted'[j] /\ \A e \in spent[j] : e[1] \in 1..minted'[j]
                 /\ \A x \in 1..minted'[j] :
                      x \in grants'[j] \cup disowned[j] \/ \E w \in Processes \cup {Nowhere} : <<x, w>> \in spent[j]
      <4>1. /\ stored[j] # Absent => stored[j].version \in 1..minted[j]
            /\ disowned[j] \subseteq 1..minted[j] /\ \A e \in spent[j] : e[1] \in 1..minted[j]
            /\ \A x \in 1..minted[j] :
                 x \in grants[j] \cup disowned[j] \/ \E w \in Processes \cup {Nowhere} : <<x, w>> \in spent[j]
        BY DEF TokensInv, TokenTypes
      <4>2. CASE j = k BY <4>1, <4>2, <2>3, <2>5
      <4>3. CASE j # k BY <4>1, <4>3, <2>3
      <4> QED BY <4>2, <4>3
    <3> QED BY <3>1, <2>3, <1>1 DEF TokensInv, TokenTypes
  <2>9. ASSUME NEW d \in McpCalls PROVE CallToken(d)'
    <3>1. CallToken(d) BY DEF TokensInv
    <3>2. mcall[d].at \in Refreshing => KeyOf(d) \in Keys BY KeysOfCalls DEF Refreshing
    <3>3. Elsewhere(d)' <=> Elsewhere(d) BY <2>6, <1>1 DEF Elsewhere
    <3>4. mcall[d].at \in Refreshing => 1..minted[KeyOf(d)] \subseteq 1..minted'[KeyOf(d)] BY <3>2, <2>3, <2>5
    <3> QED BY <3>1, <3>2, <3>3, <3>4, <2>6, <2>7, <1>1 DEF CallToken, Refreshing
  <2>10. ASSUME NEW j \in Keys PROVE StoredToken(j)'
    <3>1. StoredToken(j) /\ \A l : Putting(l) => Putting(l)' BY <2>6 DEF TokensInv, Putting
    <3> QED BY <3>1, <1>1 DEF StoredToken
  <2>11. ASSUME NEW d \in Callbacks, callback[d].at = "put"
         PROVE  /\ callback[d].key \in Keys /\ callback[d].version \in 1..minted[callback[d].key]
                /\ callback[d].key = k => callback[d].version # v
    BY <2>5, <2>11 DEF TokensInv, CallbackToken, Unseen
  <2>12. ASSUME NEW d \in Callbacks, callback'[d].at = "put", d # b PROVE CallbackToken(d)'
    <3>1. CallbackToken(d) /\ callback'[d] = callback[d] BY <2>4, <2>12 DEF TokensInv
    <3>2. ASSUME NEW e \in Callbacks, callback'[e].at = "put", callback'[e].key = callback'[d].key, e # d
          PROVE  callback'[e].version # callback'[d].version
      <4>1. CASE e # b BY <4>1, <3>1, <3>2, <2>4, <2>12 DEF CallbackToken
      <4>2. CASE e = b BY <4>2, <3>1, <3>2, <2>4, <2>11, <2>12
      <4> QED BY <4>1, <4>2
    <3>3. PICK j, w : j \in Keys /\ j = callback[d].key /\ w = callback[d].version /\ Unseen(j, w)
      BY <3>1, <2>12 DEF CallbackToken
    <3>4. \A c \in McpCalls : mcall[c].at = "put" /\ KeyOf(c) = j => mcall[c].used # w
      BY <3>1, <3>3, <2>12 DEF CallbackToken
    <3>5. Unseen(j, w)' BY <3>3, <2>7
    <3> QED BY <3>1, <3>2, <3>3, <3>4, <3>5, <2>6 DEF CallbackToken, Unseen
  <2>13. CallbackToken(b)'
    <3>1. \A e \in spent[k] : e[1] # v BY <2>5 DEF TokensInv, TokenTypes
    <3>2. stored[k] # Absent => stored[k].version # v BY <2>5 DEF TokensInv, TokenTypes
    <3>3. ASSUME NEW c \in McpCalls, mcall[c].at \in {"refresh", "put"}, KeyOf(c) = k PROVE mcall[c].used # v
      BY <3>3, <2>5 DEF TokensInv, CallToken, Unseen
    <3>4. Unseen(k, v)' BY <3>1, <3>2, <3>3, <2>3, <2>5, <2>6, <1>1 DEF Unseen
    <3>5. \A d \in Callbacks : callback'[d].at = "put" /\ callback'[d].key = k /\ d # b => callback'[d].version # v
      BY <2>4, <2>11
    <3> QED BY <3>3, <3>4, <3>5, <2>4, <2>6 DEF CallbackToken
  <2> QED BY <2>8, <2>9, <2>10, <2>12, <2>13 DEF TokensInv, CallbackToken
<1> QED BY <1>0, <1>2, <1>3 DEF Exchange

\* The version a callback brought is stored, and nobody has used it.
LEMMA PutExchangedKeepsTokens ==
  ASSUME McpCallsInv, CodesInv, TokensInv, NEW b \in Callbacks, PutExchanged(b)
  PROVE  TokensInv'
<1>1. /\ callback[b].at = "put" /\ CallbackToken(b) /\ callback[b] \in CallbackRecords
      /\ UNCHANGED <<grants, minted, refreshing, mcall, disowned, spent>>
  BY DEF PutExchanged, TokensInv, CodesInv
<1>2. PICK k \in Keys, v \in 1..MaxToken :
        /\ k = callback[b].key /\ v = callback[b].version /\ Unseen(k, v) /\ v \in 1..minted[k]
        /\ \A c \in McpCalls : mcall[c].at = "put" /\ KeyOf(c) = k => mcall[c].used # v
        /\ \A d \in Callbacks : callback[d].at = "put" /\ callback[d].key = k /\ d # b
             => callback[d].version # v
  <2>1. callback[b].key \in Keys /\ Unseen(callback[b].key, callback[b].version)
    BY <1>1 DEF CallbackToken
  <2>2. callback[b].version \in 1..minted[callback[b].key] BY <2>1 DEF Unseen
  <2>3. 1..minted[callback[b].key] \subseteq 1..MaxToken BY <2>1, McpAssumption DEF TokensInv, TokenTypes
  <2> QED BY <2>1, <2>2, <2>3, <1>1 DEF CallbackToken
<1>3. PICK t \in TokenSets : t.version = v /\ stored' = [stored EXCEPT ![k] = t]
  <2> DEFINE t == [version |-> v, fresh |-> TRUE, renewable |-> callback[b].renewable]
  <2>1. t \in TokenSets BY <1>1 DEF TokenSets, CallbackRecords
  <2>2. stored' = [stored EXCEPT ![k] = t] /\ t.version = v BY <1>2 DEF PutExchanged
  <2> QED BY <2>1, <2>2
<1>4. /\ \A j \in Keys : j # k => stored'[j] = stored[j]
      /\ stored'[k].version = v /\ stored' \in [Keys -> TokenSets \cup {Absent}]
  BY <1>2, <1>3 DEF TokensInv, TokenTypes
<1>5. callback'[b].at = "done" /\ \A d \in Callbacks : d # b => callback'[d] = callback[d]
  BY DEF CodesInv, PutExchanged, CallbackOver
<1>6. \A d \in McpCalls : mcall'[d] = mcall[d] /\ KeyOf(d)' = KeyOf(d) /\ Lock(d)' = Lock(d)
  BY <1>1 DEF KeyOf, Lock
<1>7. \A j \in Keys : \A w : Unseen(j, w) /\ (j = k => w # v) => Unseen(j, w)'
  BY <1>1, <1>4, <1>6 DEF Unseen
<1>8. TokenTypes'
  <2>1. \A j \in Keys : stored'[j] # Absent => stored'[j].version \in 1..minted'[j]
    BY <1>1, <1>2, <1>4 DEF TokensInv, TokenTypes
  <2> QED BY <2>1, <1>1, <1>4 DEF TokensInv, TokenTypes
<1>9. ASSUME NEW d \in McpCalls PROVE CallToken(d)'
  <2>1. CallToken(d) BY DEF TokensInv
  <2>2. mcall[d].at \in Refreshing => KeyOf(d) \in Keys BY KeysOfCalls DEF Refreshing
  <2>3. Elsewhere(d)' <=> Elsewhere(d) BY <1>1, <1>6 DEF Elsewhere
  <2>4. mcall[d].at = "put" => Unseen(KeyOf(d), mcall[d].used)'
    <3> SUFFICES ASSUME mcall[d].at = "put" PROVE Unseen(KeyOf(d), mcall[d].used)' OBVIOUS
    <3>1. PICK j, w : j \in Keys /\ j = KeyOf(d) /\ w = mcall[d].used /\ Unseen(j, w) BY <2>1, <2>2 DEF CallToken, Refreshing
    <3>2. Unseen(j, w)' BY <3>1, <1>2, <1>7
    <3> QED BY <3>1, <3>2, <1>6 DEF Unseen
  <2> QED BY <2>1, <2>3, <2>4, <1>1, <1>6 DEF CallToken
<1>10. ASSUME NEW j \in Keys PROVE StoredToken(j)'
  <2>1. StoredToken(j) /\ \A l : Putting(l) => Putting(l)' BY <1>6 DEF TokensInv, Putting
  <2>2. CASE j = k
    <3>1. \A w \in Processes : <<v, w>> \notin spent[k] BY <1>2 DEF Unseen
    <3> QED BY <2>2, <3>1, <1>1, <1>4 DEF StoredToken
  <2>3. CASE j # k BY <2>1, <2>3, <1>1, <1>4 DEF StoredToken
  <2> QED BY <2>2, <2>3
<1>11. ASSUME NEW d \in Callbacks, callback'[d].at = "put" PROVE CallbackToken(d)'
  <2>1. d # b /\ callback'[d] = callback[d] /\ CallbackToken(d) BY <1>5, <1>11 DEF TokensInv
  <2>2. \A e \in Callbacks : callback'[e].at = "put" => callback'[e] = callback[e] BY <1>5
  <2>3. callback[d].key \in Keys /\ Unseen(callback[d].key, callback[d].version)'
    BY <2>1, <1>2, <1>7, <1>11 DEF CallbackToken
  <2> QED BY <2>1, <2>2, <2>3, <1>6, <1>11 DEF CallbackToken
<1> QED BY <1>8, <1>9, <1>10, <1>11 DEF TokensInv, CallbackToken

\* A refreshed version is stored, and the lock is given back.
LEMMA PutKeepsTokens ==
  ASSUME McpCallsInv, TokensInv, NEW c \in McpCalls, PutRefreshed(c)
  PROVE  TokensInv'
<1>0. PICK k \in Keys, p \in Processes : k = KeyOf(c) /\ p = mcall[c].process /\ Lock(c) = <<p, k>>
  BY KeysOfCalls DEF PutRefreshed, Lock, McpCallsInv, McpCallRecords
<1>1. /\ mcall[c].at = "put" /\ UNCHANGED <<grants, minted, disowned, spent, callback>> /\ Connect(c)
      /\ refreshing' = [refreshing EXCEPT ![<<p, k>>] = Free] /\ Unseen(k, mcall[c].used)
  BY <1>0 DEF PutRefreshed, authorizing, TokensInv, CallToken
<1>2. PICK t \in TokenSets : t.version = mcall[c].used /\ stored' = [stored EXCEPT ![k] = t]
  <2> DEFINE t == [version |-> mcall[c].used, fresh |-> TRUE, renewable |-> TRUE]
  <2>1. mcall[c].used \in 1..MaxToken
    <3>1. mcall[c].used \in 1..minted[k] /\ 1..minted[k] \subseteq 1..MaxToken
      BY <1>1, McpAssumption DEF Unseen, TokensInv, TokenTypes
    <3> QED BY <3>1
  <2>2. t \in TokenSets BY <2>1 DEF TokenSets
  <2>3. stored' = [stored EXCEPT ![k] = t] /\ t.version = mcall[c].used BY <1>0 DEF PutRefreshed
  <2> QED BY <2>2, <2>3
<1>3. /\ \A j \in Keys : j # k => stored'[j] = stored[j]
      /\ stored'[k].version = mcall[c].used /\ stored' \in [Keys -> TokenSets \cup {Absent}]
      /\ refreshing' \in [Processes \X Keys -> McpCalls \cup {Free}]
      /\ \A l \in Processes \X Keys : l # <<p, k>> => refreshing'[l] = refreshing[l]
  BY <1>1, <1>2 DEF TokensInv, TokenTypes
<1>4. /\ \A d \in McpCalls : d # c => mcall'[d] = mcall[d]
      /\ mcall'[c].at = "connect" /\ KeyOf(c)' = k
  BY <1>0, <1>1, Goes, StagesAre
<1>5. TokenTypes'
  <2>1. \A j \in Keys : stored'[j] # Absent => stored'[j].version \in 1..minted'[j]
    BY <1>1, <1>3 DEF TokensInv, TokenTypes, Unseen
  <2> QED BY <2>1, <1>1, <1>3 DEF TokensInv, TokenTypes
<1>6. CallToken(c)' BY <1>4 DEF CallToken, Refreshing
<1>7. /\ \A d \in McpCalls : d # c => CallToken(d)'
      /\ \A j \in Keys : StoredToken(j)' /\ \A b \in Callbacks : CallbackToken(b)'
  BY <1>0, <1>1, <1>3, <1>4, CallMoves DEF Refreshing
<1> QED BY <1>5, <1>6, <1>7 DEF TokensInv

\* A refused version that is still the stored one is going to be forgotten.
LEMMA RefusalKeepsTokens ==
  ASSUME McpCallsInv, TokensInv, NEW c \in McpCalls, AfterRefusal(c)
  PROVE  TokensInv'
<1>0. PICK k \in Keys, p \in Processes : k = KeyOf(c) /\ p = mcall[c].process /\ Lock(c) = <<p, k>>
  BY KeysOfCalls DEF AfterRefusal, Lock, McpCallsInv, McpCallRecords
<1>1. mcall[c].at = "refused" /\ UNCHANGED <<stored, grants, minted, disowned, spent, callback>> /\ CallToken(c)
  BY DEF AfterRefusal, authorizing, TokensInv
<1>2. CASE Connect(c) /\ refreshing' = [refreshing EXCEPT ![Lock(c)] = Free]
  BY <1>1, <1>2, ReleaseKeepsTokens DEF Refreshing
<1>3. CASE Go(c, "forget") /\ UNCHANGED refreshing
  <2>1. /\ \A d \in McpCalls : d # c => mcall'[d] = mcall[d]
        /\ mcall'[c].at = "forget" /\ mcall'[c].used = mcall[c].used /\ mcall'[c].process = p
        /\ KeyOf(c)' = k /\ Lock(c)' = <<p, k>>
    <3>1. /\ \A d \in McpCalls : d # c => mcall'[d] = mcall[d]
          /\ mcall'[c].at = "forget" /\ mcall'[c].used = mcall[c].used /\ mcall'[c].process = p
          /\ KeyOf(c)' = k
      BY <1>0, <1>3, Goes, StagesAre
    <3> QED BY <3>1 DEF Lock
  <2>2. CallToken(c)'
    <3>1. Elsewhere(c)' <=> Elsewhere(c) BY <2>1, <1>0, <1>1 DEF Elsewhere
    <3> QED BY <3>1, <2>1, <1>0, <1>1, <1>3 DEF CallToken, Refreshing
  <2>3. TokenTypes' BY <1>1, <1>3 DEF TokensInv, TokenTypes
  <2>4. /\ \A d \in McpCalls : d # c => CallToken(d)'
        /\ \A j \in Keys : StoredToken(j)' /\ \A b \in Callbacks : CallbackToken(b)'
    BY <1>0, <1>1, <1>3, <2>1, CallMoves DEF Refreshing
  <2> QED BY <2>2, <2>3, <2>4 DEF TokensInv
<1> QED BY <1>2, <1>3 DEF AfterRefusal

\* A connection is removed, and the provider ends the grants it is told of.
LEMMA RevokeKeepsTokens ==
  ASSUME McpCallsInv, TokensInv, NEW k \in Keys, NEW w \in Processes, NEW reached \in BOOLEAN, Revoke(k, w, reached)
  PROVE  TokensInv'
<1>1. /\ stored' = [stored EXCEPT ![k] = Absent] /\ UNCHANGED <<minted, refreshing, callback, mcall, spent>>
      /\ \/ UNCHANGED <<grants, disowned>>
         \/ grants' = [grants EXCEPT ![k] = {}] /\ disowned' = [disowned EXCEPT ![k] = 1..minted[k]]
  BY DEF Revoke, Forget, authorizing
<1>2. /\ stored' \in [Keys -> TokenSets \cup {Absent}] /\ stored'[k] = Absent
      /\ \A j \in Keys : j # k => stored'[j] = stored[j]
  BY <1>1 DEF TokensInv, TokenTypes
<1>3. /\ grants' \in [Keys -> SUBSET (1..MaxToken)] /\ disowned' \in [Keys -> SUBSET (1..MaxToken)]
      /\ \A j \in Keys : \A x \in 1..minted[j] :
           /\ x \in disowned[j] => x \in disowned'[j]
           /\ x \in grants[j] => x \in grants'[j] \cup disowned'[j]
      /\ \A j \in Keys : disowned'[j] \subseteq 1..minted[j]
  <2>1. 1..minted[k] \subseteq 1..MaxToken BY McpAssumption DEF TokensInv, TokenTypes
  <2>2. CASE UNCHANGED <<grants, disowned>> BY <2>2 DEF TokensInv, TokenTypes
  <2>3. CASE grants' = [grants EXCEPT ![k] = {}] /\ disowned' = [disowned EXCEPT ![k] = 1..minted[k]]
    BY <2>1, <2>3 DEF TokensInv, TokenTypes
  <2> QED BY <2>2, <2>3, <1>1
<1>4. \A d \in McpCalls : mcall'[d] = mcall[d] /\ KeyOf(d)' = KeyOf(d) /\ Lock(d)' = Lock(d)
  BY <1>1 DEF KeyOf, Lock
<1>5. \A j \in Keys : \A v : Unseen(j, v) => Unseen(j, v)' BY <1>1, <1>2, <1>4 DEF Unseen
<1>6. ASSUME NEW d \in McpCalls PROVE CallToken(d)'
  <2>1. CallToken(d) BY DEF TokensInv
  <2>2. mcall[d].at \in Refreshing => KeyOf(d) \in Keys BY KeysOfCalls DEF Refreshing
  <2>3. Elsewhere(d)' <=> Elsewhere(d) BY <1>1, <1>4 DEF Elsewhere
  <2>4. mcall[d].at \in Refreshing => disowned[KeyOf(d)] \subseteq disowned'[KeyOf(d)]
    <3>1. CASE UNCHANGED disowned BY <3>1
    <3>2. CASE disowned' = [disowned EXCEPT ![k] = 1..minted[k]] BY <3>2, <2>2 DEF TokensInv, TokenTypes
    <3> QED BY <3>1, <3>2, <1>1
  <2> QED BY <2>1, <2>2, <2>3, <2>4, <1>1, <1>4, <1>5 DEF CallToken, Refreshing
<1>7. ASSUME NEW j \in Keys PROVE StoredToken(j)'
  <2>1. StoredToken(j) /\ \A l : Putting(l) => Putting(l)' BY <1>4 DEF TokensInv, Putting
  <2> QED BY <2>1, <1>1, <1>2 DEF StoredToken
<1>8. ASSUME NEW b \in Callbacks PROVE CallbackToken(b)'
  <2>1. CallbackToken(b) BY DEF TokensInv
  <2> QED BY <2>1, <1>1, <1>4, <1>5 DEF CallbackToken
<1>9. TokenTypes'
  <2>1. \A j \in Keys : stored'[j] # Absent => stored'[j].version \in 1..minted'[j]
    BY <1>1, <1>2 DEF TokensInv, TokenTypes
  <2>2. ASSUME NEW j \in Keys, NEW x \in 1..minted[j]
        PROVE  x \in grants'[j] \cup disowned'[j] \/ \E p \in Processes \cup {Nowhere} : <<x, p>> \in spent[j]
    <3>1. x \in grants[j] \cup disowned[j] \/ \E p \in Processes \cup {Nowhere} : <<x, p>> \in spent[j]
      BY <2>2 DEF TokensInv, TokenTypes
    <3> QED BY <3>1, <1>3
  <2> QED BY <2>1, <2>2, <1>1, <1>2, <1>3 DEF TokensInv, TokenTypes
<1> QED BY <1>6, <1>7, <1>8, <1>9 DEF TokensInv

\* A token that gets old keeps its version.
LEMMA AgesKeepsTokens ==
  ASSUME TokensInv, NEW k \in Keys, Ages(k)
  PROVE  TokensInv'
<1>1. /\ UNCHANGED <<grants, minted, refreshing, disowned, spent, callback, mcall>>
      /\ stored[k] # Absent /\ stored' = [stored EXCEPT ![k].fresh = FALSE]
  BY DEF Ages, authorizing
<1>2. stored[k] \in TokenSets BY <1>1 DEF TokensInv, TokenTypes
<1>3. PICK t \in TokenSets : t = [stored[k] EXCEPT !.fresh = FALSE] /\ t.version = stored[k].version
  <2>1. ASSUME NEW r \in TokenSets
        PROVE  [r EXCEPT !.fresh = FALSE] \in TokenSets /\ [r EXCEPT !.fresh = FALSE].version = r.version
    BY DEF TokenSets
  <2> QED BY <1>2, <2>1
<1>4. stored' = [stored EXCEPT ![k] = t] BY <1>1, <1>3
<1>5. /\ stored' \in [Keys -> TokenSets \cup {Absent}] /\ stored'[k].version = stored[k].version
      /\ \A j \in Keys : j # k => stored'[j] = stored[j]
  BY <1>3, <1>4 DEF TokensInv, TokenTypes
<1>6. \A j \in Keys : stored'[j] # Absent => stored[j] # Absent /\ stored'[j].version = stored[j].version
  BY <1>1, <1>5
<1>7. \A d \in McpCalls : mcall'[d] = mcall[d] /\ KeyOf(d)' = KeyOf(d) /\ Lock(d)' = Lock(d)
  BY <1>1 DEF KeyOf, Lock
<1>8. \A j \in Keys : \A v : Unseen(j, v) => Unseen(j, v)' BY <1>1, <1>6, <1>7 DEF Unseen
<1>9. ASSUME NEW d \in McpCalls PROVE CallToken(d)'
  <2>1. CallToken(d) BY DEF TokensInv
  <2>2. Elsewhere(d)' <=> Elsewhere(d) BY <1>1, <1>7 DEF Elsewhere
  <2>3. mcall[d].at = "put" => Unseen(KeyOf(d), mcall[d].used)'
    BY <2>1, <1>1, <1>6, <1>7 DEF CallToken, Unseen, TokensInv, TokenTypes
  <2> QED BY <2>1, <2>2, <2>3, <1>1, <1>7 DEF CallToken
<1>10. ASSUME NEW j \in Keys PROVE StoredToken(j)'
  <2>1. StoredToken(j) /\ \A l : Putting(l) => Putting(l)' BY <1>7 DEF TokensInv, Putting
  <2> QED BY <2>1, <1>1, <1>6 DEF StoredToken
<1>11. ASSUME NEW b \in Callbacks PROVE CallbackToken(b)'
  <2>1. CallbackToken(b) BY DEF TokensInv
  <2> QED BY <2>1, <1>1, <1>7, <1>8 DEF CallbackToken
<1>12. TokenTypes' BY <1>1, <1>5, <1>6 DEF TokensInv, TokenTypes
<1> QED BY <1>9, <1>10, <1>11, <1>12 DEF TokensInv

\* No step disturbs the account of the versions.
LEMMA TokensKept ==
  ASSUME McpCallsInv, CodesInv, TokensInv, McpNext
  PROVE  TokensInv'
<1>1. ASSUME NEW k \in Keys, Authorize(k) PROVE TokensInv'
  <2>1. UNCHANGED <<stored, grants, minted, refreshing, disowned, spent, mcall, callback>> BY <1>1 DEF Authorize
  <2> QED BY <2>1, TokensStay
<1>2. ASSUME NEW b \in Callbacks, NEW a \in 1..begun, Complete(b, a) PROVE TokensInv'
  <2>1. UNCHANGED <<stored, grants, minted, refreshing, disowned, spent, mcall>> BY <1>2 DEF Complete
  <2>2. callback[b] \in CallbackRecords /\ callback \in [Callbacks -> CallbackRecords] BY DEF CodesInv
  <2>3. PICK r : callback' = [callback EXCEPT ![b] = r] /\ r.at \in {"exchange", "done"}
    <3>1. ASSUME NEW r \in CallbackRecords
          PROVE  [r EXCEPT !.at = "exchange", !.key = pending[a], !.id = a].at = "exchange"
      BY DEF CallbackRecords
    <3>2. CallbackOver.at = "done" BY DEF CallbackOver
    <3>3. CASE a \in DOMAIN pending BY <2>2, <3>1, <3>3, <1>2 DEF Complete
    <3>4. CASE a \notin DOMAIN pending BY <3>2, <3>4, <1>2 DEF Complete
    <3> QED BY <3>3, <3>4
  <2>4. \A d \in Callbacks : callback'[d] = callback[d] \/ callback'[d].at # "put" BY <2>2, <2>3
  <2> QED BY <2>1, <2>4, TokensStay
<1>3. ASSUME NEW b \in Callbacks, PutExchanged(b) \/ \E ok, renewable \in BOOLEAN : Exchange(b, ok, renewable)
      PROVE  TokensInv'
  BY <1>3, ExchangeKeepsTokens, PutExchangedKeepsTokens
<1>4. ASSUME NEW k \in Keys, Ages(k) \/ \E w \in Processes, reached \in BOOLEAN : Revoke(k, w, reached)
      PROVE  TokensInv'
  BY <1>4, AgesKeepsTokens, RevokeKeepsTokens
<1>5. ASSUME NEW c \in McpCalls, McpCallStep(c) PROVE TokensInv'
  <2> USE DEF Refreshing
  <2>1. mcall[c] \in McpCallRecords /\ mcall \in [McpCalls -> McpCallRecords] BY DEF McpCallsInv
  <2>2. ASSUME NEW r, mcall' = [mcall EXCEPT ![c] = r], r.at \notin Refreshing, mcall[c].at # "put",
               UNCHANGED <<stored, grants, minted, refreshing, disowned, spent, callback>>
        PROVE  TokensInv'
    <3>1. \A d \in McpCalls : mcall'[d] = mcall[d] \/ (mcall'[d].at \notin Refreshing /\ mcall[d].at # "put")
      BY <2>1, <2>2
    <3> QED BY <2>2, <3>1, TokensStay
  <2>3. ASSUME End(c) \/ Go(c, "opening"), mcall[c].at # "put",
               UNCHANGED <<stored, grants, minted, refreshing, disowned, spent, callback>>
        PROVE  TokensInv'
    <3>1. /\ \A d \in McpCalls : d # c => mcall'[d] = mcall[d]
          /\ mcall'[c].at \in {"ended", "opening"}
      <4>1. CASE End(c) BY <4>1, Goes, StagesAre
      <4>2. CASE Go(c, "opening") BY <4>2, Goes, StagesAre
      <4> QED BY <4>1, <4>2, <2>3
    <3>2. \A d \in McpCalls : mcall'[d] = mcall[d] \/ (mcall'[d].at \notin Refreshing /\ mcall[d].at # "put")
      BY <2>3, <3>1
    <3> QED BY <2>3, <3>2, TokensStay
  <2>4. ASSUME NEW p \in McpUsers, NEW w \in Processes, AskToken(c, p, w) PROVE TokensInv'
    <3>1. PICK at \in {"ended", "connect", "lock"} :
            \/ mcall' = [mcall EXCEPT ![c] = [NoCall EXCEPT !.who = p, !.at = at]]
            \/ mcall' = [mcall EXCEPT ![c] = [NoCall EXCEPT !.who = p, !.process = w, !.at = at]]
      BY <2>4 DEF AskToken
    <3>2. mcall[c].at # "put" /\ UNCHANGED <<stored, grants, minted, refreshing, disowned, spent, callback>>
      BY <2>4 DEF AskToken, authorizing
    <3>3. /\ [NoCall EXCEPT !.who = p, !.at = at].at = at
          /\ [NoCall EXCEPT !.who = p, !.process = w, !.at = at].at = at
      BY DEF NoCall
    <3> QED BY <2>2, <3>1, <3>2, <3>3
  <2>5. CASE ForgetRefused(c)
    <3>1. /\ mcall[c].at = "forget" /\ stored' = [stored EXCEPT ![KeyOf(c)] = Absent] /\ End(c)
          /\ refreshing' = [refreshing EXCEPT ![Lock(c)] = Free]
          /\ UNCHANGED <<grants, minted, disowned, spent, callback>>
      BY <2>5 DEF ForgetRefused, Forget, authorizing
    <3> QED BY <3>1, ReleaseKeepsTokens
  <2>7. \A s : [mcall[c] EXCEPT !.at = "call", !.session = s].at = "call" BY <2>1 DEF McpCallRecords
  <2>8. CASE UseSession(c)
    <3>1. mcall[c].at # "put" /\ UNCHANGED <<stored, grants, minted, refreshing, disowned, spent, callback>>
      BY <2>8 DEF UseSession, authorizing
    <3>2. CASE Go(c, "opening") BY <3>1, <3>2, <2>3
    <3>3. CASE ~Go(c, "opening")
      <4>1. PICK s : mcall' = [mcall EXCEPT ![c] = [mcall[c] EXCEPT !.at = "call", !.session = s]]
        BY <3>3, <2>8 DEF UseSession
      <4> QED BY <3>1, <4>1, <2>7, <2>2
    <3> QED BY <3>2, <3>3
  <2>9. ASSUME NEW works \in BOOLEAN, SessionOpened(c, works) PROVE TokensInv'
    <3>1. mcall[c].at # "put" /\ UNCHANGED <<stored, grants, minted, refreshing, disowned, spent, callback>>
      BY <2>9 DEF SessionOpened, authorizing
    <3>2. CASE End(c) BY <3>1, <3>2, <2>3
    <3>3. CASE ~End(c)
      <4>1. PICK s : mcall' = [mcall EXCEPT ![c] = [mcall[c] EXCEPT !.at = "call", !.session = s]]
        BY <3>3, <2>9 DEF SessionOpened
      <4> QED BY <3>1, <4>1, <2>7, <2>2
    <3> QED BY <3>2, <3>3
  <2>10. ASSUME NEW how, CallTool(c, how) PROVE TokensInv'
    <3>1. /\ mcall[c].at # "put" /\ UNCHANGED <<stored, grants, minted, refreshing, disowned, spent, callback>>
          /\ End(c)
      BY <2>10 DEF CallTool, authorizing
    <3> QED BY <3>1, <2>3
  <2>11. CASE TokenRejected(c)
    <3>1. mcall[c].at # "put" /\ UNCHANGED <<stored, grants, minted, refreshing, disowned, spent, callback>>
      BY <2>11 DEF TokenRejected, authorizing
    <3>2. PICK v : mcall' = [mcall EXCEPT ![c] = [mcall[c] EXCEPT !.at = "lock", !.rejected = v]]
      BY <2>11 DEF TokenRejected
    <3>3. [mcall[c] EXCEPT !.at = "lock", !.rejected = v].at = "lock" BY <2>1 DEF McpCallRecords
    <3> QED BY <3>1, <3>2, <3>3, <2>2
  <2> QED BY <1>5, <2>4, <2>5, <2>8, <2>9, <2>10, <2>11, LockKeepsTokens, AskKeepsTokens, PutKeepsTokens,
             RefusalKeepsTokens DEF McpCallStep
<1> QED BY <1>1, <1>2, <1>3, <1>4, <1>5 DEF McpNext, McpCallStep

-----------------------------------------------------------------------------
\* The invariant is inductive.
LEMMA McpInvKept == McpInv /\ [McpNext]_mcpVars => McpInv'
<1> SUFFICES ASSUME McpInv, [McpNext]_mcpVars PROVE McpInv' OBVIOUS
<1> USE DEF McpInv
<1>1. CASE McpNext
  <2>1. McpCallsInv'
    <3>1. ASSUME NEW c \in McpCalls, McpCallStep(c) PROVE McpCallsInv' BY <3>1, McpCallsKept
    <3>2. CASE UNCHANGED mcall BY <3>2 DEF McpCallsInv
    <3>3. ASSUME NEW k \in Keys,
                 Authorize(k) \/ Ages(k) \/ \E w \in Processes, reached \in BOOLEAN : Revoke(k, w, reached)
          PROVE  McpCallsInv'
      BY <3>2, <3>3 DEF Authorize, Ages, Revoke
    <3>4. ASSUME NEW b \in Callbacks,
                 \/ (\E a \in 1..begun : Complete(b, a)) \/ PutExchanged(b)
                 \/ \E ok, renewable \in BOOLEAN : Exchange(b, ok, renewable)
          PROVE  McpCallsInv'
      BY <3>2, <3>4 DEF Complete, PutExchanged, Exchange
    <3> QED BY <1>1, <3>1, <3>3, <3>4 DEF McpNext, McpCallStep
  <2> QED BY <1>1, <2>1, CodesKept, TableKept, TokensKept
<1>2. CASE UNCHANGED mcpVars
  <2> USE <1>2 DEF mcpVars, authorizing
  <2>1. \A c \in McpCalls : KeyOf(c)' = KeyOf(c) BY DEF KeyOf
  <2>2. McpCallsInv' BY DEF McpCallsInv
  <2>3. CodesInv' BY DEF CodesInv
  <2>4. TableInv'
    <3>1. UNCHANGED <<conns, sessions, opened, mcall>> OBVIOUS
    <3> QED BY <3>1, TableStays
  <2>5. TokensInv'
    <3>1. UNCHANGED <<stored, grants, minted, refreshing, disowned, spent, mcall, callback>> OBVIOUS
    <3> QED BY <3>1, TokensStay
  <2> QED BY <2>2, <2>3, <2>4, <2>5
<1> QED BY <1>1, <1>2

\* The invariant says what is to be shown of authorizations, sessions, their owners and refusals.
LEMMA McpInvSafe == McpInv => McpSafe
<1> SUFFICES ASSUME McpInv PROVE McpSafe OBVIOUS
<1> USE DEF McpInv
<1>1. McpTypeOK
  <2>1. \A k \in Keys : stored[k] = Absent \/ stored[k].version \in 1..MaxToken
    BY DEF TokensInv, TokenTypes, TokenSets
  <2>2. Len(conns) <= MaxOAuthConnections + 1 /\ opened \in 0..MaxSessions
    <3>1. conns \in Seq(Keys \X (1..MaxSessions)) /\ Len(conns) <= MaxOAuthConnections BY DEF TableInv
    <3>2. Len(conns) \in Nat BY <3>1
    <3> QED BY <3>1, <3>2, McpAssumption DEF TableInv
  <2> QED BY <2>1, <2>2 DEF McpTypeOK, TokensInv, TokenTypes, CodesInv
<1>2. StateUsedOnce BY DEF StateUsedOnce, CodesInv
<1>3. OwnSession
  <2> SUFFICES ASSUME NEW c \in McpCalls, mcall[c].at = "call", mcall[c].session \in DOMAIN sessions
               PROVE  /\ sessions[mcall[c].session] = KeyOf(c)
                      /\ TokenScope = "user" => sessions[mcall[c].session][2] = mcall[c].who.user
    BY DEF OwnSession
  <2>1. sessions[mcall[c].session] = KeyOf(c) BY DEF TableInv
  <2>2. TokenScope = "user" => KeyOf(c) = <<mcall[c].who.tenant, mcall[c].who.user>> BY DEF KeyOf, KeyFor
  <2> QED BY <2>1, <2>2
<1>4. SessionsKept
  <2>1. Entries(conns) = {<<sessions[s], s>> : s \in DOMAIN sessions} BY DEF TableInv
  <2>2. {conns[i][2] : i \in DOMAIN conns} = {e[2] : e \in Entries(conns)} BY DEF Entries
  <2>3. {e[2] : e \in Entries(conns)} = DOMAIN sessions
    <3>1. ASSUME NEW e \in Entries(conns) PROVE e[2] \in DOMAIN sessions BY <2>1
    <3>2. ASSUME NEW s \in DOMAIN sessions PROVE \E e \in Entries(conns) : e[2] = s
      <4>1. <<sessions[s], s>> \in Entries(conns) BY <2>1
      <4> QED BY <4>1
    <3> QED BY <3>1, <3>2
  <2> QED BY <2>2, <2>3 DEF SessionsKept, TableInv
<1>5. RefreshedOnce BY DEF RefreshedOnce, TokensInv, CallToken
<1> QED BY <1>1, <1>2, <1>3, <1>4, <1>5 DEF McpSafe

\* However callbacks, calls, refreshes, revocations and the refreshes of other processes overlap: an
\* authorization is exchanged once, a call runs on its own caller's session, no session is open that the
\* table does not have, and a connection is forgotten only without a refresh token, after the provider
\* ended it, or when its version was rotated for a lost answer or for another process: the calls of one
\* process never use a refresh token twice (mcp/oauth.py, mcp/tokens.py, mcp/client.py).
THEOREM McpIsSafe == McpSpec => []McpSafe
<1>1. McpSpec => []McpInv BY McpInitInv, McpInvKept, PTL DEF McpSpec
<1> QED BY <1>1, McpInvSafe, PTL

-----------------------------------------------------------------------------
(* TokenTrust.                                                             *)

Moments == Nat \cup {NoMoment}
TrustStages == {"idle", "key", "refresh", "fetch", "verify", "revocation", "admit", "refused"}
TrustRecords == [at : TrustStages, token : Tokens \cup {Nobody}, since : Moments]
KeyCaches == [keys : SUBSET Kids, fetched : Moments, attempt : Moments, lock : HttpRequests \cup {Nobody}]
Audits == [start : Moments, count : 0..AuditLimit, suppressed : Nat]
AuditRecords == [failures : Nat, written : Nat, reported : Nat]

TrustTypes ==
  /\ moment \in 0..TrustUntil /\ jwks \in KeyCaches /\ published \subseteq Kids
  /\ req \in [HttpRequests -> TrustRecords]
  /\ \A r \in HttpRequests : req[r].at \notin {"idle", "refused"} => req[r].token \in Tokens

\* The last question to the issuer is the one the cache remembers.
FetchesKnown ==
  /\ attempts \in Seq(Nat) /\ FetchesSpaced
  /\ jwks.attempt = NoMoment <=> attempts = <<>>
  /\ attempts # <<>> => attempts[Len(attempts)] = jwks.attempt

FailuresKnown == auditor \in Audits /\ records \in AuditRecords /\ FailuresCounted

\* The store has an entry for every revocation that has not ended, and a cutoff for every subject.
PromisesKept ==
  /\ IsFiniteSet(DOMAIN revoked) /\ DOMAIN revoked \subseteq Jtis /\ Cardinality(DOMAIN revoked) <= MaxRevocations
  /\ revoked \in [DOMAIN revoked -> Nat] /\ cutoffs \in [DOMAIN cutoffs -> Nat]
  /\ promised \in [({"jti"} \X Jtis) \cup ({"sub"} \X Subjects) -> Moments]
  /\ \A j \in Jtis : promised[<<"jti", j>>] > moment => j \in DOMAIN revoked /\ promised[<<"jti", j>>] <= revoked[j]
  /\ \A s \in Subjects : IF s \in DOMAIN cutoffs THEN promised[<<"sub", s>>] = cutoffs[s]
                         ELSE promised[<<"sub", s>>] = NoMoment

TrustInv == TrustTypes /\ FetchesKnown /\ FailuresKnown /\ PromisesKept

\* The later of two moments.
LEMMA LaterOf ==
  ASSUME NEW a \in Moments, NEW b \in Moments
  PROVE  /\ Maximum({a, b}) = IF a <= b THEN b ELSE a
         /\ Maximum({a, b}) \in Moments /\ a <= Maximum({a, b}) /\ b <= Maximum({a, b})
<1>1. a \in Int /\ b \in Int BY DEF Moments, NoMoment
<1>2. \E x \in {a, b} : \A y \in {a, b} : y <= x BY <1>1
<1>3. /\ Maximum({a, b}) \in {a, b} /\ \A y \in {a, b} : y <= Maximum({a, b}) BY <1>2 DEF Maximum
<1> QED BY <1>1, <1>3 DEF Moments

\* Nothing was asked, refused or revoked.
LEMMA TrustInitInv == TrustInit => TrustInv
<1> SUFFICES ASSUME TrustInit PROVE TrustInv OBVIOUS
<1> USE DEF TrustInit
<1>1. TrustTypes
  <2>1. Resting \in TrustRecords /\ Resting.at = "idle" BY DEF Resting, TrustRecords, TrustStages, Moments
  <2>2. jwks \in KeyCaches BY DEF KeyCaches, Moments
  <2>3. moment \in 0..TrustUntil /\ published \subseteq Kids BY TrustAssumption
  <2> QED BY <2>1, <2>2, <2>3 DEF TrustTypes
<1>2. FetchesKnown BY DEF FetchesKnown, FetchesSpaced
<1>3. FailuresKnown BY TrustAssumption DEF FailuresKnown, FailuresCounted, Audits, AuditRecords, Moments
<1>4. PromisesKept
  <2>1. DOMAIN revoked = {} /\ DOMAIN cutoffs = {} OBVIOUS
  <2>2. IsFiniteSet(DOMAIN revoked) /\ Cardinality(DOMAIN revoked) <= MaxRevocations
    BY <2>1, FS_EmptySet, TrustAssumption
  <2>3. promised \in [({"jti"} \X Jtis) \cup ({"sub"} \X Subjects) -> Moments] BY DEF Moments
  <2>4. \A j \in Jtis : ~(promised[<<"jti", j>>] > moment) BY DEF NoMoment
  <2>5. \A s \in Subjects : promised[<<"sub", s>>] = NoMoment OBVIOUS
  <2> QED BY <2>1, <2>2, <2>3, <2>4, <2>5 DEF PromisesKept
<1> QED BY <1>1, <1>2, <1>3, <1>4 DEF TrustInv

\* A request goes on, and nothing else changes.
LEMMA RequestGoes ==
  ASSUME TrustTypes, NEW r \in HttpRequests, NEW at \in TrustStages, UNCHANGED <<moment, published>>, jwks' \in KeyCaches,
         req[r].token \in Tokens \/ at \in {"idle", "refused"},
         req' = [req EXCEPT ![r] = [@ EXCEPT !.at = at]]
  PROVE  TrustTypes'
<1>1. req[r] \in TrustRecords BY DEF TrustTypes
<1> DEFINE q == [req[r] EXCEPT !.at = at]
<1>2. q \in TrustRecords /\ q.at = at /\ q.token = req[r].token BY <1>1 DEF TrustRecords
<1>3. req' = [req EXCEPT ![r] = q] OBVIOUS
<1> HIDE DEF q
<1> QED BY <1>2, <1>3 DEF TrustTypes

\* A refusal is audited once.
LEMMA RefusalCounted ==
  ASSUME TrustTypes, FailuresKnown, NEW r \in HttpRequests, Refuse(r)
  PROVE  FailuresKnown'
<1>1. /\ auditor \in Audits /\ records \in AuditRecords /\ moment \in Nat
      /\ auditor.count \in 0..AuditLimit /\ auditor.suppressed \in Nat /\ AuditLimit \in Nat /\ 0 \in 0..AuditLimit
      /\ records.failures \in Nat /\ records.written \in Nat /\ records.reported \in Nat
      /\ records.failures = records.written + records.reported + auditor.suppressed
  BY TrustAssumption DEF FailuresKnown, FailuresCounted, TrustTypes, Audits, AuditRecords
<1> DEFINE b == IF NewWindow(auditor) THEN [start |-> moment, count |-> 0, suppressed |-> 0] ELSE auditor
<1>2. b \in Audits BY <1>1 DEF Audits, Moments
<1>3. b.count = (IF NewWindow(auditor) THEN 0 ELSE auditor.count)
      /\ b.suppressed = (IF NewWindow(auditor) THEN 0 ELSE auditor.suppressed)
  OBVIOUS
<1>4. auditor' = (IF b.count >= AuditLimit THEN [b EXCEPT !.suppressed = @ + 1] ELSE [b EXCEPT !.count = @ + 1])
      /\ AuditFailure(auditor) = auditor'
  BY DEF Refuse, AuditFailure
<1> HIDE DEF b
<1>5. PICK n \in 0..AuditLimit, k \in Nat : n = b.count /\ k = b.suppressed BY <1>2 DEF Audits
<1>6. CASE n >= AuditLimit
  <2>1. PICK v \in Nat : v = k + 1 OBVIOUS
  <2>2. auditor' = [b EXCEPT !.suppressed = v] BY <1>4, <1>5, <1>6, <2>1
  <2>3. auditor' \in Audits /\ auditor'.count = n /\ auditor'.suppressed = k + 1 BY <1>2, <1>5, <2>1, <2>2 DEF Audits
  <2>4. records' = [failures |-> records.failures + 1, written |-> records.written,
                    reported |-> records.reported + Reported(auditor)]
    BY <1>1, <1>3, <1>4, <1>5, <2>3 DEF Refuse
  <2>5. Reported(auditor) \in Nat /\ Reported(auditor) + k = auditor.suppressed BY <1>1, <1>3, <1>5 DEF Reported
  <2> QED BY <1>1, <2>3, <2>4, <2>5 DEF FailuresKnown, FailuresCounted, AuditRecords
<1>7. CASE ~(n >= AuditLimit)
  <2>1. PICK v \in 0..AuditLimit : v = n + 1 BY <1>1, <1>7
  <2>2. auditor' = [b EXCEPT !.count = v] BY <1>4, <1>5, <1>7, <2>1
  <2>3. auditor' \in Audits /\ auditor'.count = n + 1 /\ auditor'.suppressed = k BY <1>2, <1>5, <2>1, <2>2 DEF Audits
  <2>4. records' = [failures |-> records.failures + 1, written |-> records.written + 1,
                    reported |-> records.reported + Reported(auditor)]
    BY <1>1, <1>3, <1>4, <1>5, <2>3 DEF Refuse
  <2>5. Reported(auditor) \in Nat /\ Reported(auditor) + k = auditor.suppressed BY <1>1, <1>3, <1>5 DEF Reported
  <2> QED BY <1>1, <2>3, <2>4, <2>5 DEF FailuresKnown, FailuresCounted, AuditRecords
<1> QED BY <1>6, <1>7

\* A token arrives, or a request takes a step that asks, revokes and audits nothing.
LEMMA RequestKeeps ==
  ASSUME TrustInv, NEW r \in HttpRequests,
         (\E t \in Tokens : Arrive(r, t)) \/ FindKey(r) \/ StartRefresh(r) \/ (\E ok \in BOOLEAN : EndRefresh(r, ok))
  PROVE  TrustInv'
<1>0. UNCHANGED <<moment, published, revoked, cutoffs, promised, auditor, records>>
  BY DEF Arrive, FindKey, StartRefresh, EndRefresh
<1>1. /\ TrustTypes /\ FetchesKnown /\ UNCHANGED <<moment, published, revoked, cutoffs, promised, auditor, records>>
      /\ jwks \in KeyCaches /\ moment \in Nat
  BY <1>0, TrustAssumption DEF TrustInv, TrustTypes
<1>2. FailuresKnown' BY <1>1 DEF TrustInv, FailuresKnown, FailuresCounted
<1>3. PromisesKept' BY <1>1 DEF TrustInv, PromisesKept
<1>4. ASSUME UNCHANGED <<jwks, attempts>>, TrustTypes' PROVE TrustInv'
  <2>1. FetchesKnown' BY <1>1, <1>4 DEF FetchesKnown, FetchesSpaced
  <2> QED BY <1>2, <1>3, <1>4, <2>1 DEF TrustInv
<1>5. CASE \E t \in Tokens : Arrive(r, t)
  <2>1. PICK t \in Tokens : Arrive(r, t) BY <1>5
  <2> DEFINE q == [Resting EXCEPT !.at = "key", !.token = t, !.since = moment]
  <2>2. q \in TrustRecords /\ q.token = t BY <1>1 DEF Resting, TrustRecords, TrustStages, Moments
  <2>3. req' = [req EXCEPT ![r] = q] /\ UNCHANGED <<jwks, attempts>> BY <2>1 DEF Arrive
  <2> HIDE DEF q
  <2>4. TrustTypes' BY <1>1, <2>2, <2>3 DEF TrustTypes
  <2> QED BY <1>4, <2>3, <2>4
<1>6. CASE FindKey(r)
  <2>1. PICK at \in {"refresh", "verify"} : req' = [req EXCEPT ![r] = [@ EXCEPT !.at = at]] BY <1>6 DEF FindKey
  <2>2. UNCHANGED <<jwks, attempts>> /\ req[r].token \in Tokens BY <1>1, <1>6 DEF FindKey, TrustTypes
  <2>3. jwks' \in KeyCaches BY <1>1, <2>2
  <2>4. TrustTypes' BY <1>1, <2>1, <2>2, <2>3, RequestGoes DEF TrustStages
  <2> QED BY <1>4, <2>2, <2>4
<1>7. CASE StartRefresh(r) /\ TooSoon
  <2>1. /\ UNCHANGED <<jwks, attempts>> /\ req[r].token \in Tokens
        /\ req' = [req EXCEPT ![r] = [@ EXCEPT !.at = "verify"]]
    BY <1>1, <1>7 DEF StartRefresh, TrustTypes
  <2>2. jwks' \in KeyCaches BY <1>1, <2>1
  <2>3. TrustTypes' BY <1>1, <2>1, <2>2, RequestGoes DEF TrustStages
  <2> QED BY <1>4, <2>1, <2>3
<1>8. CASE StartRefresh(r) /\ ~TooSoon
  <2>1. /\ req[r].token \in Tokens /\ req[r] \in TrustRecords
        /\ req' = [req EXCEPT ![r] = [@ EXCEPT !.at = "fetch", !.since = moment]]
        /\ jwks' = [jwks EXCEPT !.attempt = moment, !.lock = r] /\ attempts' = Append(attempts, moment)
        /\ jwks.attempt # NoMoment => ~(moment - jwks.attempt < MinInterval)
    BY <1>1, <1>8 DEF StartRefresh, TrustTypes, TooSoon
  <2> DEFINE q == [req[r] EXCEPT !.at = "fetch", !.since = moment]
  <2>2. q \in TrustRecords /\ q.token = req[r].token BY <1>1, <2>1 DEF TrustRecords, TrustStages, Moments
  <2>3. req' = [req EXCEPT ![r] = q] BY <2>1
  <2>4. jwks' \in KeyCaches /\ jwks'.attempt = moment BY <1>1, <2>1 DEF KeyCaches, Moments
  <2> HIDE DEF q
  <2>5. TrustTypes' BY <1>1, <2>1, <2>2, <2>3, <2>4 DEF TrustTypes
  <2>6. FetchesKnown'
    <3>1. /\ attempts' \in Seq(Nat) /\ Len(attempts') = Len(attempts) + 1 /\ attempts'[Len(attempts')] = moment
          /\ \A i \in DOMAIN attempts : attempts'[i] = attempts[i] /\ i \in 1..Len(attempts)
          /\ DOMAIN attempts' = 1..(Len(attempts) + 1) /\ DOMAIN attempts = 1..Len(attempts) /\ attempts' # <<>>
      BY <1>1, <2>1 DEF FetchesKnown
    <3>2. attempts # <<>> => moment - attempts[Len(attempts)] >= MinInterval /\ Len(attempts) # 0
      <4>1. Len(attempts) \in Nat /\ (attempts # <<>> => attempts[Len(attempts)] \in Nat /\ Len(attempts) # 0)
        BY <1>1 DEF FetchesKnown
      <4> QED BY <1>1, <2>1, <4>1, TrustAssumption DEF FetchesKnown
    <3>3. ASSUME NEW i \in DOMAIN attempts', i + 1 \in DOMAIN attempts'
          PROVE  attempts'[i + 1] - attempts'[i] >= MinInterval
      <4>1. CASE i + 1 \in DOMAIN attempts
        <5>1. i \in DOMAIN attempts BY <3>1, <4>1
        <5> QED BY <1>1, <3>1, <4>1, <5>1 DEF FetchesKnown, FetchesSpaced
      <4>2. CASE i + 1 \notin DOMAIN attempts
        <5>1. Len(attempts) \in Nat /\ i \in 1..(Len(attempts) + 1) /\ i + 1 \in 1..(Len(attempts) + 1) /\ i + 1 \notin 1..Len(attempts)
          BY <1>1, <3>1, <3>3, <4>2 DEF FetchesKnown
        <5>2. i = Len(attempts) /\ i \in 1..Len(attempts) /\ i + 1 = Len(attempts') BY <3>1, <5>1
        <5>3. attempts # <<>> BY <5>1, <5>2
        <5>4. attempts'[i] = attempts[Len(attempts)] /\ attempts'[i + 1] = moment BY <3>1, <5>2
        <5> QED BY <3>2, <5>3, <5>4
      <4> QED BY <4>1, <4>2
    <3>4. FetchesSpaced' BY <3>3 DEF FetchesSpaced
    <3>5. moment # NoMoment BY <1>1 DEF NoMoment
    <3> QED BY <2>4, <3>1, <3>4, <3>5 DEF FetchesKnown
  <2> QED BY <1>2, <1>3, <2>5, <2>6 DEF TrustInv
<1>9. CASE \E ok \in BOOLEAN : EndRefresh(r, ok)
  <2>1. PICK ok \in BOOLEAN : EndRefresh(r, ok) BY <1>9
  <2>2. /\ req[r].token \in Tokens /\ req[r].since \in Moments /\ published \in SUBSET Kids /\ attempts' = attempts
        /\ req' = [req EXCEPT ![r] = [@ EXCEPT !.at = "verify"]]
    BY <1>1, <2>1 DEF EndRefresh, TrustTypes, TrustRecords
  <2>3. jwks' \in KeyCaches /\ jwks'.attempt = jwks.attempt
    <3>1. CASE ok
      <4>1. jwks' = [keys |-> published, fetched |-> req[r].since, attempt |-> jwks.attempt, lock |-> Nobody]
        BY <2>1, <3>1 DEF EndRefresh
      <4> QED BY <1>1, <2>2, <4>1 DEF KeyCaches
    <3>2. CASE ~ok
      <4>1. jwks' = [jwks EXCEPT !.lock = Nobody] BY <2>1, <3>2 DEF EndRefresh
      <4> QED BY <1>1, <4>1 DEF KeyCaches
    <3> QED BY <3>1, <3>2
  <2>4. TrustTypes' BY <1>1, <2>2, <2>3, RequestGoes DEF TrustStages
  <2>5. FetchesKnown' BY <1>1, <2>2, <2>3 DEF FetchesKnown, FetchesSpaced
  <2> QED BY <1>2, <1>3, <2>4, <2>5 DEF TrustInv
<1> QED BY <1>5, <1>6, <1>7, <1>8, <1>9

\* A token is verified and its revocation checked, or it is refused (verify, _check_revocation).
LEMMA VerdictKeeps ==
  ASSUME TrustInv, NEW r \in HttpRequests, VerifyToken(r) \/ (\E fails \in BOOLEAN : CheckRevocation(r, fails))
  PROVE  TrustInv'
<1>1. /\ UNCHANGED <<moment, jwks, published, attempts, revoked, cutoffs, promised>>
      /\ \/ Refuse(r)
         \/ UNCHANGED <<auditor, records>>
            /\ \E at \in {"revocation", "admit"} : req' = [req EXCEPT ![r] = [@ EXCEPT !.at = at]]
      /\ req[r].at \in {"verify", "revocation"}
  BY DEF VerifyToken, CheckRevocation
<1>2. TrustTypes /\ jwks' \in KeyCaches /\ req[r].token \in Tokens BY <1>1 DEF TrustInv, TrustTypes
<1>3. FetchesKnown' /\ PromisesKept' BY <1>1 DEF TrustInv, FetchesKnown, FetchesSpaced, PromisesKept
<1>4. CASE Refuse(r)
  <2>1. FailuresKnown' BY <1>4, RefusalCounted DEF TrustInv
  <2>2. req' = [req EXCEPT ![r] = [@ EXCEPT !.at = "refused"]] BY <1>4 DEF Refuse
  <2>3. TrustTypes' BY <1>1, <1>2, <2>2, RequestGoes DEF TrustStages
  <2> QED BY <1>3, <2>1, <2>3 DEF TrustInv
<1>5. CASE ~Refuse(r)
  <2>1. PICK at \in {"revocation", "admit"} : req' = [req EXCEPT ![r] = [@ EXCEPT !.at = at]] BY <1>1, <1>5
  <2>2. TrustTypes' BY <1>1, <1>2, <2>1, RequestGoes DEF TrustStages
  <2>3. FailuresKnown' BY <1>1, <1>5 DEF TrustInv, FailuresKnown, FailuresCounted
  <2> QED BY <1>3, <2>2, <2>3 DEF TrustInv
<1> QED BY <1>4, <1>5

\* Entries that have ended may go.
LEMMA EntriesEnd ==
  ASSUME PromisesKept, moment \in Nat
  PROVE  /\ IsFiniteSet(Unexpired) /\ Unexpired \subseteq DOMAIN revoked /\ Cardinality(Unexpired) <= MaxRevocations
         /\ \A j \in Jtis : promised[<<"jti", j>>] > moment => j \in Unexpired
         /\ Cardinality(Unexpired) \in Nat
<1>1. Unexpired \subseteq DOMAIN revoked BY DEF Unexpired
<1>2. IsFiniteSet(Unexpired) /\ Cardinality(Unexpired) <= Cardinality(DOMAIN revoked)
  BY <1>1, FS_Subset DEF PromisesKept
<1>3. Cardinality(Unexpired) \in Nat /\ Cardinality(DOMAIN revoked) \in Nat
  BY <1>2, FS_CardinalityType DEF PromisesKept
<1>4. ASSUME NEW j \in Jtis, promised[<<"jti", j>>] > moment PROVE j \in Unexpired
  <2>1. j \in DOMAIN revoked /\ promised[<<"jti", j>>] <= revoked[j] /\ revoked[j] \in Nat
        /\ promised[<<"jti", j>>] \in Int
    BY <1>4 DEF PromisesKept, Moments, NoMoment
  <2> QED BY <1>4, <2>1 DEF Unexpired
<1> QED BY <1>1, <1>2, <1>3, <1>4, TrustAssumption DEF PromisesKept

\* A revocation keeps the latest end it was asked for; a purge takes only entries that have ended.
LEMMA RevokeKeeps ==
  ASSUME TrustInv, (\E j \in Jtis, end \in 0..TrustUntil : RevokeToken(j, end)) \/ PurgeExpired
  PROVE  TrustInv'
<1>0. UNCHANGED <<moment, jwks, published, attempts, cutoffs, req, auditor, records>>
  BY DEF RevokeToken, PurgeExpired
<1>1. PromisesKept /\ moment \in Nat /\ TrustTypes' /\ FetchesKnown' /\ FailuresKnown'
  BY <1>0, TrustAssumption DEF TrustInv, TrustTypes, FetchesKnown, FetchesSpaced, FailuresKnown, FailuresCounted
<1>2. CASE revoked' = [x \in Unexpired |-> revoked[x]] /\ UNCHANGED promised
  <2>1. DOMAIN revoked' = Unexpired /\ \A x \in Unexpired : revoked'[x] = revoked[x] /\ revoked[x] \in Nat
    BY <1>1, <1>2, EntriesEnd DEF PromisesKept
  <2>2. IsFiniteSet(DOMAIN revoked') /\ DOMAIN revoked' \subseteq Jtis /\ Cardinality(DOMAIN revoked') <= MaxRevocations
    BY <1>1, <2>1, EntriesEnd DEF PromisesKept
  <2>3. revoked' \in [DOMAIN revoked' -> Nat] BY <1>2, <2>1
  <2>4. \A j \in Jtis : promised[<<"jti", j>>] > moment => j \in Unexpired /\ promised[<<"jti", j>>] <= revoked'[j]
    BY <1>1, <2>1, EntriesEnd DEF PromisesKept
  <2>5. PromisesKept' BY <1>0, <1>1, <1>2, <2>1, <2>2, <2>3, <2>4 DEF PromisesKept
  <2> QED BY <1>1, <2>5 DEF TrustInv
<1>3. ASSUME NEW j \in Jtis, NEW end \in 0..TrustUntil, RevokeToken(j, end), ~(end <= moment) PROVE TrustInv'
  <2> DEFINE later == IF j \in Unexpired THEN LatestEnd(revoked[j], end) ELSE end
             told == promised[<<"jti", j>>]
  <2>1. /\ j \in Unexpired \/ Cardinality(Unexpired) < MaxRevocations
        /\ revoked' = [x \in Unexpired \cup {j} |-> IF x # j THEN revoked[x] ELSE later]
        /\ promised' = [promised EXCEPT ![<<"jti", j>>] = Maximum({told, end})]
    BY <1>3 DEF RevokeToken
  <2>2. end \in Nat /\ end \in Moments /\ told \in Moments /\ told \in Int /\ end > moment
        /\ (j \in Unexpired => revoked[j] \in Nat /\ revoked[j] \in Moments)
    <3>1. end \in Nat /\ end \in Int BY TrustAssumption
    <3>2. told \in Moments BY <1>1 DEF PromisesKept
    <3>3. j \in Unexpired => revoked[j] \in Nat BY <1>1 DEF PromisesKept, Unexpired
    <3> QED BY <1>1, <1>3, <3>1, <3>2, <3>3 DEF Moments, NoMoment
  <2>3. /\ Maximum({told, end}) = (IF told <= end THEN end ELSE told) /\ Maximum({told, end}) \in Moments
    BY <2>2, LaterOf
  <2>4. later \in Nat /\ end <= later /\ (j \in Unexpired => revoked[j] <= later)
    <3>1. CASE j \in Unexpired
      <4>1. Maximum({revoked[j], end}) = (IF revoked[j] <= end THEN end ELSE revoked[j]) BY <2>2, <3>1, LaterOf
      <4> QED BY <2>2, <3>1, <4>1 DEF LatestEnd
    <3>2. CASE j \notin Unexpired BY <2>2, <3>2
    <3> QED BY <3>1, <3>2
  <2>5. told > moment => j \in Unexpired /\ told <= revoked[j] BY <1>1, EntriesEnd DEF PromisesKept
  <2>6. Maximum({told, end}) <= later BY <1>1, <2>2, <2>3, <2>4, <2>5
  <2> HIDE DEF later, told
  <2>7. /\ promised' \in [({"jti"} \X Jtis) \cup ({"sub"} \X Subjects) -> Moments]
        /\ promised'[<<"jti", j>>] <= later
        /\ \A i \in Jtis : i # j => promised'[<<"jti", i>>] = promised[<<"jti", i>>]
        /\ \A s \in Subjects : promised'[<<"sub", s>>] = promised[<<"sub", s>>]
    BY <1>1, <2>1, <2>3, <2>6 DEF PromisesKept
  <2>8. /\ DOMAIN revoked' = Unexpired \cup {j} /\ revoked'[j] = later
        /\ \A x \in Unexpired : x # j => revoked'[x] = revoked[x] /\ revoked[x] \in Nat
    BY <1>1, <2>1 DEF PromisesKept, Unexpired
  <2>9. /\ IsFiniteSet(DOMAIN revoked') /\ DOMAIN revoked' \subseteq Jtis
        /\ Cardinality(DOMAIN revoked') <= MaxRevocations
    <3>1. CASE j \in Unexpired
      <4>1. DOMAIN revoked' = Unexpired BY <2>8, <3>1
      <4> QED BY <1>1, <4>1, EntriesEnd DEF PromisesKept
    <3>2. CASE j \notin Unexpired
      <4>1. IsFiniteSet(Unexpired) /\ Cardinality(Unexpired) \in Nat /\ Unexpired \subseteq Jtis
        BY <1>1, EntriesEnd DEF PromisesKept
      <4>2. IsFiniteSet(Unexpired \cup {j}) /\ Cardinality(Unexpired \cup {j}) = Cardinality(Unexpired) + 1
        BY <3>2, <4>1, FS_AddElement
      <4> QED BY <2>1, <2>8, <3>2, <4>1, <4>2, TrustAssumption
    <3> QED BY <3>1, <3>2
  <2>10. revoked' \in [DOMAIN revoked' -> Nat] BY <2>1, <2>4, <2>8
  <2>11. \A i \in Jtis : promised'[<<"jti", i>>] > moment =>
           i \in DOMAIN revoked' /\ promised'[<<"jti", i>>] <= revoked'[i]
    BY <1>1, <2>7, <2>8, EntriesEnd DEF PromisesKept
  <2>12. PromisesKept' BY <1>0, <1>1, <2>7, <2>9, <2>10, <2>11 DEF PromisesKept
  <2> QED BY <1>1, <2>12 DEF TrustInv
<1>4. ASSUME NEW j \in Jtis, NEW end \in 0..TrustUntil, RevokeToken(j, end), end <= moment PROVE TrustInv'
  BY <1>2, <1>4 DEF RevokeToken
<1>5. CASE PurgeExpired BY <1>2, <1>5 DEF PurgeExpired
<1> QED BY <1>3, <1>4, <1>5

\* A subject's cutoff only moves forward (revoke_subject).
LEMMA CutoffKeeps ==
  ASSUME TrustInv, NEW s \in Subjects, NEW cutoff \in 0..TrustUntil, RevokeSubject(s, cutoff)
  PROVE  TrustInv'
<1>1. PromisesKept /\ TrustTypes' /\ FetchesKnown' /\ FailuresKnown' /\ UNCHANGED <<moment, revoked>>
  BY DEF TrustInv, TrustTypes, FetchesKnown, FetchesSpaced, FailuresKnown, FailuresCounted, RevokeSubject
<1> DEFINE told == promised[<<"sub", s>>]
           later == IF s \in DOMAIN cutoffs THEN LaterCutoff(cutoffs[s], cutoff) ELSE cutoff
<1>2. /\ cutoffs' = [x \in DOMAIN cutoffs \cup {s} |-> IF x # s THEN cutoffs[x] ELSE later]
      /\ promised' = [promised EXCEPT ![<<"sub", s>>] = Maximum({told, cutoff})]
  BY DEF RevokeSubject
<1>3. cutoff \in Nat /\ cutoff \in Moments /\ told \in Moments
      /\ IF s \in DOMAIN cutoffs THEN told = cutoffs[s] /\ told \in Nat ELSE told = NoMoment
  BY <1>1, TrustAssumption DEF PromisesKept, Moments
<1>4. Maximum({told, cutoff}) = (IF told <= cutoff THEN cutoff ELSE told) /\ Maximum({told, cutoff}) \in Moments
  BY <1>3, LaterOf
<1>5. later = Maximum({told, cutoff}) /\ later \in Nat BY <1>3, <1>4 DEF LaterCutoff, NoMoment
<1> HIDE DEF told, later
<1>6. /\ promised' \in [({"jti"} \X Jtis) \cup ({"sub"} \X Subjects) -> Moments]
      /\ promised'[<<"sub", s>>] = later
      /\ \A i \in Jtis : promised'[<<"jti", i>>] = promised[<<"jti", i>>]
      /\ \A x \in Subjects : x # s => promised'[<<"sub", x>>] = promised[<<"sub", x>>]
  BY <1>1, <1>2, <1>4, <1>5 DEF PromisesKept
<1>7. /\ DOMAIN cutoffs' = DOMAIN cutoffs \cup {s} /\ cutoffs'[s] = later
      /\ \A x \in DOMAIN cutoffs : x # s => cutoffs'[x] = cutoffs[x] /\ cutoffs[x] \in Nat
  BY <1>1, <1>2 DEF PromisesKept
<1>8. cutoffs' \in [DOMAIN cutoffs' -> Nat] BY <1>2, <1>5, <1>7
<1>9. PromisesKept' BY <1>1, <1>6, <1>7, <1>8 DEF PromisesKept
<1> QED BY <1>1, <1>9 DEF TrustInv

\* Every step of a request, of an operator, of time and of the issuer keeps what was promised.
LEMMA TrustInvKept == TrustInv /\ [TrustNext]_trustVars => TrustInv'
<1> SUFFICES ASSUME TrustInv, [TrustNext]_trustVars PROVE TrustInv' OBVIOUS
<1>1. CASE UNCHANGED trustVars
  BY <1>1 DEF trustVars, TrustInv, TrustTypes, FetchesKnown, FetchesSpaced, FailuresKnown, FailuresCounted, PromisesKept
<1>2. CASE Passes
  <2>1. /\ moment' = moment + 1 /\ moment' \in 0..TrustUntil /\ moment \in Nat
        /\ UNCHANGED <<jwks, published, attempts, revoked, cutoffs, promised, req, auditor, records>>
    BY <1>2, TrustAssumption DEF Passes, TrustInv, TrustTypes
  <2>2. \A j \in Jtis : promised[<<"jti", j>>] \in Int
    <3>1. \A j \in Jtis : promised[<<"jti", j>>] \in Moments BY DEF TrustInv, PromisesKept
    <3>2. \A v \in Moments : v \in Int BY DEF Moments, NoMoment
    <3> QED BY <3>1, <3>2, Zenon
  <2>3. PromisesKept' BY <2>1, <2>2 DEF TrustInv, PromisesKept
  <2> QED BY <2>1, <2>3 DEF TrustInv, TrustTypes, FetchesKnown, FetchesSpaced, FailuresKnown, FailuresCounted
<1>3. CASE RotateKeys
  BY <1>3 DEF RotateKeys, TrustInv, TrustTypes, FetchesKnown, FetchesSpaced, FailuresKnown, FailuresCounted, PromisesKept
<1> QED BY <1>1, <1>2, <1>3, RequestKeeps, VerdictKeeps, RevokeKeeps, CutoffKeeps DEF TrustNext

\* A revoked token is never admitted, the issuer is asked at most once in an interval and every
\* failure is counted, for any number of requests, tokens and keys and any limits of the stores
\* (auth/oidc.py, auth/jwks.py, auth/revocation.py, auth/audit.py).
THEOREM TrustIsSafe == TrustSpec => TrustSafe
<1>1. TrustInv => TrustTypeOK /\ FetchesSpaced /\ FailuresCounted
  BY DEF TrustInv, TrustTypes, KeyCaches, FetchesKnown, FailuresKnown, PromisesKept, Audits, TrustTypeOK
<1>2. TrustInv /\ [TrustNext]_trustVars => [RevocationStands]_trustVars
  <2> SUFFICES ASSUME TrustInv, TrustNext, NEW r \in HttpRequests, req[r].at = "revocation", req'[r].at = "admit"
               PROVE  LET t == TokenOf[req[r].token]
                      IN  /\ t.jti # "" => promised[<<"jti", t.jti>>] <= moment
                          /\ t.iat > promised[<<"sub", t.sub>>]
    BY DEF RevocationStands
  <2>0. req[r].at = "revocation" /\ req'[r].at = "admit" OBVIOUS
  <2>1. /\ req \in [HttpRequests -> TrustRecords] /\ req[r].token \in Tokens /\ moment \in Nat
    BY TrustAssumption DEF TrustInv, TrustTypes
  <2>2. PICK q \in HttpRequests : \/ \E t \in Tokens : Arrive(q, t)
                                  \/ FindKey(q) \/ StartRefresh(q) \/ VerifyToken(q)
                                  \/ \E ok \in BOOLEAN : EndRefresh(q, ok)
                                  \/ \E fails \in BOOLEAN : CheckRevocation(q, fails)
    <3>1. req' # req BY <2>0
    <3> QED BY <3>1 DEF TrustNext, Passes, PurgeExpired, RotateKeys, RevokeToken, RevokeSubject
  <2>3. \E x : req' = [req EXCEPT ![q] = x]
    <3>1. ASSUME NEW t \in Tokens, Arrive(q, t) PROVE \E x : req' = [req EXCEPT ![q] = x] BY <3>1 DEF Arrive
    <3>2. CASE FindKey(q) BY <3>2 DEF FindKey
    <3>3. CASE StartRefresh(q) BY <3>3 DEF StartRefresh
    <3>4. ASSUME NEW ok \in BOOLEAN, EndRefresh(q, ok) PROVE \E x : req' = [req EXCEPT ![q] = x] BY <3>4 DEF EndRefresh
    <3>5. CASE Refuse(q) BY <3>5 DEF Refuse
    <3>6. CASE VerifyToken(q) BY <3>5, <3>6 DEF VerifyToken
    <3>7. ASSUME NEW fails \in BOOLEAN, CheckRevocation(q, fails) PROVE \E x : req' = [req EXCEPT ![q] = x]
      BY <3>5, <3>7 DEF CheckRevocation
    <3> QED BY <2>2, <3>1, <3>2, <3>3, <3>4, <3>6, <3>7
  <2>4. q = r BY <2>0, <2>1, <2>3
  <2>5. PICK fails \in BOOLEAN : CheckRevocation(r, fails)
    <3>1. ~(\E t \in Tokens : Arrive(r, t)) BY <2>0 DEF Arrive
    <3>2. ~FindKey(r) /\ ~VerifyToken(r) BY <2>0 DEF FindKey, VerifyToken
    <3>3. ~StartRefresh(r) BY <2>0 DEF StartRefresh
    <3>4. ~(\E ok \in BOOLEAN : EndRefresh(r, ok)) BY <2>0 DEF EndRefresh
    <3> QED BY <2>2, <2>4, <3>1, <3>2, <3>3, <3>4
  <2>6. ~TokenRevoked(req[r].token) /\ ~SubjectRevoked(req[r].token)
    <3>1. ASSUME Refuse(r) PROVE FALSE
      <4>1. req' = [req EXCEPT ![r] = [@ EXCEPT !.at = "refused"]] BY <3>1 DEF Refuse
      <4>2. req[r] \in TrustRecords BY <2>1
      <4>3. [req[r] EXCEPT !.at = "refused"].at = "refused" BY <4>2 DEF TrustRecords
      <4> QED BY <2>0, <2>1, <4>1, <4>3
    <3> QED BY <2>5, <3>1 DEF CheckRevocation
  <2> DEFINE t == TokenOf[req[r].token]
  <2>7. t.iat \in Nat /\ t.sub \in Subjects /\ PromisesKept /\ moment \in Nat
    BY <2>1, TrustAssumption DEF Subjects, TrustInv
  <2> DEFINE cutoff == promised[<<"sub", t.sub>>]
  <2>8. cutoff = IF t.sub \in DOMAIN cutoffs THEN cutoffs[t.sub] ELSE NoMoment BY <2>7, Zenon DEF PromisesKept
  <2> HIDE DEF cutoff
  <2>9. t.iat > cutoff
    <3>1. t.sub \in DOMAIN cutoffs => cutoffs[t.sub] \in Nat /\ ~(t.iat <= cutoffs[t.sub])
      BY <2>6, <2>7 DEF SubjectRevoked, PromisesKept
    <3> QED BY <2>7, <2>8, <3>1 DEF NoMoment
  <2>10. ASSUME t.jti \in Jtis PROVE promised[<<"jti", t.jti>>] <= moment
    <3> DEFINE end == promised[<<"jti", t.jti>>]
    <3>1. end \in Moments BY <2>7, <2>10 DEF PromisesKept
    <3>2. end > moment => t.jti \in Unexpired BY <2>7, <2>10, EntriesEnd, Zenon
    <3>3. t.jti \notin Unexpired BY <2>6 DEF TokenRevoked, Unexpired
    <3> HIDE DEF end
    <3>4. end <= moment BY <2>7, <3>1, <3>2, <3>3 DEF Moments, NoMoment
    <3> QED BY <3>4 DEF end
  <2>11. t.jti # "" => t.jti \in Jtis BY <2>1, Zenon DEF Jtis
  <2> QED BY <2>9, <2>10, <2>11, Zenon DEF cutoff
<1> QED BY <1>1, <1>2, TrustInitInv, TrustInvKept, PTL DEF TrustSpec, TrustSafe

-----------------------------------------------------------------------------
(* ResponseCache.                                                          *)

CacheStages == {"idle", "bypass", "claim", "wait", "load", "store", "release", "served", "raised"}
CacheVals == [tenant : {CallerContext[c].tenant : c \in CacheCallers},
              user : {CallerContext[c].user : c \in CacheCallers}, version : Nat]
CacheValues == CacheVals \cup {<<>>}
CacheAsks == [at : CacheStages, value : CacheValues, owner : CacheCallers \cup {NoCaller},
              future : {"none", "pending", "value", "error"}]
Reaches(v, c) ==
  CacheScopeOf # "global" => /\ v.tenant = CallerContext[c].tenant
                             /\ CacheScopeOf # "tenant" => v.user = CallerContext[c].user
\* An entry answers every caller that has its key.
CacheEntries ==
  {e \in CacheKeys \X CacheVals \X Nat :
     e[1] # NoKey /\ \A c \in CacheCallers : ScopeKey(c) = e[1] => Reaches(e[2], c)}

StoreInv ==
  /\ items \in Seq(CacheEntries) /\ OnePlace(items) /\ Len(items) <= MaxEntries
  /\ tagIndex = {e[1] : e \in Entries(items)}
  /\ source \in Nat /\ invalidated \in Nat

\* What a caller's stage says of its request alone.
AskSound(r, c) ==
  /\ r.at \in {"claim", "wait", "load", "store", "release"} => ScopeKey(c) # NoKey
  /\ r.at = "store" => r.value \in CacheVals
  /\ r.at \in {"served", "store"} => Reaches(r.value, c)
  /\ r.at \in {"load", "store"} <=> r.future = "pending"
  /\ r.at \in {"idle", "bypass", "claim", "wait"} => r.future = "none"
  /\ r.at = "release" => r.future \in {"value", "error"}
  /\ r.future = "value" => Reaches(r.value, c)
  /\ r.at = "wait" => r.owner \in CacheCallers /\ ScopeKey(r.owner) = ScopeKey(c)
AsksInv ==
  /\ asking \in [CacheCallers -> CacheAsks]
  /\ \A c \in CacheCallers : AskSound(asking[c], c)
  /\ \A c \in CacheCallers : asking[c].at = "wait" => asking[asking[c].owner].future # "none"

\* A load in flight is its owner's, under the owner's key, until the owner has released it.
Working(c) == asking[c].at \in {"load", "store", "release"}
InflightInv ==
  /\ inflight \in [CacheKeys -> CacheCallers \cup {NoCaller}]
  /\ \A k \in CacheKeys : inflight[k] # NoCaller => ScopeKey(inflight[k]) = k /\ Working(inflight[k])
  /\ \A c \in CacheCallers : Working(c) => inflight[ScopeKey(c)] = c

CacheInv == StoreInv /\ AsksInv /\ InflightInv

-----------------------------------------------------------------------------
\* Every caller's key is one of the keys.
LEMMA KeysAre == \A c \in CacheCallers : ScopeKey(c) \in CacheKeys
BY DEF CacheKeys

\* What was loaded for a caller reaches every caller that has its key.
LEMMA SameKeySameReach ==
  ASSUME NEW c \in CacheCallers, NEW d \in CacheCallers, NEW v,
         ScopeKey(c) = ScopeKey(d), ScopeKey(c) # NoKey, Reaches(v, c)
  PROVE  Reaches(v, d)
<1>1. CASE CacheScopeOf = "global" BY <1>1 DEF Reaches
<1>2. CASE CacheScopeOf = "tenant"
  <2>1. CallerContext[c].tenant = CallerContext[d].tenant BY <1>2 DEF ScopeKey, NoKey
  <2> QED BY <2>1, <1>2 DEF Reaches
<1>3. CASE CacheScopeOf \notin {"global", "tenant"}
  <2>1. /\ CallerContext[c].tenant = CallerContext[d].tenant
        /\ CallerContext[c].user = CallerContext[d].user
    <3>1. CASE CacheScopeOf = "user" BY <3>1 DEF ScopeKey, NoKey
    <3>2. CASE CacheScopeOf # "user" BY <3>2, <1>3 DEF ScopeKey, NoKey
    <3> QED BY <3>1, <3>2
  <2> QED BY <2>1 DEF Reaches
<1> QED BY <1>1, <1>2, <1>3

\* What a caller loads may reach this caller.
LEMMA LoadedReaches ==
  ASSUME NEW c \in CacheCallers, source \in Nat
  PROVE  LoadedBy(c) \in CacheVals /\ Reaches(LoadedBy(c), c)
BY DEF LoadedBy, CacheVals, Reaches

-----------------------------------------------------------------------------
(* The store.                                                              *)

\* An entry that is dropped leaves the table and its index entry, and no other (pop).
LEMMA KeysOfDrop ==
  ASSUME StoreInv, NEW k
  PROVE  /\ Without(k) \in Seq(CacheEntries) /\ OnePlace(Without(k)) /\ Len(Without(k)) <= Len(items)
         /\ Entries(Without(k)) = {e \in Entries(items) : e[1] # k}
         /\ {e[1] : e \in Entries(Without(k))} = tagIndex \ {k}
         /\ Stored(k) # {} => Len(Without(k)) < Len(items)
         /\ Stored(k) = {e \in Entries(items) : e[1] = k}
<1>1. items \in Seq(CacheEntries) /\ OnePlace(items) BY DEF StoreInv
<1>2. Stored(k) = {e \in Entries(items) : e[1] = k} BY DEF Stored, Entries
<1> QED BY <1>1, <1>2, DropTakesOut DEF Without, StoreInv

\* set: the key is in the table once, and the table is within its limit.
LEMMA SetKeeps ==
  ASSUME StoreInv, CacheAssumption, NEW k, NEW v, <<k, v, source>> \in CacheEntries,
         SetItem(k, v), UNCHANGED <<source, invalidated>>
  PROVE  StoreInv'
<1> DEFINE e == <<k, v, source>>
           w == Without(k)
           q == Append(w, e)
<1>1. /\ w \in Seq(CacheEntries) /\ OnePlace(w) /\ Len(w) <= Len(items)
      /\ Entries(w) = {f \in Entries(items) : f[1] # k} /\ {f[1] : f \in Entries(w)} = tagIndex \ {k}
  BY KeysOfDrop
<1>2. e[1] = k /\ e \in CacheEntries OBVIOUS
<1>3. items' = Evicted(q, tagIndex \cup {k})[1] /\ tagIndex' = Evicted(q, tagIndex \cup {k})[2]
  BY DEF SetItem
<1> HIDE DEF e, w
<1>4. /\ q \in Seq(CacheEntries) /\ OnePlace(q) /\ Entries(q) = Entries(w) \cup {e} /\ Len(q) = Len(w) + 1
  <2>1. \A f \in Entries(w) : f[1] # e[1] BY <1>1, <1>2
  <2> QED BY <2>1, <1>1, <1>2, AppendPutsIn
<1>5. {f[1] : f \in Entries(q)} = tagIndex \cup {k} BY <1>4, <1>1, <1>2
<1>6. Len(w) \in Nat /\ Len(items) \in Nat /\ Len(items) <= MaxEntries /\ MaxEntries \in Nat
  BY <1>1 DEF StoreInv, CacheAssumption
<1> HIDE DEF q
<1>7. CASE Len(q) <= MaxEntries
  <2>1. items' = q /\ tagIndex' = tagIndex \cup {k} BY <1>3, <1>7 DEF Evicted
  <2> QED BY <2>1, <1>4, <1>5, <1>7 DEF StoreInv
<1>8. CASE ~(Len(q) <= MaxEntries)
  <2>1. items' = Tail(q) /\ tagIndex' = (tagIndex \cup {k}) \ {Head(q)[1]} BY <1>3, <1>8 DEF Evicted
  <2>2. q # <<>> BY <1>4, <1>6
  <2>3. /\ Tail(q) \in Seq(CacheEntries) /\ OnePlace(Tail(q)) /\ Head(q) \in Entries(q)
        /\ Entries(Tail(q)) = Entries(q) \ {Head(q)} /\ Len(Tail(q)) = Len(q) - 1
    BY <1>4, <2>2, TailTakesFirst
  <2>4. \A f, g \in Entries(q) : f[1] = g[1] => f = g BY <1>4 DEF OnePlace, Entries
  <2>5. {f[1] : f \in Entries(Tail(q))} = (tagIndex \cup {k}) \ {Head(q)[1]} BY <2>3, <2>4, <1>5
  <2>6. Len(Tail(q)) <= MaxEntries BY <2>3, <1>4, <1>1, <1>6
  <2> QED BY <2>1, <2>3, <2>5, <2>6 DEF StoreInv
<1> QED BY <1>7, <1>8

\* An expired entry is dropped with its tags when it is met.
LEMMA ExpireKeeps == ASSUME StoreInv, NEW k, ExpireItem(k) PROVE StoreInv'
<1>1. items' = Without(k) /\ tagIndex' = tagIndex \ {k} /\ UNCHANGED <<source, invalidated>> BY DEF ExpireItem
<1>2. Len(Without(k)) <= Len(items) /\ Len(items) <= MaxEntries BY KeysOfDrop DEF StoreInv
<1>3. Without(k) \in Seq(CacheEntries) BY KeysOfDrop
<1>4. Len(Without(k)) <= MaxEntries
  <2>1. Len(Without(k)) \in Nat /\ Len(items) \in Nat BY <1>3 DEF StoreInv
  <2> QED BY <2>1, <1>2, CacheAssumption DEF CacheAssumption
<1> QED BY <1>1, <1>3, <1>4, KeysOfDrop DEF StoreInv

\* Every entry has the tag: an invalidation empties the store.
LEMMA InvalidateEmpties ==
  ASSUME StoreInv
  PROVE  InvalidateTags(items, tagIndex) = <<>>
<1>1. {i \in DOMAIN items : items[i][1] \notin tagIndex} = {} BY DEF StoreInv, Entries
<1>2. Cardinality({}) = 0 BY FS_EmptySet
<1>3. \A n \in 1..Cardinality({}) : FALSE BY <1>2
<1> DEFINE left == {i \in DOMAIN items : items[i][1] \notin tagIndex}
<1>4. InvalidateTags(items, tagIndex) = [n \in 1..Cardinality(left) |-> items[Nth(left, n)]] BY DEF InvalidateTags
<1>5. 1..Cardinality(left) = {} BY <1>1, <1>3
<1> HIDE DEF left
<1> QED BY <1>4, <1>5

\* An invalidation of the tag leaves no entry and no index.
LEMMA InvalidateKeeps == ASSUME StoreInv, Invalidate, CacheAssumption PROVE StoreInv' /\ items' = <<>>
<1>1. items' = <<>> /\ tagIndex' = {} /\ invalidated' = source /\ source' = source
  BY InvalidateEmpties DEF Invalidate
<1>2. <<>> \in Seq(CacheEntries) /\ OnePlace(<<>>) /\ Entries(<<>>) = {} /\ Len(<<>>) = 0
  BY DEF OnePlace, Entries
<1>3. Len(<<>>) <= MaxEntries BY <1>2 DEF CacheAssumption
<1> QED BY <1>1, <1>2, <1>3 DEF StoreInv

-----------------------------------------------------------------------------
(* The callers.                                                            *)

\* The places of a request in the cache.
LEMMA CacheStagesAre ==
  /\ "idle" \in CacheStages /\ "bypass" \in CacheStages /\ "claim" \in CacheStages /\ "wait" \in CacheStages
  /\ "load" \in CacheStages /\ "store" \in CacheStages /\ "release" \in CacheStages
  /\ "served" \in CacheStages /\ "raised" \in CacheStages
BY DEF CacheStages

\* One caller moves on: the others' requests are as they were, and a future is never taken back.
LEMMA AskMoves ==
  ASSUME AsksInv, NEW c \in CacheCallers, NEW r \in CacheAsks, AskSound(r, c),
         asking' = [asking EXCEPT ![c] = r],
         r.future = "none" => asking[c].future = "none",
         r.at = "wait" => asking[r.owner].future # "none"
  PROVE  AsksInv'
<1>1. asking \in [CacheCallers -> CacheAsks] BY DEF AsksInv
<1>2. asking' \in [CacheCallers -> CacheAsks] BY <1>1
<1>3. asking'[c] = r /\ \A d \in CacheCallers \ {c} : asking'[d] = asking[d] BY <1>1
<1>4. \A d \in CacheCallers : AskSound(asking'[d], d)
  <2> SUFFICES ASSUME NEW d \in CacheCallers PROVE AskSound(asking'[d], d) OBVIOUS
  <2>1. CASE d = c BY <2>1, <1>3
  <2>2. CASE d # c
    <3>1. asking'[d] = asking[d] BY <2>2, <1>3
    <3>2. AskSound(asking[d], d) BY DEF AsksInv
    <3> QED BY <3>1, <3>2
  <2> QED BY <2>1, <2>2
<1>5. \A o : o \in CacheCallers /\ asking[o].future # "none" => asking'[o].future # "none" BY <1>3
<1>6. ASSUME NEW d \in CacheCallers, asking'[d].at = "wait" PROVE asking'[asking'[d].owner].future # "none"
  <2>1. asking'[d].owner \in CacheCallers BY <1>4, <1>6 DEF AskSound
  <2>2. asking[asking'[d].owner].future # "none"
    <3>1. CASE d = c BY <3>1, <1>3, <1>6
    <3>2. CASE d # c
      <4>1. asking'[d] = asking[d] BY <3>2, <1>3
      <4> QED BY <4>1, <1>6 DEF AsksInv
    <3> QED BY <3>1, <3>2
  <2> QED BY <2>1, <2>2, <1>5
<1>7. \A d \in CacheCallers : (AskSound(asking[d], d))' <=> AskSound(asking'[d], d) BY DEF AskSound, Reaches
<1> QED BY <1>2, <1>4, <1>6, <1>7 DEF AsksInv

\* A step that leaves the loads in flight alone and keeps the caller among, or out of, their owners.
LEMMA InflightStays ==
  ASSUME InflightInv, AsksInv, NEW c \in CacheCallers, NEW r \in CacheAsks,
         asking' = [asking EXCEPT ![c] = r], UNCHANGED inflight,
         (r.at \in {"load", "store", "release"}) <=> Working(c)
  PROVE  InflightInv'
<1>1. asking \in [CacheCallers -> CacheAsks] BY DEF AsksInv
<1>2. asking'[c] = r /\ \A d \in CacheCallers \ {c} : asking'[d] = asking[d] BY <1>1
<1>3. \A d \in CacheCallers : Working(d)' <=> Working(d) BY <1>2 DEF Working
<1> QED BY <1>3, CacheAssumption DEF InflightInv, CacheAssumption

\* What a request's next record is: it is one, and only the named fields moved.
LEMMA AskGoes ==
  ASSUME NEW r \in CacheAsks, NEW at \in CacheStages
  PROVE  /\ [r EXCEPT !.at = at] \in CacheAsks /\ [r EXCEPT !.at = at].at = at
         /\ [r EXCEPT !.at = at].future = r.future /\ [r EXCEPT !.at = at].value = r.value
BY DEF CacheAsks

AskTook(r, at, v) == [r EXCEPT !.at = at, !.value = v]
\* A request that takes a value keeps its future as it is.
LEMMA AskTakes ==
  ASSUME NEW r \in CacheAsks, NEW at \in CacheStages, NEW v \in CacheValues
  PROVE  /\ AskTook(r, at, v) \in CacheAsks /\ AskTook(r, at, v).at = at /\ AskTook(r, at, v).value = v
         /\ AskTook(r, at, v).future = r.future
BY DEF CacheAsks, AskTook

\* A request that waits for another's load knows whose it is.
LEMMA AskWaits ==
  ASSUME NEW r \in CacheAsks, NEW o \in CacheCallers
  PROVE  /\ [r EXCEPT !.at = "wait", !.owner = o] \in CacheAsks
         /\ [r EXCEPT !.at = "wait", !.owner = o].at = "wait" /\ [r EXCEPT !.at = "wait", !.owner = o].owner = o
         /\ [r EXCEPT !.at = "wait", !.owner = o].future = r.future
         /\ [r EXCEPT !.at = "wait", !.owner = o].value = r.value
BY DEF CacheAsks, CacheStages, CacheValues

\* A request that loads has put a future for the others.
LEMMA AskLoads ==
  ASSUME NEW r \in CacheAsks
  PROVE  /\ [r EXCEPT !.at = "load", !.future = "pending"] \in CacheAsks
         /\ [r EXCEPT !.at = "load", !.future = "pending"].at = "load"
         /\ [r EXCEPT !.at = "load", !.future = "pending"].future = "pending"
BY DEF CacheAsks, CacheStages, CacheValues

\* A load that succeeded resolves its future with its value.
LEMMA AskStores ==
  ASSUME NEW r \in CacheAsks
  PROVE  /\ [r EXCEPT !.at = "release", !.future = "value"] \in CacheAsks
         /\ [r EXCEPT !.at = "release", !.future = "value"].at = "release"
         /\ [r EXCEPT !.at = "release", !.future = "value"].future = "value"
         /\ [r EXCEPT !.at = "release", !.future = "value"].value = r.value
BY DEF CacheAsks, CacheStages, CacheValues

\* A load that failed resolves its future with the error.
LEMMA AskRaises ==
  ASSUME NEW r \in CacheAsks
  PROVE  /\ [r EXCEPT !.at = "release", !.future = "error", !.value = <<>>] \in CacheAsks
         /\ [r EXCEPT !.at = "release", !.future = "error", !.value = <<>>].at = "release"
         /\ [r EXCEPT !.at = "release", !.future = "error", !.value = <<>>].future = "error"
BY DEF CacheAsks, CacheStages, CacheValues

-----------------------------------------------------------------------------
\* A hit takes the entry to the end of the table and gives its value; a miss goes on to the load.
LEMMA CacheGetKeeps ==
  ASSUME CacheInv, CacheAssumption, NEW c \in CacheCallers, CacheGet(c)
  PROVE  CacheInv'
<1> DEFINE k == ScopeKey(c)
           e == CHOOSE x \in Stored(k) : TRUE
           hit == AskTook(asking[c], "served", e[2])
           miss == [asking[c] EXCEPT !.at = IF k = NoKey THEN "bypass" ELSE "claim"]
<1> USE CacheStagesAre
<1>1. asking[c] \in CacheAsks /\ asking[c].at = "idle" /\ AskSound(asking[c], c) BY DEF CacheInv, AsksInv, CacheGet
<1>2. asking[c].future \notin {"pending", "value"} \/ asking[c].future = "value" BY <1>1 DEF AskSound
<1>3. UNCHANGED <<tagIndex, inflight, source, invalidated>> BY DEF CacheGet
<1>4. ~Working(c) BY <1>1 DEF Working
<1>5. \/ Stored(k) # {} /\ items' = Append(Without(k), e) /\ asking' = [asking EXCEPT ![c] = hit]
      \/ items' = items /\ asking' = [asking EXCEPT ![c] = miss]
  BY DEF CacheGet, AskTook
<1>6. CASE Stored(k) # {} /\ items' = Append(Without(k), e) /\ asking' = [asking EXCEPT ![c] = hit]
  <2>1. e \in Stored(k) BY <1>6
  <2>2. e \in CacheEntries /\ e[1] = k /\ e \in Entries(items)
    <3>1. e \in Entries(items) /\ e[1] = k BY <2>1, KeysOfDrop DEF CacheInv
    <3>2. \A f \in Entries(items) : f \in CacheEntries BY DEF CacheInv, StoreInv, Entries
    <3> QED BY <3>1, <3>2
  <2>3. e[2] \in CacheVals /\ Reaches(e[2], c) BY <2>2 DEF CacheEntries
  <2> HIDE DEF e
  <2>4. hit \in CacheAsks /\ hit.at = "served" /\ hit.value = e[2] /\ hit.future = asking[c].future
    <3>1. e[2] \in CacheValues BY <2>3 DEF CacheValues
    <3>2. asking[c] \in CacheAsks /\ "served" \in CacheStages BY <1>1
    <3> QED BY ONLY <3>1, <3>2, AskTakes, SMT
  <2> HIDE DEF hit
  <2>5. AskSound(hit, c) BY <2>4, <2>3, <1>1 DEF AskSound
  <2>6. AsksInv'
    <3>1. hit.future = "none" => asking[c].future = "none" BY <2>4
    <3>2. hit.at # "wait" BY <2>4
    <3> QED BY <3>1, <3>2, <2>4, <2>5, <1>6, AskMoves DEF CacheInv
  <2>7. InflightInv'
    <3>1. hit.at \notin {"load", "store", "release"} BY <2>4
    <3> QED BY <3>1, <2>4, <1>3, <1>4, <1>6, InflightStays DEF CacheInv
  <2>8. StoreInv'
    <3>1. /\ Without(k) \in Seq(CacheEntries) /\ OnePlace(Without(k)) /\ Len(Without(k)) < Len(items)
          /\ Entries(Without(k)) = {f \in Entries(items) : f[1] # k}
          /\ {f[1] : f \in Entries(Without(k))} = tagIndex \ {k}
      BY <1>6, KeysOfDrop DEF CacheInv
    <3>2. \A f \in Entries(Without(k)) : f[1] # e[1] BY <3>1, <2>2
    <3>3. /\ items' \in Seq(CacheEntries) /\ OnePlace(items')
          /\ Entries(items') = Entries(Without(k)) \cup {e} /\ Len(items') = Len(Without(k)) + 1
      BY <3>1, <3>2, <2>2, <1>6, AppendPutsIn
    <3>4. Len(items') <= MaxEntries
      <4>1. Len(Without(k)) \in Nat /\ Len(items) \in Nat /\ Len(items) <= MaxEntries /\ MaxEntries \in Nat
        BY <3>1 DEF CacheInv, StoreInv, CacheAssumption
      <4> QED BY <4>1, <3>1, <3>3
    <3>5. k \in tagIndex BY <2>2 DEF CacheInv, StoreInv
    <3>6. tagIndex' = {f[1] : f \in Entries(items')} BY <3>1, <3>3, <3>5, <2>2, <1>3
    <3> QED BY <3>3, <3>4, <3>6, <1>3 DEF CacheInv, StoreInv
  <2> QED BY <2>6, <2>7, <2>8 DEF CacheInv
<1>7. CASE items' = items /\ asking' = [asking EXCEPT ![c] = miss]
  <2>1. /\ miss \in CacheAsks /\ miss.at = (IF k = NoKey THEN "bypass" ELSE "claim")
        /\ miss.future = asking[c].future /\ miss.value = asking[c].value
    BY <1>1, AskGoes
  <2> HIDE DEF miss
  <2>2. AskSound(miss, c) BY <2>1, <1>1 DEF AskSound
  <2>3. AsksInv' BY <2>1, <2>2, <1>7, AskMoves DEF CacheInv
  <2>4. InflightInv' BY <2>1, <1>3, <1>4, <1>7, InflightStays DEF CacheInv
  <2>5. StoreInv' BY <1>7, <1>3 DEF CacheInv, StoreInv
  <2> QED BY <2>3, <2>4, <2>5 DEF CacheInv
<1> QED BY <1>5, <1>6, <1>7

\* The caller alone moves: the store and the loads in flight are as they were.
LEMMA CallerMoves ==
  ASSUME CacheInv, NEW c \in CacheCallers, NEW r \in CacheAsks, AskSound(r, c),
         asking' = [asking EXCEPT ![c] = r],
         UNCHANGED <<items, tagIndex, inflight, source, invalidated>>,
         r.future = "none" => asking[c].future = "none",
         r.at # "wait",
         (r.at \in {"load", "store", "release"}) <=> Working(c)
  PROVE  CacheInv'
<1>1. AsksInv' BY AskMoves DEF CacheInv
<1>2. InflightInv' BY InflightStays DEF CacheInv
<1>3. StoreInv' BY DEF CacheInv, StoreInv
<1> QED BY <1>1, <1>2, <1>3 DEF CacheInv

\* A caller without a key loads for itself and shares nothing (get_or_load).
LEMMA BypassKeeps == ASSUME CacheInv, NEW c \in CacheCallers, Bypass(c) PROVE CacheInv'
<1> DEFINE r == AskTook(asking[c], "served", LoadedBy(c))
<1>1. /\ asking[c] \in CacheAsks /\ asking[c].at = "bypass" /\ AskSound(asking[c], c)
      /\ asking' = [asking EXCEPT ![c] = r] /\ UNCHANGED <<items, tagIndex, inflight, source, invalidated>>
  BY DEF CacheInv, AsksInv, Bypass, AskTook
<1>2. LoadedBy(c) \in CacheVals /\ Reaches(LoadedBy(c), c) BY LoadedReaches DEF CacheInv, StoreInv
<1>3. r \in CacheAsks /\ r.at = "served" /\ r.value = LoadedBy(c) /\ r.future = asking[c].future
  <2>1. LoadedBy(c) \in CacheValues BY <1>2 DEF CacheValues
  <2>2. asking[c] \in CacheAsks /\ "served" \in CacheStages /\ "store" \in CacheStages BY <1>1, CacheStagesAre
  <2> QED BY ONLY <2>1, <2>2, AskTakes, SMT
<1> HIDE DEF r
<1>4. AskSound(r, c) /\ ~Working(c) BY <1>1, <1>2, <1>3 DEF AskSound, Working
<1> QED BY <1>1, <1>3, <1>4, CallerMoves

\* The loader returns; the value is stored before the future is resolved.
LEMMA LoadsKeeps == ASSUME CacheInv, NEW c \in CacheCallers, Loads(c) PROVE CacheInv'
<1> DEFINE r == AskTook(asking[c], "store", LoadedBy(c))
<1>1. /\ asking[c] \in CacheAsks /\ asking[c].at = "load" /\ AskSound(asking[c], c)
      /\ asking' = [asking EXCEPT ![c] = r] /\ UNCHANGED <<items, tagIndex, inflight, source, invalidated>>
  BY DEF CacheInv, AsksInv, Loads, AskTook
<1>2. LoadedBy(c) \in CacheVals /\ Reaches(LoadedBy(c), c) BY LoadedReaches DEF CacheInv, StoreInv
<1>3. r \in CacheAsks /\ r.at = "store" /\ r.value = LoadedBy(c) /\ r.future = asking[c].future
  <2>1. LoadedBy(c) \in CacheValues BY <1>2 DEF CacheValues
  <2>2. asking[c] \in CacheAsks /\ "served" \in CacheStages /\ "store" \in CacheStages BY <1>1, CacheStagesAre
  <2> QED BY ONLY <2>1, <2>2, AskTakes, SMT
<1> HIDE DEF r
<1>4. AskSound(r, c) /\ Working(c) BY <1>1, <1>2, <1>3 DEF AskSound, Working
<1> QED BY <1>1, <1>3, <1>4, CallerMoves

\* The loader raises or its caller is cancelled, and the future is resolved with that.
LEMMA LoadRaisesKeeps ==
  ASSUME CacheInv, NEW c \in CacheCallers, NEW cancelled \in BOOLEAN, LoadRaises(c, cancelled)
  PROVE  CacheInv'
<1> DEFINE r == [asking[c] EXCEPT !.at = "release", !.future = "error", !.value = <<>>]
<1>1. /\ asking[c] \in CacheAsks /\ asking[c].at \in {"load", "store"} /\ AskSound(asking[c], c)
      /\ asking' = [asking EXCEPT ![c] = r] /\ UNCHANGED <<items, tagIndex, inflight, source, invalidated>>
  BY DEF CacheInv, AsksInv, LoadRaises, FutureAfterRaise
<1>2. r \in CacheAsks /\ r.at = "release" /\ r.future = "error" BY <1>1, AskRaises
<1> HIDE DEF r
<1>3. AskSound(r, c) /\ Working(c) BY <1>1, <1>2 DEF AskSound, Working
<1> QED BY <1>1, <1>2, <1>3, CallerMoves

\* Whoever waited for a load has the key of the load: its value reaches it too.
LEMMA WaiterWakesKeeps == ASSUME CacheInv, NEW c \in CacheCallers, WaiterWakes(c) PROVE CacheInv'
<1> DEFINE o == asking[asking[c].owner]
           at == IF o.future = "value" THEN "served" ELSE "raised"
           r == AskTook(asking[c], at, o.value)
<1>1. /\ asking[c] \in CacheAsks /\ asking[c].at = "wait" /\ AskSound(asking[c], c)
      /\ asking' = [asking EXCEPT ![c] = r] /\ UNCHANGED <<items, tagIndex, inflight, source, invalidated>>
  BY DEF CacheInv, AsksInv, WaiterWakes, AskTook
<1>2. PICK d \in CacheCallers : d = asking[c].owner BY <1>1 DEF AskSound
<1>3. ScopeKey(d) = ScopeKey(c) /\ ScopeKey(c) # NoKey BY <1>1, <1>2 DEF AskSound
<1>4. asking[d] \in CacheAsks /\ AskSound(asking[d], d) BY DEF CacheInv, AsksInv
<1>5. o.value \in CacheValues BY <1>2, <1>4 DEF CacheAsks
<1>6. o.future = "value" => Reaches(o.value, c)
  <2> SUFFICES ASSUME o.future = "value" PROVE Reaches(o.value, c) OBVIOUS
  <2>1. Reaches(o.value, d) BY <1>2, <1>4 DEF AskSound
  <2> QED BY <2>1, <1>3, SameKeySameReach
<1>7. at \in CacheStages BY CacheStagesAre
<1>8. r \in CacheAsks /\ r.at = at /\ r.value = o.value /\ r.future = asking[c].future
  BY <1>1, <1>5, <1>7, AskTakes
<1> HIDE DEF r
<1>9. AskSound(r, c)
  <2>1. r.future = "none" BY <1>1, <1>8 DEF AskSound
  <2>2. r.at = "served" => Reaches(r.value, c) BY <1>6, <1>8
  <2>3. r.at \in {"served", "raised"} BY <1>8
  <2> QED BY <2>1, <2>2, <2>3 DEF AskSound
<1>10. ~Working(c) BY <1>1 DEF Working
<1>11. r.at \notin {"load", "store", "release", "wait"} BY <1>8
<1> QED BY <1>1, <1>8, <1>9, <1>10, <1>11, CallerMoves

\* get_or_set_json: the first to claim a key loads it, whoever comes later waits for its future.
LEMMA ClaimKeeps == ASSUME CacheInv, CacheAssumption, NEW c \in CacheCallers, Claim(c) PROVE CacheInv'
<1> DEFINE k == ScopeKey(c)
<1>1. asking[c] \in CacheAsks /\ asking[c].at = "claim" /\ AskSound(asking[c], c) /\ k \in CacheKeys
  BY KeysAre DEF CacheInv, AsksInv, Claim
<1>2. k # NoKey /\ asking[c].future = "none" /\ ~Working(c) BY <1>1 DEF AskSound, Working
<1>3. StoreInv' BY DEF CacheInv, StoreInv, Claim
<1>4. inflight[k] \in CacheCallers \cup {NoCaller} BY <1>1 DEF CacheInv, InflightInv
<1>5. CASE inflight[k] = NoCaller
  <2> DEFINE r == [asking[c] EXCEPT !.at = "load", !.future = "pending"]
  <2>1. asking' = [asking EXCEPT ![c] = r] /\ inflight' = [inflight EXCEPT ![k] = c]
    BY <1>5 DEF Claim, OwnsLoad
  <2>2. r \in CacheAsks /\ r.at = "load" /\ r.future = "pending" BY <1>1, AskLoads
  <2> HIDE DEF r
  <2>3. AskSound(r, c) BY <1>2, <2>2 DEF AskSound
  <2>4. AsksInv' BY <2>1, <2>2, <2>3, AskMoves DEF CacheInv
  <2>5. InflightInv'
    <3>1. /\ asking \in [CacheCallers -> CacheAsks] /\ inflight \in [CacheKeys -> CacheCallers \cup {NoCaller}]
          /\ \A j \in CacheKeys : inflight[j] # NoCaller => ScopeKey(inflight[j]) = j /\ Working(inflight[j])
          /\ \A d \in CacheCallers : Working(d) => inflight[ScopeKey(d)] = d
      BY DEF CacheInv, AsksInv, InflightInv
    <3>2. asking'[c] = r /\ \A d \in CacheCallers \ {c} : asking'[d] = asking[d] BY <2>1, <3>1
    <3>3. Working(c)' /\ \A d \in CacheCallers \ {c} : Working(d)' <=> Working(d)
      BY <3>2, <2>2 DEF Working
    <3>4. /\ inflight' \in [CacheKeys -> CacheCallers \cup {NoCaller}] /\ inflight'[k] = c
          /\ \A j \in CacheKeys \ {k} : inflight'[j] = inflight[j]
      BY <2>1, <3>1, <1>1
    <3>5. ASSUME NEW d \in CacheCallers, d # c, Working(d) PROVE ScopeKey(d) # k
      BY <3>1, <3>5, <1>5, CacheAssumption DEF CacheAssumption
    <3>6. ASSUME NEW j \in CacheKeys, inflight'[j] # NoCaller
          PROVE  (ScopeKey(inflight[j]) = j /\ Working(inflight[j]))'
      <4>1. CASE j = k BY <4>1, <3>3, <3>4
      <4>2. CASE j # k
        <5>1. /\ inflight'[j] = inflight[j] /\ inflight[j] \in CacheCallers /\ ScopeKey(inflight[j]) = j
              /\ Working(inflight[j])
          BY <4>2, <3>4, <3>1, <3>6
        <5>2. PICK d \in CacheCallers : d = inflight[j] BY <5>1
        <5>3. d # c BY <5>1, <5>2, <4>2
        <5>4. Working(d)' BY <3>3, <5>1, <5>2, <5>3
        <5>5. asking'[inflight'[j]] = asking'[d] BY <5>1, <5>2
        <5> QED BY <5>1, <5>2, <5>4, <5>5 DEF Working
      <4> QED BY <4>1, <4>2
    <3>7. ASSUME NEW d \in CacheCallers, Working(d)' PROVE inflight'[ScopeKey(d)] = d
      <4>1. CASE d = c BY <4>1, <3>4
      <4>2. CASE d # c
        <5>1. Working(d) /\ inflight[ScopeKey(d)] = d BY <4>2, <3>7, <3>3, <3>1
        <5>2. ScopeKey(d) # k BY <3>5, <5>1, <4>2
        <5> QED BY <5>1, <5>2, <3>4, KeysAre
      <4> QED BY <4>1, <4>2
    <3> QED BY <3>4, <3>6, <3>7 DEF InflightInv, Working
  <2> QED BY <1>3, <2>4, <2>5 DEF CacheInv
<1>6. CASE inflight[k] # NoCaller
  <2>1. PICK o \in CacheCallers : o = inflight[k] BY <1>4, <1>6
  <2>2. ScopeKey(o) = k /\ Working(o) BY <2>1, <1>1, <1>6 DEF CacheInv, InflightInv
  <2>3. asking[o].future # "none"
    <3>1. AskSound(asking[o], o) BY DEF CacheInv, AsksInv
    <3> QED BY <3>1, <2>2 DEF AskSound, Working
  <2> DEFINE r == [asking[c] EXCEPT !.at = "wait", !.owner = o]
  <2>4. asking' = [asking EXCEPT ![c] = r] /\ UNCHANGED inflight
    BY <1>6, <2>1 DEF Claim, OwnsLoad
  <2>5. r \in CacheAsks /\ r.at = "wait" /\ r.owner = o /\ r.future = asking[c].future BY <1>1, AskWaits
  <2> HIDE DEF r
  <2>6. AskSound(r, c) BY <1>2, <2>2, <2>5 DEF AskSound
  <2>7. AsksInv' BY <2>3, <2>4, <2>5, <2>6, AskMoves DEF CacheInv
  <2>8. InflightInv' BY <2>4, <2>5, <1>2, InflightStays DEF CacheInv
  <2> QED BY <1>3, <2>7, <2>8 DEF CacheInv
<1> QED BY <1>5, <1>6

\* set_json: what is stored was loaded for a caller of the key.
LEMMA StoreLoadedKeeps == ASSUME CacheInv, CacheAssumption, NEW c \in CacheCallers, StoreLoaded(c) PROVE CacheInv'
<1> DEFINE k == ScopeKey(c)
           v == asking[c].value
           r == [asking[c] EXCEPT !.at = "release", !.future = "value"]
<1>1. /\ asking[c] \in CacheAsks /\ asking[c].at = "store" /\ AskSound(asking[c], c) /\ k \in CacheKeys
      /\ asking' = [asking EXCEPT ![c] = r] /\ UNCHANGED <<inflight, source, invalidated>>
      /\ SetItem(k, v) \/ UNCHANGED <<items, tagIndex>>
  BY KeysAre DEF CacheInv, AsksInv, StoreLoaded
<1>2. k # NoKey /\ v \in CacheVals /\ Reaches(v, c) BY <1>1 DEF AskSound
<1>3. r \in CacheAsks /\ r.at = "release" /\ r.future = "value" /\ r.value = v BY <1>1, AskStores
<1> HIDE DEF r
<1>4. AskSound(r, c) /\ Working(c) BY <1>1, <1>2, <1>3 DEF AskSound, Working
<1>5. AsksInv' BY <1>1, <1>3, <1>4, AskMoves DEF CacheInv
<1>6. InflightInv' BY <1>1, <1>3, <1>4, InflightStays DEF CacheInv
<1>7. StoreInv'
  <2>1. CASE UNCHANGED <<items, tagIndex>> BY <2>1, <1>1 DEF CacheInv, StoreInv
  <2>2. CASE SetItem(k, v)
    <3>1. \A d \in CacheCallers : ScopeKey(d) = k => Reaches(v, d) BY <1>2, SameKeySameReach
    <3>2. source \in Nat BY DEF CacheInv, StoreInv
    <3> DEFINE e == <<k, v, source>>
    <3>3. e \in CacheKeys \X CacheVals \X Nat /\ e[1] = k /\ e[2] = v BY <1>1, <1>2, <3>2
    <3> HIDE DEF e, k, v
    <3>4. e \in CacheEntries BY <3>1, <3>3, <1>2 DEF CacheEntries
    <3> QED BY <3>4, <2>2, <1>1, SetKeeps DEF CacheInv, e
  <2> QED BY <1>1, <2>1, <2>2
<1> QED BY <1>5, <1>6, <1>7 DEF CacheInv

\* The future has its outcome before the key is free again.
LEMMA ReleaseKeyKeeps == ASSUME CacheInv, CacheAssumption, NEW c \in CacheCallers, ReleaseKey(c) PROVE CacheInv'
<1> DEFINE k == ScopeKey(c)
           at == IF asking[c].future = "value" THEN "served" ELSE "raised"
           r == [asking[c] EXCEPT !.at = at]
<1>1. /\ asking[c] \in CacheAsks /\ asking[c].at = "release" /\ AskSound(asking[c], c) /\ k \in CacheKeys
      /\ asking' = [asking EXCEPT ![c] = r] /\ inflight' = [inflight EXCEPT ![k] = NoCaller]
      /\ UNCHANGED <<items, tagIndex, source, invalidated>>
  BY KeysAre DEF CacheInv, AsksInv, ReleaseKey
<1>2. at \in CacheStages BY CacheStagesAre
<1>3. r \in CacheAsks /\ r.at = at /\ r.future = asking[c].future /\ r.value = asking[c].value
  BY <1>1, <1>2, AskGoes
<1> HIDE DEF r
<1>4. AskSound(r, c) BY <1>1, <1>3 DEF AskSound
<1>5. r.at \in {"served", "raised"} BY <1>3
<1>6. AsksInv' BY <1>1, <1>3, <1>4, <1>5, AskMoves DEF CacheInv
<1>7. StoreInv' BY <1>1 DEF CacheInv, StoreInv
<1>8. InflightInv'
  <2>1. /\ asking \in [CacheCallers -> CacheAsks] /\ inflight \in [CacheKeys -> CacheCallers \cup {NoCaller}]
        /\ \A j \in CacheKeys : inflight[j] # NoCaller => ScopeKey(inflight[j]) = j /\ Working(inflight[j])
        /\ \A d \in CacheCallers : Working(d) => inflight[ScopeKey(d)] = d
    BY DEF CacheInv, AsksInv, InflightInv
  <2>2. asking'[c] = r /\ \A d \in CacheCallers \ {c} : asking'[d] = asking[d] BY <1>1, <2>1
  <2>3. ~Working(c)' /\ \A d \in CacheCallers \ {c} : Working(d)' <=> Working(d)
    BY <2>2, <1>5 DEF Working
  <2>4. inflight[k] = c BY <2>1, <1>1 DEF Working
  <2>5. /\ inflight' \in [CacheKeys -> CacheCallers \cup {NoCaller}] /\ inflight'[k] = NoCaller
        /\ \A j \in CacheKeys \ {k} : inflight'[j] = inflight[j]
    BY <1>1, <2>1
  <2> HIDE DEF k
  <2>6. ASSUME NEW j \in CacheKeys, inflight'[j] # NoCaller
        PROVE  (ScopeKey(inflight[j]) = j /\ Working(inflight[j]))'
    <3>1. j # k BY <2>5, <2>6
    <3>2. inflight'[j] = inflight[j] BY <3>1, <2>5
    <3>3. inflight[j] \in CacheCallers /\ ScopeKey(inflight[j]) = j /\ Working(inflight[j])
      BY <3>2, <2>1, <2>6
    <3>4. PICK d \in CacheCallers : d = inflight[j] BY <3>3
    <3>5. d # c BY <3>1, <3>3, <3>4 DEF k
    <3>6. Working(d)' BY <2>3, <3>3, <3>4, <3>5
    <3> QED BY <3>2, <3>3, <3>4, <3>6 DEF Working
  <2>7. ASSUME NEW d \in CacheCallers, Working(d)' PROVE inflight'[ScopeKey(d)] = d
    <3>1. d # c BY <2>3, <2>7
    <3>2. Working(d) /\ inflight[ScopeKey(d)] = d BY <3>1, <2>7, <2>3, <2>1
    <3>3. ScopeKey(d) # k BY <3>1, <3>2, <2>4
    <3> QED BY <3>2, <3>3, <2>5, KeysAre
  <2> QED BY <2>5, <2>6, <2>7 DEF InflightInv, Working
<1> QED BY <1>6, <1>7, <1>8 DEF CacheInv

-----------------------------------------------------------------------------
\* The invariant holds of an empty cache.
LEMMA CacheInitInv == ASSUME CacheInit, CacheAssumption PROVE CacheInv
<1>1. <<>> \in Seq(CacheEntries) /\ OnePlace(<<>>) /\ Entries(<<>>) = {} /\ Len(<<>>) = 0
  BY DEF OnePlace, Entries
<1>2. StoreInv
  <2>1. Len(<<>>) <= MaxEntries BY <1>1 DEF CacheAssumption
  <2> QED BY <1>1, <2>1 DEF CacheInit, StoreInv
<1>3. Asked \in CacheAsks /\ Asked.at = "idle" /\ Asked.future = "none"
  BY DEF Asked, CacheAsks, CacheStages, CacheValues
<1>4. \A c \in CacheCallers : asking[c] = Asked BY DEF CacheInit
<1>5. AsksInv
  <2>1. asking \in [CacheCallers -> CacheAsks] BY <1>3 DEF CacheInit
  <2> QED BY <2>1, <1>3, <1>4 DEF AsksInv, AskSound
<1>6. InflightInv BY <1>3, <1>4 DEF CacheInit, InflightInv, Working
<1> QED BY <1>2, <1>5, <1>6 DEF CacheInv

\* Every step keeps the invariant: one lemma per action above.
LEMMA CacheNextInv == ASSUME CacheInv, CacheAssumption, [CacheNext]_cacheVars PROVE CacheInv'
<1>1. CASE UNCHANGED cacheVars
  <2>1. UNCHANGED items /\ UNCHANGED tagIndex /\ UNCHANGED inflight /\ UNCHANGED asking
        /\ UNCHANGED source /\ UNCHANGED invalidated
    BY <1>1 DEF cacheVars
  <2>2. StoreInv' BY <2>1 DEF CacheInv, StoreInv
  <2>3. AsksInv' BY <2>1 DEF CacheInv, AsksInv, AskSound, Reaches
  <2>4. InflightInv' BY <2>1 DEF CacheInv, InflightInv, Working
  <2> QED BY <2>2, <2>3, <2>4 DEF CacheInv
<1>2. ASSUME UNCHANGED <<inflight, asking>>, StoreInv' PROVE CacheInv'
  <2>1. UNCHANGED inflight /\ UNCHANGED asking BY <1>2
  <2>2. AsksInv' BY <2>1 DEF CacheInv, AsksInv, AskSound, Reaches
  <2>3. InflightInv' BY <2>1 DEF CacheInv, InflightInv, Working
  <2> QED BY <1>2, <2>2, <2>3 DEF CacheInv
<1>3. CASE Invalidate
  <2>1. StoreInv' BY <1>3, InvalidateKeeps DEF CacheInv
  <2> QED BY <2>1, <1>2, <1>3 DEF Invalidate
<1>4. CASE SourceChanges
  <2>1. StoreInv' BY <1>4 DEF SourceChanges, CacheInv, StoreInv
  <2> QED BY <2>1, <1>2, <1>4 DEF SourceChanges
<1>5. ASSUME NEW k \in CacheKeys, ExpireItem(k) PROVE CacheInv'
  <2>1. StoreInv' BY <1>5, ExpireKeeps DEF CacheInv
  <2> QED BY <2>1, <1>2, <1>5 DEF ExpireItem
<1>6. ASSUME NEW c \in CacheCallers,
             \/ CacheGet(c) \/ Bypass(c) \/ Claim(c) \/ Loads(c) \/ StoreLoaded(c) \/ ReleaseKey(c) \/ WaiterWakes(c)
             \/ \E cancelled \in BOOLEAN : LoadRaises(c, cancelled)
      PROVE  CacheInv'
  BY <1>6, CacheGetKeeps, BypassKeeps, ClaimKeeps, LoadsKeeps, StoreLoadedKeeps, ReleaseKeyKeeps,
     WaiterWakesKeeps, LoadRaisesKeeps
<1> QED BY <1>1, <1>3, <1>4, <1>5, <1>6 DEF CacheNext

\* The index has one key for every entry of the table.
LEMMA TagsAreCounted == ASSUME StoreInv, CacheAssumption PROVE TagIndexExact
<1>1. /\ items \in Seq(CacheEntries) /\ OnePlace(items) /\ Len(items) \in Nat /\ DOMAIN items = 1..Len(items)
      /\ Len(items) <= MaxEntries
  BY DEF StoreInv
<1>2. tagIndex = {items[i][1] : i \in DOMAIN items} BY DEF StoreInv, Entries
<1> DEFINE f == [i \in 1..Len(items) |-> items[i][1]]
<1>3. f \in Bijection(1..Len(items), tagIndex)
  <2>1. f \in [1..Len(items) -> tagIndex] BY <1>1, <1>2
  <2>2. \A i, j \in 1..Len(items) : f[i] = f[j] => i = j BY <1>1 DEF OnePlace
  <2>3. \A t \in tagIndex : \E i \in 1..Len(items) : f[i] = t BY <1>1, <1>2
  <2> HIDE DEF f
  <2> QED BY <2>1, <2>2, <2>3 DEF Bijection, Injection, Surjection, IsInjective
<1>4. IsFiniteSet(1..Len(items)) /\ Cardinality(1..Len(items)) = Len(items)
  <2>1. PICK n \in Nat : n = Len(items) BY <1>1
  <2>2. n \in Int /\ 1 \in Int OBVIOUS
  <2>3. IsFiniteSet(1..n) /\ Cardinality(1..n) = IF 1 > n THEN 0 ELSE n - 1 + 1 BY ONLY <2>2, FS_Interval
  <2>4. (IF 1 > n THEN 0 ELSE n - 1 + 1) = n OBVIOUS
  <2> QED BY <2>1, <2>3, <2>4
<1>5. Cardinality(tagIndex) = Len(items)
  <2>1. ExistsBijection(1..Len(items), tagIndex) BY <1>3 DEF ExistsBijection
  <2> QED BY <2>1, <1>4, FS_Bijection
<1> QED BY <1>1, <1>2, <1>5 DEF TagIndexExact

\* The invariant implies what the runs check of a state.
LEMMA CacheInvSafe ==
  ASSUME CacheInv, CacheAssumption
  PROVE  TagIndexExact /\ ServedInScope /\ OneLoad /\ WaitersCanWake
<1>1. TagIndexExact BY TagsAreCounted DEF CacheInv
<1>2. \A c \in CacheCallers : AskSound(asking[c], c) BY DEF CacheInv, AsksInv
<1>3. ServedInScope BY <1>2 DEF ServedInScope, AskSound, Reaches
<1>4. OneLoad
  <2>1. \A c \in CacheCallers : asking[c].at \in {"load", "store"} => inflight[ScopeKey(c)] = c
    BY DEF CacheInv, InflightInv, Working
  <2> QED BY <2>1 DEF OneLoad
<1>5. WaitersCanWake
  <2> SUFFICES ASSUME NEW c \in CacheCallers, asking[c].at = "wait"
               PROVE  \/ asking[asking[c].owner].at \in {"load", "store"}
                      \/ asking[asking[c].owner].future \in {"value", "error"}
    BY DEF WaitersCanWake
  <2>1. PICK o \in CacheCallers : o = asking[c].owner BY <1>2 DEF AskSound
  <2>2. asking[o].future # "none" BY <2>1 DEF CacheInv, AsksInv
  <2>3. asking[o] \in CacheAsks /\ AskSound(asking[o], o) BY DEF CacheInv, AsksInv
  <2>4. asking[o].future \in {"none", "pending", "value", "error"} BY <2>3 DEF CacheAsks
  <2> QED BY <2>1, <2>2, <2>3, <2>4 DEF AskSound
<1> QED BY <1>1, <1>3, <1>4, <1>5

\* An invalidation is the one step that takes effect, and it leaves nothing behind.
LEMMA CacheStepSafe == ASSUME CacheInv, CacheAssumption, [CacheNext]_cacheVars PROVE [InvalidatedGone]_cacheVars
<1>1. CASE Invalidate
  <2>1. items' = <<>> BY <1>1, InvalidateKeeps DEF CacheInv
  <2>2. \A i \in DOMAIN items' : FALSE BY <2>1
  <2> QED BY <2>2 DEF InvalidatedGone
<1>2. CASE ~Invalidate
  <2>1. UNCHANGED cacheVars => UNCHANGED invalidated BY DEF cacheVars
  <2>2. SourceChanges => UNCHANGED invalidated BY DEF SourceChanges
  <2>3. \A k \in CacheKeys : ExpireItem(k) => UNCHANGED invalidated BY DEF ExpireItem
  <2>4. \A c \in CacheCallers : CacheGet(c) => UNCHANGED invalidated BY DEF CacheGet
  <2>5. \A c \in CacheCallers : Bypass(c) => UNCHANGED invalidated BY DEF Bypass
  <2>6. \A c \in CacheCallers : Claim(c) => UNCHANGED invalidated BY DEF Claim
  <2>7. \A c \in CacheCallers : Loads(c) => UNCHANGED invalidated BY DEF Loads
  <2>8. \A c \in CacheCallers : StoreLoaded(c) => UNCHANGED invalidated BY DEF StoreLoaded
  <2>9. \A c \in CacheCallers : ReleaseKey(c) => UNCHANGED invalidated BY DEF ReleaseKey
  <2>10. \A c \in CacheCallers : WaiterWakes(c) => UNCHANGED invalidated BY DEF WaiterWakes
  <2>11. \A c \in CacheCallers, b \in BOOLEAN : LoadRaises(c, b) => UNCHANGED invalidated BY DEF LoadRaises
  <2>12. UNCHANGED invalidated
    BY <1>2, <2>1, <2>2, <2>3, <2>4, <2>5, <2>6, <2>7, <2>8, <2>9, <2>10, <2>11 DEF CacheNext
  <2> QED BY <2>12 DEF InvalidatedGone
<1> QED BY <1>1, <1>2

(* The response cache, for any number of callers, keys, contexts and
   entries, under every scope: what is stored and what is waited for reaches
   only the callers of its scope, a key is loaded once at a time, nobody
   waits for a load that is over, the index of tags is exact and an
   invalidation leaves nothing of what it found. *)
THEOREM CacheIsSafe == CacheSpec => CacheSafe
<1>1. CacheInit => CacheInv BY CacheInitInv, CacheAssumption
<1>2. CacheInv /\ [CacheNext]_cacheVars => CacheInv' BY CacheNextInv, CacheAssumption
<1>3. CacheInv => TagIndexExact /\ ServedInScope /\ OneLoad /\ WaitersCanWake BY CacheInvSafe, CacheAssumption
<1>4. CacheInv /\ [CacheNext]_cacheVars => [InvalidatedGone]_cacheVars BY CacheStepSafe, CacheAssumption
<1> QED BY <1>1, <1>2, <1>3, <1>4, PTL DEF CacheSpec, CacheSafe
=============================================================================
