-------------------------- MODULE ConversationProofs --------------------------
(***************************************************************************)
(* The turns of a conversation are sound and keep their contract, for any  *)
(* number of turns, requests and restarts, in the deployment the service   *)
(* is written for: one process on the stores.                              *)
(***************************************************************************)
EXTENDS Conversation, FiniteSetTheorems, TLAPS

\* Turns are numbered in the order they were accepted.
Numbered == \E k \in 0..LastTurn : \A t \in Turns : msg[t] # "none" <=> t <= k

\* The turn accepted last.
NewestTurn(t) == t \in Turns /\ msg[t] # "none" /\ \A u \in Turns : u > t => msg[u] = "none"

\* Only the newest turn waits, a turn that is not accepted has no run, completed is true, and
\* a run of a living process is driven by it.
TurnsInv ==
    /\ Numbered
    /\ \A t \in Turns : msg[t] \in Awaiting => NewestTurn(t)
    /\ \A t \in Turns : msg[t] = "none" => run[t] = "none"
    /\ CompletedIsTrue
    /\ \A t \in Turns, p \in Procs : proc[p] # "down" /\ run[t] = "running" => driver[t] = p

\* What the task does with the message and the run of the newest turn.
TaskInv ==
    \A p \in Procs : TaskActive(p) =>
        LET t == task[p].turn IN
        /\ NewestTurn(t) /\ proc[p] # "down"
        /\ proc[p] = "starting" => \E c \in Calls : calls[c].op = "reconcile"
        /\ task[p].at = "created" => msg[t] = "accepted" /\ run[t] = "none"
        /\ task[p].at = "work" => msg[t] = "streaming" /\ run[t] = "none"
        /\ task[p].at \in {"resumed", "wait", "store"} => msg[t] = "streaming"
        /\ task[p].at = "fail" => PublishFails \/ msg[t] = "streaming"
        /\ task[p].at = "store" =>
               /\ task[p].outcome # "none"
               /\ task[p].outcome = "completed" => run[t] = "completed"

\* A call inside `async with self._lock`.
Inside(r) == r.at \in {"settle", "append", "task", "answer", "resumed", "end", "write"}

\* Where each kind of call can be.
GoodCall(r) ==
    /\ IF r.at = "idle" THEN r = Idle ELSE r.p \in Procs /\ r.op # "idle"
    /\ r.at = "fail" <=> r.op = "recover"
    /\ r.at \in {"append", "task"} => r.op = "submit"
    /\ r.at \in {"end", "write"} => r.op = "cancel"
    /\ r.at = "answer" => r.op = "respond"
    /\ r.at = "next" => r.op = "reconcile"
    /\ r.op = "cancel" => r.at \in {"enter", "end", "write"}
    /\ r.op = "submit" => r.at \in {"enter", "settle", "append", "task"}
    /\ r.op = "respond" => r.turn \in Turns

\* Calls have the lock of their process while they are inside; a process that starts serves
\* one call, and one that is down none.
LockInv ==
    /\ \A c \in Calls : GoodCall(calls[c]) /\ (Inside(calls[c]) => lock[calls[c].p] = c)
    /\ \A p \in Procs :
         /\ proc[p] = "down" => \A c \in Calls : calls[c] = Idle
         /\ proc[p] = "starting" =>
              /\ \A c, d \in Calls : calls[c] # Idle /\ calls[d] # Idle => c = d
              /\ \A c \in Calls : calls[c].op \in {"idle", "recover", "reconcile"}

\* What a call inside the lock, and the recovery, know of the turn they are about to write.
Knows(r) ==
    /\ r.at \in {"settle", "append", "task", "answer", "resumed"} => \A p \in Procs : ~TaskActive(p)
    /\ r.at = "append" => AwaitingMessages = {}
    /\ r.at = "task" => NewestTurn(r.turn) /\ msg[r.turn] = "accepted" /\ run[r.turn] = "none"
    /\ r.at \in {"settle", "answer", "resumed"} => r.turn \in Turns /\ msg[r.turn] \in Awaiting
    /\ r.at = "settle" => run[r.turn] \in RunEnded \cup {"none"}
    /\ r.at \in {"end", "write"} =>
           /\ NewestTurn(r.turn)
           /\ \/ msg[r.turn] \in Awaiting \cup {"cancelled"}
              \/ PublishFails /\ msg[r.turn] = "failed"
           /\ \A p \in Procs : \/ task[p].at \in {"none", "announce_result", "cancel"}
                               \/ PublishFails /\ task[p].at = "fail"
    /\ r.op = "recover" =>
           /\ \A p \in Procs : proc[p] = "starting" /\ ~TaskActive(p)
           /\ r.todo \subseteq PendingMessages
CallInv == \A c \in Calls : Knows(calls[c])

ConvInv == ConvTypeOK /\ TurnsInv /\ TaskInv /\ LockInv /\ CallInv

-----------------------------------------------------------------------------
(* Numbers and waiting turns.                                              *)

\* Messages are counted: the next turn is the one after the newest.
LEMMA NextTurnIs ==
    ASSUME NEW k \in 0..LastTurn, \A t \in Turns : msg[t] # "none" <=> t <= k
    PROVE  NextTurn = k + 1
<1>1. {t \in Turns : msg[t] # "none"} = 1..k
  BY ConversationAssumption DEF Turns
<1>2. Cardinality(1..k) = k
  BY FS_Interval, ConversationAssumption
<1> QED BY <1>1, <1>2 DEF NextTurn

\* The number the next message gets is not taken, and all smaller ones are (append_message).
LEMMA NextIsFree ==
    ASSUME Numbered, NextTurn \in Turns
    PROVE  /\ msg[NextTurn] = "none"
           /\ \A t \in Turns : t < NextTurn <=> msg[t] # "none"
<1>1. PICK k \in 0..LastTurn : \A t \in Turns : msg[t] # "none" <=> t <= k
  BY DEF Numbered
<1>2. NextTurn = k + 1
  BY <1>1, NextTurnIs
<1> QED BY <1>1, <1>2, ConversationAssumption DEF Turns

\* Accepting the next turn keeps the numbers.
LEMMA AcceptNumbers ==
    ASSUME ConvTypeOK, Numbered, NextTurn \in Turns, AppendMessage(NextTurn)
    PROVE  Numbered'
<1>1. PICK k \in 0..LastTurn : \A t \in Turns : msg[t] # "none" <=> t <= k
  BY DEF Numbered
<1>2. NextTurn = k + 1
  BY <1>1, NextTurnIs
<1>3. k + 1 \in 0..LastTurn /\ \A t \in Turns : msg'[t] # "none" <=> t <= k + 1
  BY <1>1, <1>2, ConversationAssumption DEF Turns, AppendMessage, ConvTypeOK
<1> QED BY <1>3 DEF Numbered, Turns

\* There is one newest turn.
LEMMA OneNewest ==
    ASSUME NEW t, NEW u, NewestTurn(t), NewestTurn(u)
    PROVE  t = u
BY ConversationAssumption DEF NewestTurn, Turns

\* The message that waits, if there is one, is found.
LEMMA AwaitingIs ==
    ASSUME TurnsInv
    PROVE  \/ AwaitingTurn = 0 /\ AwaitingMessages = {}
           \/ AwaitingTurn \in Turns /\ msg[AwaitingTurn] \in Awaiting /\ AwaitingTurn # 0
<1>1. CASE AwaitingMessages = {}
  BY <1>1 DEF AwaitingTurn
<1>2. CASE AwaitingMessages # {}
  <2>1. PICK t \in AwaitingMessages : TRUE
    BY <1>2
  <2>2. t \in Turns /\ NewestTurn(t)
    BY <2>1 DEF AwaitingMessages, TurnsInv
  <2>3. \A u \in AwaitingMessages : u <= t
    <3> SUFFICES ASSUME NEW u \in AwaitingMessages PROVE u <= t
      OBVIOUS
    <3>1. u \in Turns /\ msg[u] # "none"
      BY DEF AwaitingMessages, Awaiting
    <3> QED BY <2>2, <3>1, ConversationAssumption DEF NewestTurn, Turns
  <2>4. AwaitingTurn \in AwaitingMessages
    BY <1>2, <2>1, <2>3 DEF AwaitingTurn
  <2> QED BY <2>4, ConversationAssumption DEF AwaitingMessages, Turns
<1> QED BY <1>1, <1>2

-----------------------------------------------------------------------------
(* Types.                                                                  *)

CallRecords ==
    [op : {"idle", "submit", "respond", "cancel", "reconcile", "recover"},
     at : {"idle", "enter", "check", "settle", "append", "task",
           "answer", "resumed", "end", "write", "next", "fail"},
     p : Procs \cup {NoProc}, turn : 0..LastTurn, todo : SUBSET Turns, version : Nat]
TaskRecords ==
    [turn : 0..LastTurn, cancelled : BOOLEAN, outcome : {"none"} \cup Awaiting \cup Final,
     at : {"none", "created", "resumed", "work", "wait", "store", "announce_result", "fail", "cancel"}]

\* The states a message, a run and a turn's number may have.
LEMMA Statuses ==
    /\ Awaiting \cup Final \cup {"none", "accepted", "streaming", "failed", "cancelled", "expired"}
         \subseteq MessageStatus
    /\ Stops \cup {"none", "running", "cancelled", "timed_out"} \subseteq RunState
    /\ Turns \subseteq 0..LastTurn /\ 0 \in 0..LastTurn /\ 1 \in Turns
    /\ \A n \in Turns : n # 0
BY ConversationAssumption DEF MessageStatus, InProgress, Awaiting, Final, RunState, RunPaused, RunEnded,
   StopKinds, Turns

\* The statuses the service writes to a message are statuses, and those it writes at an end do not wait.
LEMMA WrittenStatuses ==
    /\ {"accepted", "streaming", "failed", "cancelled", "expired"} \subseteq MessageStatus \ {"none"}
    /\ {"accepted", "streaming", "failed", "cancelled", "expired"} \cap Awaiting = {}
    /\ Awaiting \cup Final \subseteq MessageStatus \ {"none"}
BY DEF MessageStatus, InProgress, Awaiting, Final

\* A new task and no task are task records.
LEMMA TaskFields ==
    /\ NoTask \in TaskRecords
    /\ \A t \in 0..LastTurn, at \in {"created", "resumed", "cancel"} : NewTask(t, at) \in TaskRecords
BY Statuses DEF TaskRecords, NoTask, NewTask

-----------------------------------------------------------------------------
(* Calls and the lock.                                                     *)

\* How a call may take, keep and give back the lock of the one process.
LockMoves(p, c, r) ==
    \/ lock' = lock /\ (Inside(r) => Inside(calls[c]))
    \/ lock' = [lock EXCEPT ![p] = c] /\ lock[p] = NoCall
    \/ lock' = [lock EXCEPT ![p] = NoCall] /\ Inside(calls[c]) /\ ~Inside(r)

\* Nothing enters a process that is down, and only the recovery one that starts.
Admits(p, c, r) ==
    /\ proc[p] = "down" => r = Idle
    /\ proc[p] = "starting" => /\ r.op \in {"recover", "reconcile"}
                               /\ calls[c].op = "reconcile" => r.op = "reconcile"
                               /\ \A d \in Calls \ {c} : calls[d] = Idle

\* The calls under way are call records.
LEMMA CallTypes ==
    /\ Idle \in CallRecords
    /\ ConvTypeOK => calls \in [Calls -> CallRecords]
BY Statuses DEF Idle, CallRecords, ConvTypeOK

\* A call that is inside is the only one, and no recovery is under way.
LEMMA OneInside ==
    ASSUME NEW p, Procs = {p}, ConvInv, NEW c \in Calls, Inside(calls[c]), NEW d \in Calls \ {c}
    PROVE  ~Inside(calls[d]) /\ calls[d].op # "recover" /\ calls[c].p = p
<1>1. GoodCall(calls[c]) /\ GoodCall(calls[d])
  BY DEF ConvInv, LockInv
<1>2. calls[c].p = p /\ (Inside(calls[d]) => calls[d].p = p)
  BY <1>1 DEF GoodCall, Inside
<1>3. ~Inside(calls[d])
  BY <1>2 DEF ConvInv, LockInv
<1>4. calls[c] # Idle
  BY DEF Inside, Idle
<1>5. ASSUME calls[d].op = "recover" PROVE FALSE
  <2>1. proc[p] = "starting"
    BY <1>5 DEF ConvInv, CallInv, Knows
  <2>2. calls[d] # Idle
    BY <1>5 DEF Idle
  <2> QED BY <2>1, <2>2, <1>4 DEF ConvInv, LockInv
<1> QED BY <1>2, <1>3, <1>5

\* The lock is kept by every step of a call that takes and leaves it this way.
LEMMA LockKept ==
    ASSUME NEW p, Procs = {p}, ConvInv, NEW c \in Calls, NEW r \in CallRecords,
           calls' = [calls EXCEPT ![c] = r], GoodCall(r), LockMoves(p, c, r), Admits(p, c, r), proc' = proc
    PROVE  LockInv' /\ calls' \in [Calls -> CallRecords] /\ lock' \in [Procs -> Calls \cup {NoCall}]
<1>1. /\ calls \in [Calls -> CallRecords] /\ lock \in [Procs -> Calls \cup {NoCall}]
      /\ calls'[c] = r /\ \A d \in Calls \ {c} : calls'[d] = calls[d]
  BY CallTypes DEF ConvInv, ConvTypeOK
<1>2. calls' \in [Calls -> CallRecords] /\ lock' \in [Procs -> Calls \cup {NoCall}]
  BY <1>1 DEF LockMoves
<1>3. ASSUME NEW d \in Calls PROVE GoodCall(calls'[d]) /\ GoodCall(calls[d])'
  BY <1>1 DEF ConvInv, LockInv, GoodCall, Idle
<1>4. ASSUME NEW d \in Calls, Inside(calls'[d]) PROVE calls'[d].p = p /\ lock'[p] = d
  <2>1. calls'[d].p = p
    BY <1>3, <1>4 DEF GoodCall, Inside
  <2>2. CASE d # c
    <3>1. Inside(calls[d]) /\ lock[p] = d /\ ~Inside(calls[c])
      BY <1>1, <1>4, <2>1, <2>2, OneInside DEF ConvInv, LockInv
    <3> QED BY <1>1, <2>1, <2>2, <3>1, ConversationAssumption DEF LockMoves
  <2>3. CASE d = c /\ Inside(calls[c])
    <3>1. calls[c].p = p /\ lock[p] = c
      BY <2>3 DEF ConvInv, LockInv, GoodCall, Inside
    <3> QED BY <1>1, <1>4, <2>1, <2>3, <3>1 DEF LockMoves
  <2>4. CASE d = c /\ ~Inside(calls[c])
    BY <1>1, <1>4, <2>1, <2>4 DEF LockMoves
  <2> QED BY <2>2, <2>3, <2>4
<1>5. proc[p] = "down" => \A d \in Calls : calls'[d] = Idle
  BY <1>1 DEF Admits, ConvInv, LockInv
<1>6. ASSUME proc[p] = "starting"
      PROVE  /\ \A d, e \in Calls : calls'[d] # Idle /\ calls'[e] # Idle => d = e
             /\ \A d \in Calls : calls'[d].op \in {"idle", "recover", "reconcile"}
  BY <1>1, <1>6 DEF Admits, ConvInv, LockInv, Idle
<1>7. LockInv'
  <2>1. ASSUME NEW d \in Calls PROVE Inside(calls[d])' => (lock[calls[d].p] = d)'
    BY <1>4, <2>1 DEF Inside
  <2>2. ASSUME NEW q \in Procs PROVE q = p /\ proc'[q] = proc[p]
    OBVIOUS
  <2> QED BY <1>3, <1>5, <1>6, <2>1, <2>2 DEF LockInv, Idle
<1> QED BY <1>2, <1>7

\* A call that only moves on writes nothing: the rest of the invariant stands.
LEMMA CallMoves ==
    ASSUME NEW p, Procs = {p}, ConvInv, NEW c \in Calls, NEW r \in CallRecords,
           calls' = [calls EXCEPT ![c] = r], GoodCall(r), LockMoves(p, c, r), Admits(p, c, r), Knows(r),
           UNCHANGED <<msg, run, driver, late, task, proc, restarts>>, version' \in Nat
    PROVE  ConvInv'
<1>1. LockInv' /\ calls' \in [Calls -> CallRecords] /\ lock' \in [Procs -> Calls \cup {NoCall}]
  BY LockKept
<1>2. ConvTypeOK'
  BY <1>1 DEF ConvInv, ConvTypeOK, CallRecords
<1>3. TurnsInv'
  BY DEF ConvInv, TurnsInv, Numbered, NewestTurn, CompletedIsTrue
<1>5. TaskInv'
  <2>1. ASSUME TaskActive(p), proc[p] = "starting" PROVE \E d \in Calls : calls'[d].op = "reconcile"
    BY <2>1, CallTypes DEF ConvInv, TaskInv, Admits, Idle
  <2> QED BY <2>1 DEF ConvInv, TaskInv, NewestTurn, TaskActive
<1>4. CallInv'
  <2>1. ASSUME NEW d \in Calls PROVE Knows(calls'[d])
    <3>1. calls'[d] = r \/ calls'[d] = calls[d]
      BY CallTypes DEF ConvInv
    <3> QED BY <3>1 DEF ConvInv, CallInv
  <2> QED BY <2>1 DEF CallInv, Knows, NewestTurn, TaskActive, AwaitingMessages, PendingMessages
<1> QED BY <1>1, <1>2, <1>3, <1>4, <1>5 DEF ConvInv

\* What the others know does not depend on a call that is inside.
LEMMA InsideKept ==
    ASSUME NEW p, Procs = {p}, ConvInv, NEW c \in Calls, NEW r \in CallRecords, Inside(calls[c]),
           calls' = [calls EXCEPT ![c] = r], GoodCall(r), LockMoves(p, c, r), Admits(p, c, r), proc' = proc
    PROVE  /\ LockInv' /\ calls' \in [Calls -> CallRecords] /\ lock' \in [Procs -> Calls \cup {NoCall}]
           /\ Knows(r)' => CallInv'
<1>1. LockInv' /\ calls' \in [Calls -> CallRecords] /\ lock' \in [Procs -> Calls \cup {NoCall}]
  BY LockKept
<1>2. ASSUME NEW d \in Calls, Knows(r)' PROVE Knows(calls[d])'
  <2>1. CASE d = c
    BY <1>2, <2>1, CallTypes DEF ConvInv, Knows
  <2>2. CASE d # c
    <3>1. calls'[d] = calls[d] /\ ~Inside(calls[d]) /\ calls[d].op # "recover"
      BY <2>2, CallTypes, OneInside DEF ConvInv
    <3> QED BY <3>1 DEF Knows, Inside
  <2> QED BY <2>1, <2>2
<1> QED BY <1>1, <1>2 DEF CallInv

-----------------------------------------------------------------------------
(* Steps that only move a call.                                            *)

\* A request that arrives waits for the lock with what it asks for.
LEMMA Enters ==
    ASSUME NEW c \in Calls, NEW p \in Procs, NEW op \in {"submit", "respond", "cancel"},
           NEW t \in 0..LastTurn, version \in Nat, Enter(c, p, op, t, {})
    PROVE  \E r \in CallRecords :
              calls' = [calls EXCEPT ![c] = r] /\ r.at = "enter" /\ r.p = p /\ r.op = op /\ r.turn = t
<1> DEFINE r == [op |-> op, at |-> "enter", p |-> p, turn |-> t, todo |-> {},
                 version |-> IF op = "submit" /\ NextTurn = 1 THEN version ELSE 0]
<1>1. r \in CallRecords
  BY DEF CallRecords
<1>2. calls' = [calls EXCEPT ![c] = r]
  BY DEF Enter
<1>3. r.at = "enter" /\ r.p = p /\ r.op = op /\ r.turn = t
  OBVIOUS
<1> HIDE DEF r
<1> QED BY <1>1, <1>2, <1>3

\* A submit or a response arrives and reads nothing before it has the lock.
LEMMA RequestKeeps ==
    ASSUME NEW p, Procs = {p}, ConvInv, NEW c \in Calls,
           Submit(c, p) \/ \E t \in Turns : Respond(c, p, t)
    PROVE  ConvInv'
<1> USE ConversationAssumption, Statuses
<1>1. calls[c] = Idle /\ proc[p] = "serving" /\ version \in Nat
  BY DEF Submit, Respond, Enter, ConvInv, ConvTypeOK
<1>2. PICK r \in CallRecords : /\ calls' = [calls EXCEPT ![c] = r]
                               /\ r.at = "enter" /\ r.p = p /\ r.op \in {"submit", "respond"}
                               /\ r.op = "respond" => r.turn \in Turns
  BY <1>1, Enters DEF Submit, Respond
<1>3. GoodCall(r) /\ LockMoves(p, c, r) /\ Admits(p, c, r) /\ Knows(r)
  BY <1>1, <1>2 DEF GoodCall, Submit, Respond, LockMoves, Admits, Knows, Inside
<1>4. UNCHANGED <<msg, run, driver, late, task, proc, restarts>> /\ version' \in Nat
  BY <1>1 DEF Submit, Respond
<1> QED BY <1>2, <1>3, <1>4, CallMoves

\* A sweep lists the waiting turns and a recovery the unfinished ones, before either changes one.
LEMMA ReconcileKeeps ==
    ASSUME NEW p, Procs = {p}, ConvInv, NEW c \in Calls, Reconcile(c, p) \/ RecoverTurns(c, p)
    PROVE  ConvInv'
<1> USE ConversationAssumption, Statuses
<1>1. calls[c] = Idle /\ version \in Nat
  BY DEF Reconcile, RecoverTurns, ConvInv, ConvTypeOK
<1>2. CASE Reconcile(c, p)
  <2> DEFINE rec == [Idle EXCEPT !.op = "reconcile", !.at = "next", !.p = p, !.todo = AwaitingMessages]
  <2>0. /\ rec \in CallRecords /\ rec.at = "next" /\ rec.p = p /\ rec.op = "reconcile"
        /\ calls' = [calls EXCEPT ![c] = rec]
    BY <1>2 DEF Reconcile, CallRecords, Idle, AwaitingMessages
  <2> HIDE DEF rec
  <2>1. PICK r \in CallRecords : /\ calls' = [calls EXCEPT ![c] = r]
                                 /\ r.at = "next" /\ r.p = p /\ r.op = "reconcile"
    BY <2>0
  <2>2. GoodCall(r) /\ LockMoves(p, c, r) /\ Admits(p, c, r) /\ Knows(r)
    BY <1>2, <2>1 DEF GoodCall, Reconcile, LockMoves, Admits, Knows, Inside
  <2> QED BY <1>1, <1>2, <2>1, <2>2, CallMoves DEF Reconcile
<1>3. CASE RecoverTurns(c, p)
  <2> DEFINE rec == [Idle EXCEPT !.op = "recover", !.at = "fail", !.p = p, !.todo = PendingMessages]
  <2>0. /\ rec \in CallRecords /\ rec.at = "fail" /\ rec.p = p /\ rec.op = "recover"
        /\ rec.todo = PendingMessages /\ calls' = [calls EXCEPT ![c] = rec]
    BY <1>3 DEF RecoverTurns, CallRecords, Idle, PendingMessages
  <2> HIDE DEF rec
  <2>1. PICK r \in CallRecords : /\ calls' = [calls EXCEPT ![c] = r] /\ r.at = "fail" /\ r.p = p
                                 /\ r.op = "recover" /\ r.todo = PendingMessages
    BY <2>0
  <2>2. proc[p] = "starting" /\ \A d \in Calls : calls[d] = Idle
    <3>1. ASSUME NEW d \in Calls PROVE calls[d] = Idle
      <4>1. GoodCall(calls[d]) /\ calls[d].p # p
        BY <1>3 DEF RecoverTurns, ConvInv, LockInv
      <4> QED BY <4>1 DEF GoodCall
    <3> QED BY <1>3, <3>1 DEF RecoverTurns
  <2>3. ~TaskActive(p)
    BY <2>2 DEF ConvInv, TaskInv, Idle
  <2>4. GoodCall(r) /\ ~Inside(r)
    BY <2>1 DEF GoodCall, Inside
  <2>5. Knows(r)
    BY <2>1, <2>2, <2>3 DEF Knows
  <2>6. lock' = lock
    BY <1>3 DEF RecoverTurns
  <2>7. LockMoves(p, c, r) /\ Admits(p, c, r)
    BY <2>1, <2>2, <2>4, <2>6 DEF LockMoves, Admits, Idle
  <2> QED BY <1>1, <1>3, <2>1, <2>4, <2>5, <2>7, CallMoves DEF RecoverTurns
<1> QED BY <1>2, <1>3

\* The call goes on in place `at` with turn t.
Placed(c, r, at, t) ==
    calls' = [calls EXCEPT ![c] = r] /\ r.at = at /\ r.turn = t /\ r.op = calls[c].op /\ r.p = calls[c].p
Places == {"enter", "check", "settle", "append", "task", "answer", "resumed", "end", "write", "next", "fail"}

\* A call goes to its next place and keeps what it knows.
LEMMA CallPlaced ==
    ASSUME ConvTypeOK, NEW c \in Calls, NEW at \in Places, NEW t \in 0..LastTurn,
           \/ CallAt(c, at) /\ t = calls[c].turn
           \/ calls' = [calls EXCEPT ![c].at = at, ![c].turn = t]
    PROVE  \E r \in CallRecords : Placed(c, r, at, t)
<1>1. calls \in [Calls -> CallRecords] /\ calls[c] \in CallRecords
  BY CallTypes
<1> DEFINE r == [calls[c] EXCEPT !.at = at, !.turn = t]
<1>2. /\ r \in CallRecords
      /\ r.at = at /\ r.turn = t /\ r.op = calls[c].op /\ r.p = calls[c].p
  BY <1>1 DEF CallRecords, Places
<1>3. calls' = [calls EXCEPT ![c] = r]
  BY <1>1 DEF CallAt, CallRecords
<1> HIDE DEF r
<1> QED BY <1>2, <1>3 DEF Placed

\* A call is at work in the one process, which serves unless the call recovers its turns.
LEMMA AtWork ==
    ASSUME NEW p, Procs = {p}, ConvInv, NEW c \in Calls, calls[c].at # "idle"
    PROVE  /\ calls[c].p = p /\ calls[c].op # "idle" /\ proc[p] # "down" /\ calls[c] # Idle
           /\ proc[p] = "starting" => /\ calls[c].op \in {"recover", "reconcile"}
                                      /\ \A d \in Calls \ {c} : calls[d] = Idle
<1>1. GoodCall(calls[c]) /\ calls[c] # Idle
  BY DEF ConvInv, LockInv, Idle
<1>2. calls[c].p = p /\ calls[c].op # "idle"
  BY <1>1 DEF GoodCall
<1> QED BY <1>1, <1>2 DEF ConvInv, LockInv

\* The call ends and gives the lock back.
LEMMA LeaveKeeps ==
    ASSUME NEW p, Procs = {p}, ConvInv, NEW c \in Calls, calls' = [calls EXCEPT ![c] = Idle],
           calls[c].op \in {"submit", "respond", "cancel"}, calls[c].at # "idle",
           \/ lock' = lock
           \/ Inside(calls[c]) /\ lock' = [lock EXCEPT ![p] = NoCall]
    PROVE  GoodCall(Idle) /\ LockMoves(p, c, Idle) /\ Admits(p, c, Idle) /\ Knows(Idle) /\ Knows(Idle)'
<1>1. GoodCall(Idle) /\ ~Inside(Idle) /\ Knows(Idle) /\ Knows(Idle)'
  BY DEF GoodCall, Idle, Inside, Knows
<1>2. Admits(p, c, Idle)
  BY AtWork DEF Admits
<1> QED BY <1>1, <1>2 DEF LockMoves

\* submit, once it has the lock: it refuses, settles the turn that waits, or goes on to append.
LEMMA SubmitCheckKeeps ==
    ASSUME NEW p, Procs = {p}, ConvInv, NEW c \in Calls, SubmitCheck(c)
    PROVE  ConvInv'
<1>1. calls[c].op = "submit" /\ calls[c].at = "enter" /\ calls[c].p = p /\ lock[p] = NoCall
  BY AtWork DEF SubmitCheck, CallIs
<1>2. UNCHANGED <<msg, run, driver, late, task, proc, restarts>> /\ version' \in Nat
  BY DEF SubmitCheck, ConvInv, ConvTypeOK
<1>3. CASE calls' = [calls EXCEPT ![c] = Idle] /\ lock' = lock
  BY <1>1, <1>2, <1>3, LeaveKeeps, CallMoves, CallTypes
<1>4. CASE ~(calls' = [calls EXCEPT ![c] = Idle] /\ lock' = lock)
  <2> DEFINE w == AwaitingTurn
             at == IF w = 0 THEN "append" ELSE "settle"
  <2>1. /\ ~TaskActive(p) /\ ~(w # 0 /\ PendingState(w) # "ended")
        /\ lock' = [lock EXCEPT ![p] = c]
        /\ calls' = [calls EXCEPT ![c].at = at, ![c].turn = w]
    BY <1>1, <1>4 DEF SubmitCheck, Acquire
  <2>2. w \in 0..LastTurn /\ at \in Places
    BY AwaitingIs, Statuses DEF Places, ConvInv
  <2>3. PICK r \in CallRecords : Placed(c, r, at, w)
    BY <2>1, <2>2, CallPlaced DEF ConvInv
  <2>4. GoodCall(r) /\ Inside(r)
    BY <1>1, <2>3 DEF GoodCall, Inside, Placed
  <2>5. LockMoves(p, c, r) /\ Admits(p, c, r)
    BY <1>1, <2>1, <2>3, AtWork DEF LockMoves, Admits, Placed
  <2>6. Knows(r)
    <3>1. CASE w = 0
      BY <1>1, <2>1, <2>3, <3>1, AwaitingIs DEF Placed, Knows, ConvInv
    <3>2. CASE w # 0
      <4>1. w \in Turns /\ msg[w] \in Awaiting /\ run[w] \in RunEnded \cup {"none"}
        BY <2>1, <3>2, AwaitingIs DEF ConvInv, PendingState
      <4> QED BY <1>1, <2>1, <2>3, <3>2, <4>1 DEF Placed, Knows
    <3> QED BY <3>1, <3>2
  <2> QED BY <1>2, <2>3, <2>4, <2>5, <2>6, CallMoves DEF Placed
<1> QED BY <1>3, <1>4

\* respond, once it has the lock: the message must still wait for this answer.
LEMMA RespondCheckKeeps ==
    ASSUME NEW p, Procs = {p}, ConvInv, NEW c \in Calls, RespondCheck(c)
    PROVE  ConvInv'
<1>1. calls[c].op = "respond" /\ calls[c].at = "enter" /\ calls[c].p = p /\ lock[p] = NoCall
  BY AtWork DEF RespondCheck, CallIs
<1>2. UNCHANGED <<msg, run, driver, late, task, proc, restarts>> /\ version' \in Nat
  BY DEF RespondCheck, ConvInv, ConvTypeOK
<1>3. CASE calls' = [calls EXCEPT ![c] = Idle] /\ lock' = lock
  BY <1>1, <1>2, <1>3, LeaveKeeps, CallMoves, CallTypes
<1>4. CASE ~(calls' = [calls EXCEPT ![c] = Idle] /\ lock' = lock)
  <2>1. /\ ~TaskActive(p) /\ msg[calls[c].turn] \in Awaiting
        /\ lock' = [lock EXCEPT ![p] = c] /\ CallAt(c, "answer")
    BY <1>1, <1>4 DEF RespondCheck, Acquire
  <2>2. calls[c] \in CallRecords /\ calls[c].turn \in 0..LastTurn
    BY CallTypes DEF ConvInv, CallRecords
  <2>3. PICK r \in CallRecords : Placed(c, r, "answer", calls[c].turn)
    BY <2>1, <2>2, CallPlaced DEF ConvInv, Places
  <2>6. calls[c].turn \in Turns
    BY <1>1 DEF ConvInv, LockInv, GoodCall
  <2>4. GoodCall(r) /\ Inside(r)
    BY <1>1, <2>3, <2>6 DEF GoodCall, Inside, Placed
  <2>5. LockMoves(p, c, r) /\ Admits(p, c, r)
    BY <1>1, <2>1, <2>3, AtWork DEF LockMoves, Admits, Placed
  <2>7. Knows(r)
    BY <1>1, <2>1, <2>3, <2>6 DEF Placed, Knows
  <2> QED BY <1>2, <2>3, <2>4, <2>5, <2>7, CallMoves DEF Placed
<1> QED BY <1>3, <1>4

\* cancel, once it has the lock: it finds the turn that waits, or nothing to cancel.
LEMMA CancelCheckKeeps ==
    ASSUME NEW p, Procs = {p}, ConvInv, NEW c \in Calls, CancelCheck(c)
    PROVE  ConvInv'
<1>1. calls[c].op = "cancel" /\ calls[c].at = "enter" /\ calls[c].p = p /\ lock[p] = NoCall
  BY AtWork DEF CancelCheck, CallIs
<1>2. UNCHANGED <<msg, run, driver, late, task, proc, restarts>> /\ version' \in Nat
  BY DEF CancelCheck, ConvInv, ConvTypeOK
<1>3. CASE calls' = [calls EXCEPT ![c] = Idle] /\ lock' = lock
  BY <1>1, <1>2, <1>3, LeaveKeeps, CallMoves, CallTypes
<1>4. CASE ~(calls' = [calls EXCEPT ![c] = Idle] /\ lock' = lock)
  <2> DEFINE w == AwaitingTurn
  <2>1. /\ w # 0 /\ lock' = [lock EXCEPT ![p] = c]
        /\ calls' = [calls EXCEPT ![c].at = "end", ![c].turn = w]
    BY <1>1, <1>4 DEF CancelCheck, Acquire
  <2>2. w \in Turns /\ msg[w] \in Awaiting /\ NewestTurn(w)
    BY <2>1, AwaitingIs DEF ConvInv, TurnsInv
  <2>3. PICK r \in CallRecords : Placed(c, r, "end", w)
    BY <2>1, <2>2, CallPlaced, Statuses DEF ConvInv, Places
  <2>4. GoodCall(r) /\ Inside(r)
    BY <1>1, <2>3 DEF GoodCall, Inside, Placed
  <2>5. LockMoves(p, c, r) /\ Admits(p, c, r)
    BY <1>1, <2>1, <2>3, AtWork DEF LockMoves, Admits, Placed
  <2>6. task[p].at \in {"none", "announce_result", "cancel"} \/ (PublishFails /\ task[p].at = "fail")
    <3>1. TaskActive(p) => task[p].turn = w
      BY <2>2, OneNewest DEF ConvInv, TaskInv
    <3>2. msg[w] # "accepted" /\ msg[w] # "streaming"
      BY <2>2 DEF Awaiting
    <3>3. task[p].at \in {"none", "created", "resumed", "work", "wait", "store", "announce_result",
                          "fail", "cancel"}
      BY DEF ConvInv, ConvTypeOK
    <3>4. ASSUME TaskActive(p)
          PROVE  /\ task[p].at \notin {"created", "work", "resumed", "wait", "store"}
                 /\ task[p].at = "fail" => PublishFails
      BY <3>1, <3>2, <3>4 DEF ConvInv, TaskInv
    <3> QED BY <3>3, <3>4 DEF TaskActive
  <2>7. Knows(r)
    BY <1>1, <2>2, <2>3, <2>6 DEF Placed, Knows
  <2> QED BY <1>2, <2>3, <2>4, <2>5, <2>7, CallMoves DEF Placed
<1> QED BY <1>3, <1>4

\* A sweep takes the next turn of its list and the lock.
LEMMA ReconcileNextKeeps ==
    ASSUME NEW p, Procs = {p}, ConvInv, NEW c \in Calls, ReconcileNext(c)
    PROVE  ConvInv'
<1>1. /\ calls[c].op = "reconcile" /\ calls[c].at = "next" /\ calls[c].p = p /\ lock[p] = NoCall
      /\ ~Inside(calls[c])
  BY AtWork DEF ReconcileNext, CallIs, Inside
<1>2. UNCHANGED <<msg, run, driver, late, task, proc, restarts>> /\ version' \in Nat
  BY DEF ReconcileNext, ConvInv, ConvTypeOK
<1>3. PICK t \in calls[c].todo : ReconcileTurn(c, t)
  BY DEF ReconcileNext
<1>4. calls \in [Calls -> CallRecords] /\ calls[c] \in CallRecords
  BY CallTypes DEF ConvInv
<1>5. t \in Turns /\ t \in 0..LastTurn /\ calls[c].todo \ {t} \subseteq Turns
  BY <1>3, <1>4, Statuses DEF CallRecords
<1> DEFINE skip == TaskActive(p) \/ msg[t] \notin Awaiting \/ PendingState(t) = "paused"
           rec(at, u) == [calls[c] EXCEPT !.todo = calls[c].todo \ {t}, !.at = at, !.turn = u]
<1>6. ASSUME NEW at \in Places, NEW u \in 0..LastTurn
      PROVE  /\ rec(at, u) \in CallRecords /\ rec(at, u).at = at /\ rec(at, u).turn = u
             /\ rec(at, u).op = "reconcile" /\ rec(at, u).p = p
  BY <1>1, <1>4, <1>5 DEF CallRecords, Places
<1>7. CASE skip
  <2>1. calls' = [calls EXCEPT ![c] = rec("next", 0)] /\ lock' = lock
    BY <1>1, <1>3, <1>7 DEF ReconcileTurn
  <2>10. "next" \in Places /\ 0 \in 0..LastTurn
    BY Statuses DEF Places
  <2> HIDE DEF rec
  <2>11. rec("next", 0) \in CallRecords /\ rec("next", 0).at = "next" /\ rec("next", 0).op = "reconcile"
        /\ rec("next", 0).p = p
    BY <1>6, <2>10
  <2>2. PICK r \in CallRecords : /\ calls' = [calls EXCEPT ![c] = r]
                                 /\ r.at = "next" /\ r.op = "reconcile" /\ r.p = p
    BY <2>11, <2>1
  <2>3. GoodCall(r) /\ ~Inside(r) /\ Knows(r)
    BY <2>2 DEF GoodCall, Inside, Knows
  <2>4. LockMoves(p, c, r) /\ Admits(p, c, r)
    BY <1>1, <2>1, <2>2, <2>3, AtWork DEF LockMoves, Admits
  <2> QED BY <1>2, <2>2, <2>3, <2>4, CallMoves
<1>8. CASE ~skip
  <2>1. ~TaskActive(p) /\ msg[t] \in Awaiting /\ lock' = [lock EXCEPT ![p] = c]
    BY <1>1, <1>3, <1>8 DEF ReconcileTurn, Acquire
  <2>2. PICK at \in {"settle", "resumed"} : /\ calls' = [calls EXCEPT ![c] = rec(at, t)]
                                            /\ at = "settle" => PendingState(t) = "ended"
    <3>1. CASE PendingState(t) = "ended"
      <4>1. calls' = [calls EXCEPT ![c] = rec("settle", t)]
        BY <1>1, <1>3, <1>8, <3>1 DEF ReconcileTurn
      <4> QED BY <3>1, <4>1
    <3>2. CASE PendingState(t) # "ended"
      <4>1. calls' = [calls EXCEPT ![c] = rec("resumed", t)]
        BY <1>1, <1>3, <1>8, <3>2 DEF ReconcileTurn
      <4> QED BY <4>1
    <3> QED BY <3>1, <3>2
  <2>10. at \in Places
    BY DEF Places
  <2> HIDE DEF rec
  <2>11. rec(at, t) \in CallRecords /\ rec(at, t).at = at /\ rec(at, t).op = "reconcile"
        /\ rec(at, t).p = p /\ rec(at, t).turn = t
    BY <1>5, <1>6, <2>10
  <2>3. PICK r \in CallRecords : /\ calls' = [calls EXCEPT ![c] = r]
                                 /\ r.at = at /\ r.op = "reconcile" /\ r.p = p /\ r.turn = t
    BY <2>2, <2>11
  <2>4. GoodCall(r) /\ Inside(r)
    BY <2>3 DEF GoodCall, Inside
  <2>5. LockMoves(p, c, r) /\ Admits(p, c, r)
    BY <1>1, <2>1, <2>3, AtWork DEF LockMoves, Admits
  <2>6. at = "settle" => run[t] \in RunEnded \cup {"none"}
    BY <2>2 DEF PendingState
  <2>7. Knows(r)
    BY <1>5, <2>1, <2>3, <2>6 DEF Knows
  <2> QED BY <1>2, <2>3, <2>4, <2>5, <2>7, CallMoves
<1> QED BY <1>7, <1>8

\* A sweep, or the recovery of a start, is over.
LEMMA ReconcileDoneKeeps ==
    ASSUME NEW p, Procs = {p}, ConvInv, NEW c \in Calls, ReconcileDone(c)
    PROVE  ConvInv'
<1>1. /\ calls[c].op = "reconcile" /\ calls[c].at = "next" /\ calls[c].p = p /\ ~Inside(calls[c])
      /\ proc[p] # "down"
  BY AtWork DEF ReconcileDone, CallIs, Inside
<1>2. /\ UNCHANGED <<msg, run, driver, late, task, lock, restarts, version>>
      /\ proc' = [proc EXCEPT ![p] = "serving"] /\ calls' = [calls EXCEPT ![c] = Idle]
  BY <1>1 DEF ReconcileDone
<1>3. /\ calls \in [Calls -> CallRecords] /\ calls' \in [Calls -> CallRecords]
      /\ proc' \in [Procs -> {"serving", "starting", "down"}] /\ proc'[p] = "serving"
      /\ calls'[c] = Idle /\ \A d \in Calls \ {c} : calls'[d] = calls[d]
  BY <1>2, CallTypes DEF ConvInv, ConvTypeOK
<1>4. ConvTypeOK'
  BY <1>2, <1>3 DEF ConvInv, ConvTypeOK, CallRecords
<1>5. TurnsInv'
  BY <1>1, <1>2, <1>3 DEF ConvInv, TurnsInv, Numbered, NewestTurn, CompletedIsTrue
<1>6. TaskInv'
  BY <1>1, <1>2, <1>3 DEF ConvInv, TaskInv, NewestTurn, TaskActive
<1>7. LockInv'
  <2>1. ASSUME NEW d \in Calls PROVE GoodCall(calls[d])' /\ (Inside(calls[d])' => (lock[calls[d].p] = d)')
    BY <1>2, <1>3 DEF ConvInv, LockInv, GoodCall, Inside, Idle
  <2> QED BY <1>3, <2>1 DEF LockInv
<1>8. CallInv'
  <2>1. ASSUME NEW d \in Calls PROVE Knows(calls[d])'
    <3>1. CASE d = c
      BY <1>3, <3>1 DEF Knows, Idle
    <3>2. CASE d # c
      <4>1. calls'[d] = calls[d] /\ Knows(calls[d])
        BY <1>3, <3>2 DEF ConvInv, CallInv
      <4>2. calls[d].op # "recover"
        <5>1. ASSUME calls[d].op = "recover" PROVE FALSE
          <6>1. proc[p] = "starting" /\ calls[d] # Idle /\ calls[c] # Idle
            BY <1>1, <4>1, <5>1 DEF Knows, Idle
          <6> QED BY <3>2, <6>1 DEF ConvInv, LockInv
        <5> QED BY <5>1
      <4> QED BY <1>2, <4>1, <4>2 DEF Knows, TaskActive, NewestTurn, AwaitingMessages
    <3> QED BY <3>1, <3>2
  <2> QED BY <2>1 DEF CallInv
<1> QED BY <1>4, <1>5, <1>6, <1>7, <1>8 DEF ConvInv

-----------------------------------------------------------------------------
(* Steps of a call inside the lock.                                        *)

\* Which turn is the newest does not change while no message is appended.
LEMMA NewestStays ==
    ASSUME \A u \in Turns : msg'[u] = "none" <=> msg[u] = "none"
    PROVE  \A t : NewestTurn(t)' <=> NewestTurn(t)
BY DEF NewestTurn

\* A status written to a message that exists.
LEMMA Writes ==
    ASSUME ConvTypeOK, TurnsInv, NEW t \in Turns, NEW s \in MessageStatus \ {"none"}, UpdateMessage(t, s),
           msg[t] # "none", s \in Awaiting => NewestTurn(t), s = "completed" => run[t] = "completed",
           UNCHANGED <<run, driver, proc>>
    PROVE  /\ TurnsInv' /\ msg' \in [Turns -> MessageStatus] /\ msg'[t] = s
           /\ \A u \in Turns : /\ u # t => msg'[u] = msg[u]
                               /\ msg'[u] = "none" <=> msg[u] = "none"
<1>1. /\ msg' \in [Turns -> MessageStatus] /\ msg'[t] = s
      /\ \A u \in Turns : u # t => msg'[u] = msg[u]
  BY DEF ConvTypeOK, UpdateMessage
<1>2. \A u \in Turns : msg'[u] = "none" <=> msg[u] = "none"
  BY <1>1
<1>3. Numbered'
  BY <1>2 DEF TurnsInv, Numbered
<1>4. \A u \in Turns : msg'[u] \in Awaiting => NewestTurn(u)'
  BY <1>1, <1>2, NewestStays DEF TurnsInv
<1>5. CompletedIsTrue'
  BY <1>1 DEF TurnsInv, CompletedIsTrue
<1>6. \A u \in Turns : msg'[u] = "none" => run'[u] = "none"
  BY <1>2 DEF TurnsInv
<1>7. TurnsInv'
  BY <1>3, <1>4, <1>5, <1>6 DEF TurnsInv
<1> QED BY <1>1, <1>2, <1>7

\* A call leaves the lock: nobody else knows what it knew.
LEMMA InsideLeaves ==
    ASSUME NEW p, Procs = {p}, ConvInv, NEW c \in Calls, Inside(calls[c]), Leave(c), proc' = proc,
           calls[c].op \in {"submit", "respond", "cancel"}
    PROVE  LockInv' /\ CallInv' /\ calls' \in [Calls -> CallRecords] /\ lock' \in [Procs -> Calls \cup {NoCall}]
<1>1. calls[c].at # "idle" /\ calls[c].p = p
  BY AtWork DEF Inside
<1>2. calls' = [calls EXCEPT ![c] = Idle] /\ lock' = [lock EXCEPT ![p] = NoCall]
  BY <1>1 DEF Leave
<1>3. Idle \in CallRecords
  BY CallTypes
<1> QED BY <1>1, <1>2, <1>3, LeaveKeeps, InsideKept

\* The sweep leaves the lock and goes on to the next message.
LEMMA InsideGoesOn ==
    ASSUME NEW p, Procs = {p}, ConvInv, NEW c \in Calls, Inside(calls[c]), NextMessage(c), proc' = proc,
           calls[c].op = "reconcile"
    PROVE  /\ LockInv' /\ CallInv' /\ calls' \in [Calls -> CallRecords]
           /\ lock' \in [Procs -> Calls \cup {NoCall}]
           /\ \E d \in Calls : calls'[d].op = "reconcile"
<1>1. calls[c].at # "idle" /\ calls[c].p = p
  BY AtWork DEF Inside
<1>2. PICK r \in CallRecords : Placed(c, r, "next", 0)
  BY CallPlaced, Statuses DEF NextMessage, Places, ConvInv
<1>3. lock' = [lock EXCEPT ![p] = NoCall] /\ calls' = [calls EXCEPT ![c] = r]
      /\ r.at = "next" /\ r.op = "reconcile" /\ r.p = p
  BY <1>1, <1>2 DEF NextMessage, Placed
<1>4. GoodCall(r) /\ ~Inside(r) /\ Knows(r)'
  BY <1>3 DEF GoodCall, Inside, Knows
<1>5. LockMoves(p, c, r) /\ Admits(p, c, r)
  BY <1>1, <1>3, <1>4, AtWork DEF LockMoves, Admits
<1>6. calls'[c].op = "reconcile"
  BY <1>3, CallTypes DEF ConvInv
<1> QED BY <1>3, <1>4, <1>5, <1>6, InsideKept

\* cancel writes the end of a turn that waited.
LEMMA CancelWriteKeeps ==
    ASSUME NEW p, Procs = {p}, ConvInv, NEW c \in Calls, CancelWrite(c)
    PROVE  ConvInv'
<1> DEFINE t == calls[c].turn
<1>1. /\ calls[c].op = "cancel" /\ Inside(calls[c]) /\ Leave(c) /\ UpdateMessage(t, "cancelled")
      /\ UNCHANGED <<run, driver, late, task, proc, version, restarts>> /\ calls[c].at = "write"
  BY DEF CancelWrite, CallIs, Inside
<1>2. LockInv' /\ CallInv' /\ calls' \in [Calls -> CallRecords] /\ lock' \in [Procs -> Calls \cup {NoCall}]
  BY <1>1, InsideLeaves
<1>3. /\ NewestTurn(t) /\ t \in Turns
      /\ task[p].at \in {"none", "announce_result", "cancel"} \/ (PublishFails /\ task[p].at = "fail")
  BY <1>1 DEF ConvInv, CallInv, Knows, NewestTurn
<1>4. /\ TurnsInv' /\ msg' \in [Turns -> MessageStatus]
      /\ \A u \in Turns : msg'[u] = "none" <=> msg[u] = "none"
  <2>1. "cancelled" \in MessageStatus \ {"none"} /\ "cancelled" \notin Awaiting /\ msg[t] # "none"
    BY <1>3, WrittenStatuses DEF NewestTurn
  <2> QED BY <1>1, <1>3, <2>1, Writes DEF ConvInv
<1>5. ConvTypeOK'
  BY <1>1, <1>2, <1>4 DEF ConvInv, ConvTypeOK, CallRecords
<1>6. TaskInv'
  <2>1. TaskActive(p) => proc[p] # "starting"
    BY <1>1, AtWork DEF Inside, ConvInv
  <2>2. ASSUME TaskActive(p) PROVE NewestTurn(task[p].turn)'
    BY <1>1, <1>4, <2>2, NewestStays DEF ConvInv, TaskInv
  <2> QED BY <1>1, <1>3, <2>1, <2>2 DEF ConvInv, TaskInv, TaskActive
<1> QED BY <1>2, <1>4, <1>5, <1>6 DEF ConvInv

InsidePlaces == {"settle", "append", "task", "answer", "resumed", "end", "write"}

\* The call stays inside and keeps the lock.
LEMMA InsideStays ==
    ASSUME NEW p, Procs = {p}, ConvInv, NEW c \in Calls, Inside(calls[c]), NEW at \in InsidePlaces,
           NEW t \in 0..LastTurn,
           NEW r \in CallRecords, Placed(c, r, at, t),
           at \in {"append", "task"} => calls[c].op = "submit",
           at \in {"end", "write"} <=> calls[c].op = "cancel",
           at = "answer" => calls[c].op = "respond", calls[c].op = "respond" => t \in Turns,
           at \in {"answer", "resumed"} => calls[c].op # "submit",
           lock' = lock, proc' = proc
    PROVE  /\ LockInv' /\ calls' \in [Calls -> CallRecords] /\ lock' \in [Procs -> Calls \cup {NoCall}]
           /\ Knows(r)' => CallInv'
<1>1. calls[c].at # "idle" /\ calls[c].p = p /\ calls[c].op # "recover" /\ calls[c].op # "idle"
  <2>1. calls[c].at # "idle" /\ calls[c].at # "fail" /\ GoodCall(calls[c])
    BY DEF Inside, ConvInv, LockInv
  <2> QED BY <2>1, AtWork DEF GoodCall
<1>2. calls' = [calls EXCEPT ![c] = r] /\ r.at = at /\ r.turn = t /\ r.op = calls[c].op /\ r.p = p
  BY <1>1 DEF Placed
<1>3. GoodCall(r) /\ Inside(r)
  BY <1>1, <1>2 DEF GoodCall, Inside, InsidePlaces
<1>4. LockMoves(p, c, r) /\ Admits(p, c, r)
  BY <1>1, <1>2, AtWork DEF LockMoves, Admits
<1> QED BY <1>2, <1>3, <1>4, InsideKept

\* cancel ends the run of a turn before it writes the message.
LEMMA CancelRunKeeps ==
    ASSUME NEW p, Procs = {p}, ConvInv, NEW c \in Calls, CancelRun(c)
    PROVE  ConvInv'
<1> DEFINE t == calls[c].turn
<1>1. /\ calls[c].op = "cancel" /\ Inside(calls[c]) /\ calls[c].at = "end" /\ CallAt(c, "write")
      /\ UNCHANGED <<msg, task, lock, proc, version, restarts>>
  BY DEF CancelRun, CallIs, Inside
<1>2. /\ NewestTurn(t) /\ t \in Turns /\ t \in 0..LastTurn
      /\ msg[t] \in Awaiting \cup {"cancelled"} \/ (PublishFails /\ msg[t] = "failed")
      /\ task[p].at \in {"none", "announce_result", "cancel"} \/ (PublishFails /\ task[p].at = "fail")
  BY <1>1, Statuses DEF ConvInv, CallInv, Knows, NewestTurn
<1>3. PICK r \in CallRecords : Placed(c, r, "write", t)
  BY <1>1, <1>2, CallPlaced DEF Places, ConvInv
<1>4. /\ LockInv' /\ calls' \in [Calls -> CallRecords] /\ lock' \in [Procs -> Calls \cup {NoCall}]
      /\ Knows(r)' => CallInv'
  BY <1>1, <1>2, <1>3, InsideStays DEF InsidePlaces
<1>5. Knows(r)'
  <2>1. r.at = "write" /\ r.turn = t /\ r.op = "cancel"
    BY <1>1, <1>3 DEF Placed
  <2> QED BY <1>1, <1>2, <2>1 DEF Knows, NewestTurn
<1>6. /\ \A u \in Turns : run'[u] # run[u] => u = t /\ run'[t] = "cancelled"
      /\ \A u \in Turns : run'[u] = "running" => run[u] = "running" /\ driver'[u] = driver[u]
      /\ run' \in [Turns -> RunState] /\ driver' \in [Turns -> Procs \cup {NoProc}] /\ late' \subseteq Turns
  <2>1. /\ run \in [Turns -> RunState] /\ driver \in [Turns -> Procs \cup {NoProc}] /\ late \subseteq Turns
        /\ "cancelled" \in RunState
    BY Statuses DEF ConvInv, ConvTypeOK
  <2>2. CASE run[t] \in RunEnded
    BY <2>1, <2>2 DEF CancelRun
  <2>3. CASE run[t] \notin RunEnded
    <3>1. run' = [run EXCEPT ![t] = "cancelled"] /\ driver' = [driver EXCEPT ![t] = NoProc] /\ late' = late \ {t}
      BY <2>3 DEF CancelRun
    <3> QED BY <1>2, <2>1, <3>1
  <2> QED BY <2>2, <2>3
<1>7. ConvTypeOK'
  BY <1>1, <1>4, <1>6 DEF ConvInv, ConvTypeOK, CallRecords
<1>8. TurnsInv'
  <2>1. msg[t] # "none" /\ msg[t] # "completed"
    BY <1>2 DEF Awaiting
  <2>2. Numbered' /\ \A u \in Turns : msg'[u] \in Awaiting => NewestTurn(u)'
    BY <1>1 DEF ConvInv, TurnsInv, Numbered, NewestTurn
  <2>3. CompletedIsTrue' /\ \A u \in Turns : msg'[u] = "none" => run'[u] = "none"
    BY <1>1, <1>2, <1>6, <2>1 DEF ConvInv, TurnsInv, CompletedIsTrue
  <2> QED BY <1>1, <1>6, <2>2, <2>3 DEF ConvInv, TurnsInv
<1>9. TaskInv'
  <2>1. proc[p] # "starting"
    BY <1>1, AtWork DEF Inside
  <2> QED BY <1>1, <1>2, <2>1 DEF ConvInv, TaskInv, TaskActive, NewestTurn
<1> QED BY <1>4, <1>5, <1>7, <1>8, <1>9 DEF ConvInv

\* A turn whose run is over is settled as final, and as completed only on a completed run.
LEMMA SettledOutcome ==
    ASSUME NEW t \in Turns, run[t] \in RunEnded \cup {"none"}, NEW s \in TurnOutcomes(t, TRUE)
    PROVE  s \in Final /\ (s = "completed" => run[t] = "completed")
BY DEF TurnOutcomes, RunEnded, Final

\* Only the newest turn waited: once it is over, none does.
LEMMA NoneWaits ==
    ASSUME TurnsInv, NEW t \in Turns, msg[t] \in Awaiting, msg'[t] \in Final,
           \A u \in Turns : u # t => msg'[u] = msg[u]
    PROVE  AwaitingMessages' = {}
<1>1. ASSUME NEW u \in Turns, msg'[u] \in Awaiting PROVE FALSE
  <2>1. u # t
    BY <1>1 DEF Awaiting, Final
  <2>2. NewestTurn(u) /\ NewestTurn(t)
    BY <1>1, <2>1 DEF TurnsInv
  <2> QED BY <2>1, <2>2, OneNewest
<1> QED BY <1>1 DEF AwaitingMessages

\* A turn that waited is settled from its run, which is over (reconcile, submit).
LEMMA SettleTurnKeeps ==
    ASSUME NEW p, Procs = {p}, ConvInv, NEW c \in Calls, SettleTurn(c)
    PROVE  ConvInv'
<1> DEFINE t == calls[c].turn
<1>1. /\ Inside(calls[c]) /\ calls[c].at = "settle" /\ calls[c].at # "idle"
      /\ UNCHANGED <<run, driver, late, task, proc, version, restarts>>
  BY DEF SettleTurn, Inside
<1>2. t \in Turns /\ msg[t] \in Awaiting /\ run[t] \in RunEnded \cup {"none"} /\ ~TaskActive(p)
  BY <1>1 DEF ConvInv, CallInv, Knows
<1>3. PICK s \in TurnOutcomes(t, TRUE) : UpdateMessage(t, s)
  BY DEF SettleTurn
<1>4. s \in Final /\ (s = "completed" => run[t] = "completed") /\ s \in MessageStatus \ {"none"} /\ s \notin Awaiting
  BY <1>2, <1>3, SettledOutcome, WrittenStatuses DEF Final, Awaiting
<1>5. /\ TurnsInv' /\ msg' \in [Turns -> MessageStatus] /\ msg'[t] = s
      /\ \A u \in Turns : u # t => msg'[u] = msg[u]
  <2>1. msg[t] # "none"
    BY <1>2 DEF Awaiting
  <2> QED BY <1>1, <1>2, <1>3, <1>4, <2>1, Writes DEF ConvInv
<1>6. TaskInv'
  BY <1>1, <1>2 DEF TaskInv, TaskActive
<1>7. /\ LockInv' /\ CallInv'
      /\ calls' \in [Calls -> CallRecords] /\ lock' \in [Procs -> Calls \cup {NoCall}]
  <2>1. calls[c].op \in {"submit", "respond", "reconcile"}
    <3>1. GoodCall(calls[c]) /\ calls[c] \in CallRecords /\ calls[c].op # "idle"
      BY <1>1, CallTypes, AtWork DEF ConvInv, LockInv
    <3> QED BY <1>1, <3>1 DEF GoodCall, CallRecords
  <2>2. CASE calls[c].op = "submit"
    <3>1. calls' = [calls EXCEPT ![c].at = "append", ![c].turn = 0] /\ lock' = lock
      BY <2>2 DEF SettleTurn
    <3>2. PICK r \in CallRecords : Placed(c, r, "append", 0)
      BY <3>1, CallPlaced, Statuses DEF Places, ConvInv
    <3>3. Knows(r)'
      <4>1. r.at = "append" /\ r.op = "submit"
        BY <2>2, <3>2 DEF Placed
      <4>2. AwaitingMessages' = {}
        BY <1>2, <1>4, <1>5, NoneWaits DEF ConvInv
      <4> QED BY <1>1, <1>2, <4>1, <4>2 DEF Knows, TaskActive
    <3> QED BY <1>1, <2>2, <3>1, <3>2, <3>3, InsideStays, Statuses DEF InsidePlaces
  <2>3. CASE calls[c].op = "respond"
    BY <1>1, <2>3, InsideLeaves DEF SettleTurn
  <2>4. CASE calls[c].op = "reconcile"
    BY <1>1, <2>4, InsideGoesOn DEF SettleTurn
  <2> QED BY <2>1, <2>2, <2>3, <2>4
<1>8. ConvTypeOK'
  BY <1>1, <1>5, <1>7 DEF ConvInv, ConvTypeOK, CallRecords
<1> QED BY <1>5, <1>6, <1>7, <1>8 DEF ConvInv

\* A run that goes on gets a task that follows it again (reconcile).
LEMMA FollowAgainKeeps ==
    ASSUME NEW p, Procs = {p}, ConvInv, NEW c \in Calls, FollowAgain(c)
    PROVE  ConvInv'
<1>0. calls[c].at = "resumed" /\ calls[c].turn \in Turns
  BY DEF FollowAgain, ConvInv, CallInv, Knows
<1> DEFINE u == calls[c].turn
<1>10. PICK t \in Turns : t = u
  BY <1>0
<1>1. /\ Inside(calls[c]) /\ calls[c].at = "resumed" /\ calls[c].at # "idle" /\ calls[c].p = p
      /\ UNCHANGED <<run, driver, late, proc, version, restarts>>
      /\ UpdateMessage(t, "streaming") /\ task' = [task EXCEPT ![p] = NewTask(t, "resumed")]
      /\ proc[p] # "down"
  BY <1>0, <1>10, AtWork DEF FollowAgain, Inside
<1>2. t \in Turns /\ msg[t] \in Awaiting /\ NewestTurn(t) /\ t \in 0..LastTurn
  BY <1>1, <1>10, Statuses DEF ConvInv, CallInv, Knows, TurnsInv
<1>3. /\ TurnsInv' /\ msg' \in [Turns -> MessageStatus] /\ msg'[t] = "streaming"
      /\ \A w \in Turns : msg'[w] = "none" <=> msg[w] = "none"
  <2>1. msg[t] # "none" /\ "streaming" \in MessageStatus \ {"none"} /\ "streaming" \notin Awaiting
    BY <1>2, WrittenStatuses DEF Awaiting
  <2> QED BY <1>1, <1>2, <2>1, Writes DEF ConvInv
<1>4. calls[c].op \in {"respond", "reconcile"}
  <2>1. GoodCall(calls[c]) /\ calls[c] \in CallRecords /\ calls[c].op # "idle"
    BY <1>1, CallTypes, AtWork DEF ConvInv, LockInv
  <2> QED BY <1>1, <2>1 DEF GoodCall, CallRecords
<1>5. /\ LockInv' /\ CallInv'
      /\ calls' \in [Calls -> CallRecords] /\ lock' \in [Procs -> Calls \cup {NoCall}]
      /\ proc[p] = "starting" => \E d \in Calls : calls'[d].op = "reconcile"
  <2>1. CASE calls[c].op = "respond"
    BY <1>1, <2>1, InsideLeaves, AtWork DEF FollowAgain
  <2>2. CASE calls[c].op = "reconcile"
    BY <1>1, <2>2, InsideGoesOn DEF FollowAgain
  <2> QED BY <1>4, <2>1, <2>2
<1>6. NewTask(t, "resumed") \in TaskRecords /\ task \in [Procs -> TaskRecords]
  BY <1>2, TaskFields DEF ConvInv, ConvTypeOK, TaskRecords
<1>7. task' \in [Procs -> TaskRecords] /\ task'[p].turn = t /\ task'[p].at = "resumed"
  BY <1>1, <1>6 DEF NewTask, NoTask
<1>8. TaskInv'
  <2>1. NewestTurn(t)'
    BY <1>2, <1>3, NewestStays
  <2> QED BY <1>1, <1>3, <1>5, <1>7, <2>1 DEF TaskInv
<1>9. ConvTypeOK'
  BY <1>1, <1>3, <1>5, <1>7 DEF ConvInv, ConvTypeOK, CallRecords, TaskRecords
<1> QED BY <1>3, <1>5, <1>8, <1>9 DEF ConvInv

\* respond hands the answer to the run and makes the task that follows it.
LEMMA RespondAnswerKeeps ==
    ASSUME NEW p, Procs = {p}, ConvInv, NEW c \in Calls, RespondAnswer(c)
    PROVE  ConvInv'
<1> DEFINE t == calls[c].turn
<1>1. /\ Inside(calls[c]) /\ calls[c].at = "answer" /\ calls[c].op = "respond" /\ calls[c].p = p
      /\ UNCHANGED <<late, task, proc, version, restarts>> /\ proc[p] = "serving"
  <2>1. proc[p] \in {"serving", "starting", "down"}
    BY DEF ConvInv, ConvTypeOK
  <2> QED BY <2>1, AtWork DEF RespondAnswer, CallIs, Inside
<1>2. t \in Turns /\ msg[t] \in Awaiting /\ ~TaskActive(p) /\ t \in 0..LastTurn
  BY <1>1, Statuses DEF ConvInv, CallInv, Knows
<1>3. TaskInv'
  BY <1>1, <1>2 DEF TaskInv, TaskActive
<1>4. CASE UpdateMessage(t, "expired") /\ Leave(c) /\ UNCHANGED <<run, driver>>
  <2>1. /\ LockInv' /\ CallInv' /\ calls' \in [Calls -> CallRecords] /\ lock' \in [Procs -> Calls \cup {NoCall}]
    BY <1>1, <1>4, InsideLeaves
  <2>2. msg[t] # "none" /\ "expired" \in MessageStatus \ {"none"} /\ "expired" \notin Awaiting
    BY <1>2, WrittenStatuses DEF Awaiting
  <2>3. TurnsInv' /\ msg' \in [Turns -> MessageStatus]
    BY <1>1, <1>2, <1>4, <2>2, Writes DEF ConvInv
  <2>4. ConvTypeOK'
    BY <1>1, <1>4, <2>1, <2>3 DEF ConvInv, ConvTypeOK, CallRecords
  <2> QED BY <1>3, <2>1, <2>3, <2>4 DEF ConvInv
<1>5. CASE /\ run[t] \in RunPaused /\ CallAt(c, "resumed") /\ UNCHANGED <<msg, lock>>
           /\ run' = [run EXCEPT ![t] = "running"] /\ driver' = [driver EXCEPT ![t] = p]
  <2>1. PICK r \in CallRecords : Placed(c, r, "resumed", t)
    BY <1>2, <1>5, CallPlaced DEF Places, ConvInv
  <2>2. Knows(r)'
    <3>1. r.at = "resumed" /\ r.turn = t /\ r.op = "respond"
      BY <1>1, <2>1 DEF Placed
    <3> QED BY <1>1, <1>2, <1>5, <3>1 DEF Knows, TaskActive
  <2>3. /\ LockInv' /\ CallInv' /\ calls' \in [Calls -> CallRecords] /\ lock' \in [Procs -> Calls \cup {NoCall}]
    BY <1>1, <1>2, <1>5, <2>1, <2>2, InsideStays DEF InsidePlaces
  <2>4. run' \in [Turns -> RunState] /\ driver' \in [Turns -> Procs \cup {NoProc}]
    BY <1>2, <1>5, Statuses DEF ConvInv, ConvTypeOK
  <2>5. TurnsInv'
    <3>1. msg[t] # "none" /\ msg[t] # "completed" /\ msg' = msg
      BY <1>2, <1>5 DEF Awaiting
    <3>2. Numbered' /\ \A u \in Turns : msg'[u] \in Awaiting => NewestTurn(u)'
      BY <3>1 DEF ConvInv, TurnsInv, Numbered, NewestTurn
    <3>3. /\ run'[t] = "running" /\ driver'[t] = p
          /\ \A u \in Turns : u # t => run'[u] = run[u] /\ driver'[u] = driver[u]
      BY <1>2, <1>5 DEF ConvInv, ConvTypeOK
    <3>4. CompletedIsTrue' /\ \A u \in Turns : msg'[u] = "none" => run'[u] = "none"
      BY <3>1, <3>3 DEF ConvInv, TurnsInv, CompletedIsTrue
    <3> QED BY <1>1, <3>2, <3>3, <3>4 DEF ConvInv, TurnsInv
  <2>6. ConvTypeOK'
    BY <1>1, <1>5, <2>3, <2>4 DEF ConvInv, ConvTypeOK, CallRecords
  <2> QED BY <1>3, <2>3, <2>5, <2>6 DEF ConvInv
<1>6. CASE UNCHANGED <<msg, run, driver>> /\ (Leave(c) \/ (/\ PendingState(t) = "ended" /\ lock' = lock
                                                           /\ CallAt(c, "settle")))
  <2>1. /\ LockInv' /\ CallInv' /\ calls' \in [Calls -> CallRecords] /\ lock' \in [Procs -> Calls \cup {NoCall}]
    <3>1. CASE Leave(c)
      BY <1>1, <3>1, InsideLeaves
    <3>2. CASE PendingState(t) = "ended" /\ CallAt(c, "settle") /\ lock' = lock
      <4>1. PICK r \in CallRecords : Placed(c, r, "settle", t)
        BY <1>2, <3>2, CallPlaced DEF Places, ConvInv
      <4>2. r.at = "settle" /\ r.turn = t /\ r.op = "respond" /\ run[t] \in RunEnded \cup {"none"}
        BY <1>1, <3>2, <4>1 DEF Placed, PendingState
      <4>3. Knows(r)'
        BY <1>1, <1>2, <1>6, <4>2 DEF Knows, TaskActive
      <4> QED BY <1>1, <1>2, <3>2, <4>1, <4>3, InsideStays DEF InsidePlaces
    <3> QED BY <1>6, <3>1, <3>2
  <2>2. TurnsInv'
    BY <1>1, <1>6 DEF ConvInv, TurnsInv, Numbered, NewestTurn, CompletedIsTrue
  <2>3. ConvTypeOK'
    BY <1>1, <1>6, <2>1 DEF ConvInv, ConvTypeOK, CallRecords
  <2> QED BY <1>3, <2>1, <2>2, <2>3 DEF ConvInv
<1> QED BY <1>1, <1>4, <1>5, <1>6 DEF RespondAnswer

\* A turn is accepted beside none that waits.
LEMMA Accepts ==
    ASSUME ConvTypeOK, TurnsInv, NEW n \in Turns, n = NextTurn, AppendMessage(n), AwaitingMessages = {},
           UNCHANGED <<run, driver, proc>>
    PROVE  /\ TurnsInv' /\ msg' \in [Turns -> MessageStatus]
           /\ NewestTurn(n)' /\ msg'[n] = "accepted" /\ run[n] = "none"
<1>1. /\ msg' \in [Turns -> MessageStatus] /\ msg'[n] = "accepted"
      /\ \A u \in Turns : u # n => msg'[u] = msg[u]
  <2>1. "accepted" \in MessageStatus
    BY WrittenStatuses
  <2> QED BY <2>1 DEF AppendMessage, ConvTypeOK
<1>2. msg[n] = "none" /\ \A u \in Turns : u < n <=> msg[u] # "none"
  BY NextIsFree DEF TurnsInv
<1>3. Numbered'
  BY AcceptNumbers DEF TurnsInv
<1>4. run[n] = "none"
  BY <1>2 DEF TurnsInv
<1>6. \A u \in Turns : u > n => msg'[u] = "none"
  BY <1>1, <1>2, ConversationAssumption DEF Turns
<1>8. \A u \in Turns : msg'[u] \notin Awaiting
  BY <1>1, WrittenStatuses DEF AwaitingMessages
<1>9. CompletedIsTrue' /\ \A u \in Turns : msg'[u] = "none" => run'[u] = "none"
  BY <1>1, <1>2 DEF TurnsInv, CompletedIsTrue
<1>10. TurnsInv'
  BY <1>3, <1>8, <1>9 DEF TurnsInv
<1> QED BY <1>1, <1>4, <1>6, <1>10 DEF NewestTurn

\* submit appends the message of the new turn.
LEMMA SubmitAppendKeeps ==
    ASSUME NEW p, Procs = {p}, ConvInv, NEW c \in Calls, SubmitAppend(c)
    PROVE  ConvInv'
<1>1. /\ Inside(calls[c]) /\ calls[c].at = "append" /\ calls[c].op = "submit" /\ calls[c].p = p
      /\ UNCHANGED <<run, driver, late, task, proc, restarts>> /\ proc[p] = "serving"
  <2>1. proc[p] \in {"serving", "starting", "down"}
    BY DEF ConvInv, ConvTypeOK
  <2> QED BY <2>1, AtWork DEF SubmitAppend, CallIs, Inside
<1>2. AwaitingMessages = {} /\ ~TaskActive(p)
  BY <1>1 DEF ConvInv, CallInv, Knows
<1>3. TaskInv'
  BY <1>1, <1>2 DEF TaskInv, TaskActive
<1>4. CASE NextTurn \notin Turns
  <2>1. Leave(c) /\ UNCHANGED <<msg, version>>
    BY <1>4 DEF SubmitAppend
  <2>2. /\ LockInv' /\ CallInv' /\ calls' \in [Calls -> CallRecords] /\ lock' \in [Procs -> Calls \cup {NoCall}]
    BY <1>1, <2>1, InsideLeaves
  <2>3. TurnsInv'
    BY <1>1, <2>1 DEF ConvInv, TurnsInv, Numbered, NewestTurn, CompletedIsTrue
  <2>4. ConvTypeOK'
    BY <1>1, <2>1, <2>2 DEF ConvInv, ConvTypeOK, CallRecords
  <2> QED BY <1>3, <2>2, <2>3, <2>4 DEF ConvInv
<1>5. CASE NextTurn \in Turns
  <2>0. PICK n \in Turns : n = NextTurn
    BY <1>5
  <2>1. /\ TurnsInv' /\ msg' \in [Turns -> MessageStatus]
        /\ NewestTurn(n)' /\ msg'[n] = "accepted" /\ run[n] = "none"
    BY <1>1, <1>2, <1>5, <2>0, Accepts DEF SubmitAppend, ConvInv
  <2>2. version' \in Nat
    BY DEF SubmitAppend, ConvInv, ConvTypeOK
  <2>3. /\ LockInv' /\ CallInv' /\ calls' \in [Calls -> CallRecords] /\ lock' \in [Procs -> Calls \cup {NoCall}]
    <3>1. CASE Leave(c)
      BY <1>1, <3>1, InsideLeaves
    <3>2. CASE ~Leave(c)
      <4> DEFINE rec == [calls[c] EXCEPT !.at = "task", !.turn = n, !.version = 0]
      <4>1. calls' = [calls EXCEPT ![c] = rec] /\ lock' = lock
        BY <1>5, <2>0, <3>2 DEF SubmitAppend
      <4>2. calls[c] \in CallRecords /\ n \in 0..LastTurn
        BY CallTypes, Statuses DEF ConvInv
      <4>3. rec \in CallRecords /\ rec.at = "task" /\ rec.turn = n /\ rec.op = "submit" /\ rec.p = p
        BY <1>1, <4>2 DEF CallRecords
      <4> HIDE DEF rec
      <4>4. PICK r \in CallRecords : Placed(c, r, "task", n)
        BY <1>1, <4>1, <4>3 DEF Placed
      <4>5. Knows(r)'
        <5>1. r.at = "task" /\ r.turn = n /\ r.op = "submit"
          BY <1>1, <4>4 DEF Placed
        <5> QED BY <1>1, <1>2, <2>1, <5>1 DEF Knows, TaskActive
      <4> QED BY <1>1, <4>1, <4>2, <4>4, <4>5, InsideStays DEF InsidePlaces
    <3> QED BY <3>1, <3>2
  <2>4. ConvTypeOK'
    BY <1>1, <2>1, <2>2, <2>3 DEF ConvInv, ConvTypeOK, CallRecords
  <2> QED BY <1>3, <2>1, <2>3, <2>4 DEF ConvInv
<1> QED BY <1>4, <1>5

\* submit starts the task of the turn it appended and gives the lock back.
LEMMA SubmitTaskKeeps ==
    ASSUME NEW p, Procs = {p}, ConvInv, NEW c \in Calls, SubmitTask(c)
    PROVE  ConvInv'
<1> DEFINE t == calls[c].turn
<1>1. /\ Inside(calls[c]) /\ calls[c].at = "task" /\ calls[c].op = "submit" /\ calls[c].p = p
      /\ UNCHANGED <<msg, run, driver, late, proc, version, restarts>> /\ Leave(c)
      /\ task' = [task EXCEPT ![p] = NewTask(t, "created")] /\ proc[p] = "serving"
  <2>1. proc[p] \in {"serving", "starting", "down"}
    BY DEF ConvInv, ConvTypeOK
  <2> QED BY <2>1, AtWork DEF SubmitTask, CallIs, Inside
<1>2. NewestTurn(t) /\ msg[t] = "accepted" /\ run[t] = "none" /\ t \in 0..LastTurn
  BY <1>1, Statuses DEF ConvInv, CallInv, Knows, NewestTurn
<1>3. /\ LockInv' /\ CallInv' /\ calls' \in [Calls -> CallRecords] /\ lock' \in [Procs -> Calls \cup {NoCall}]
  BY <1>1, InsideLeaves
<1>4. NewTask(t, "created") \in TaskRecords /\ task \in [Procs -> TaskRecords]
  BY <1>2, TaskFields DEF ConvInv, ConvTypeOK, TaskRecords
<1>5. task' \in [Procs -> TaskRecords] /\ task'[p].turn = t /\ task'[p].at = "created"
  BY <1>1, <1>4 DEF NewTask, NoTask
<1>6. TaskInv'
  BY <1>1, <1>2, <1>5 DEF TaskInv, NewestTurn
<1>7. TurnsInv'
  BY <1>1 DEF ConvInv, TurnsInv, Numbered, NewestTurn, CompletedIsTrue
<1>8. ConvTypeOK'
  BY <1>1, <1>3, <1>5 DEF ConvInv, ConvTypeOK, CallRecords, TaskRecords
<1> QED BY <1>3, <1>6, <1>7, <1>8 DEF ConvInv

\* A recovery fails the messages whose task died with its process, then sweeps (recover).
LEMMA RecoverFailKeeps ==
    ASSUME NEW p, Procs = {p}, ConvInv, NEW c \in Calls, RecoverFail(c)
    PROVE  ConvInv'
<1>1. /\ calls[c].op = "recover" /\ calls[c].at = "fail" /\ calls[c].p = p /\ lock' = lock
      /\ UNCHANGED <<run, driver, late, task, proc, version, restarts>> /\ proc[p] = "starting"
      /\ ~TaskActive(p) /\ calls[c].todo \subseteq PendingMessages /\ ~Inside(calls[c])
  BY AtWork DEF RecoverFail, CallIs, Inside, ConvInv, CallInv, Knows
<1>2. \A d \in Calls \ {c} : calls[d] = Idle
  BY <1>1, AtWork
<1>3. calls \in [Calls -> CallRecords] /\ calls[c] \in CallRecords /\ version' \in Nat
  BY <1>1, CallTypes DEF ConvInv, ConvTypeOK
<1>4. CASE calls[c].todo = {}
  <2> DEFINE rec == [calls[c] EXCEPT !.op = "reconcile", !.at = "next", !.todo = AwaitingMessages]
  <2>1. calls' = [calls EXCEPT ![c] = rec] /\ msg' = msg
    BY <1>3, <1>4 DEF RecoverFail
  <2>2. AwaitingMessages \subseteq Turns
    BY DEF AwaitingMessages
  <2>3. rec \in CallRecords /\ rec.op = "reconcile" /\ rec.at = "next" /\ rec.p = p
    BY <1>1, <1>3, <2>2 DEF CallRecords
  <2> HIDE DEF rec
  <2>4. PICK r \in CallRecords : /\ calls' = [calls EXCEPT ![c] = r]
                                 /\ r.op = "reconcile" /\ r.at = "next" /\ r.p = p
    BY <2>1, <2>3
  <2>5. GoodCall(r) /\ ~Inside(r) /\ Knows(r)
    BY <2>4 DEF GoodCall, Inside, Knows
  <2>6. LockMoves(p, c, r) /\ Admits(p, c, r)
    BY <1>1, <1>2, <2>4, <2>5 DEF LockMoves, Admits
  <2> QED BY <1>1, <1>3, <2>1, <2>4, <2>5, <2>6, CallMoves
<1>5. CASE calls[c].todo # {}
  <2>1. PICK t \in calls[c].todo : /\ UpdateMessage(t, "failed")
                                   /\ calls' = [calls EXCEPT ![c].todo = @ \ {t}]
    BY <1>5 DEF RecoverFail
  <2>2. t \in Turns /\ msg[t] \in InProgress
    BY <1>1, <2>1 DEF PendingMessages
  <2>3. /\ TurnsInv' /\ msg' \in [Turns -> MessageStatus]
        /\ \A u \in Turns : u # t => msg'[u] = msg[u]
    <3>1. msg[t] # "none" /\ "failed" \in MessageStatus \ {"none"} /\ "failed" \notin Awaiting
      BY <2>2, WrittenStatuses DEF InProgress
    <3> QED BY <1>1, <2>1, <2>2, <3>1, Writes DEF ConvInv
  <2> DEFINE rec == [calls[c] EXCEPT !.todo = calls[c].todo \ {t}]
  <2>4. calls' = [calls EXCEPT ![c] = rec]
    BY <1>3, <2>1
  <2>5. /\ rec \in CallRecords /\ rec.op = "recover" /\ rec.at = "fail" /\ rec.p = p
        /\ rec.todo = calls[c].todo \ {t}
    BY <1>1, <1>3 DEF CallRecords
  <2> HIDE DEF rec
  <2>6. PICK r \in CallRecords : /\ calls' = [calls EXCEPT ![c] = r] /\ r.op = "recover" /\ r.at = "fail"
                                 /\ r.p = p /\ r.todo = calls[c].todo \ {t}
    BY <2>4, <2>5
  <2>7. GoodCall(r) /\ ~Inside(r)
    BY <2>6 DEF GoodCall, Inside
  <2>8. LockMoves(p, c, r) /\ Admits(p, c, r)
    BY <1>1, <1>2, <2>6, <2>7 DEF LockMoves, Admits, Idle
  <2>9. LockInv' /\ calls' \in [Calls -> CallRecords] /\ lock' \in [Procs -> Calls \cup {NoCall}]
    BY <1>1, <2>6, <2>7, <2>8, LockKept
  <2>10. CallInv'
    <3>1. calls'[c] = r /\ \A d \in Calls \ {c} : calls'[d] = Idle
      BY <1>2, <1>3, <2>6
    <3>2. r.todo \subseteq PendingMessages'
      BY <1>1, <2>3, <2>6 DEF PendingMessages
    <3>3. Knows(calls[c])'
      BY <1>1, <2>6, <3>1, <3>2 DEF Knows, TaskActive
    <3>4. ASSUME NEW d \in Calls \ {c} PROVE Knows(calls[d])'
      BY <3>1 DEF Knows, Idle
    <3> QED BY <3>3, <3>4 DEF CallInv
  <2>11. TaskInv'
    BY <1>1 DEF TaskInv, TaskActive
  <2>12. ConvTypeOK'
    BY <1>1, <2>3, <2>9 DEF ConvInv, ConvTypeOK, CallRecords
  <2> QED BY <2>3, <2>9, <2>10, <2>11, <2>12 DEF ConvInv
<1> QED BY <1>4, <1>5

-----------------------------------------------------------------------------
(* Steps of the task.                                                      *)

\* A step of the task leaves the calls what they know: beside it there is at most a cancel, which
\* found the turn waiting when the task had already stored its result.
LEMMA TaskMoves ==
    ASSUME NEW p, Procs = {p}, ConvInv, TaskActive(p), UNCHANGED <<lock, calls, proc>>,
           \A u \in Turns : msg'[u] = "none" <=> msg[u] = "none",
           task[p].at \in {"announce_result", "cancel"} \/ (PublishFails /\ task[p].at = "fail") =>
               /\ task'[p].at \in {"none", "announce_result", "cancel"} \/ (PublishFails /\ task'[p].at = "fail")
               /\ \/ msg'[task[p].turn] \in {msg[task[p].turn], "cancelled"}
                  \/ PublishFails /\ msg'[task[p].turn] = "failed"
    PROVE  LockInv' /\ CallInv'
<1>1. LockInv'
  BY DEF ConvInv, LockInv, GoodCall, Inside, Idle
<1>2. ASSUME NEW c \in Calls PROVE Knows(calls[c])'
  <2>1. Knows(calls[c]) /\ calls'[c] = calls[c] /\ calls[c].op # "recover"
    BY DEF ConvInv, CallInv, Knows
  <2>2. calls[c].at \notin {"settle", "append", "task", "answer", "resumed"}
    BY <2>1 DEF Knows
  <2>3. CASE calls[c].at \in {"end", "write"}
    <3>1. /\ NewestTurn(calls[c].turn)
          /\ msg[calls[c].turn] \in Awaiting \cup {"cancelled"} \/ (PublishFails /\ msg[calls[c].turn] = "failed")
          /\ task[p].at \in {"announce_result", "cancel"} \/ (PublishFails /\ task[p].at = "fail")
      BY <2>1, <2>3 DEF Knows, TaskActive
    <3>2. calls[c].turn = task[p].turn
      BY <3>1, OneNewest DEF ConvInv, TaskInv
    <3>3. /\ msg'[calls[c].turn] \in Awaiting \cup {"cancelled"} \/ (PublishFails /\ msg'[calls[c].turn] = "failed")
          /\ task'[p].at \in {"none", "announce_result", "cancel"} \/ (PublishFails /\ task'[p].at = "fail")
      BY <3>1, <3>2
    <3>4. NewestTurn(calls[c].turn)'
      BY <2>1, <3>1, NewestStays
    <3> QED BY <2>1, <2>2, <2>3, <3>3, <3>4 DEF Knows
  <2>4. CASE calls[c].at \notin {"end", "write"}
    BY <2>1, <2>2, <2>4 DEF Knows
  <2> QED BY <2>3, <2>4
<1> QED BY <1>1, <1>2 DEF CallInv

\* What every step of a living task starts from.
LEMMA ActiveTask ==
    ASSUME NEW p, Procs = {p}, ConvInv, TaskActive(p)
    PROVE  /\ task \in [Procs -> TaskRecords] /\ task[p] \in TaskRecords
           /\ task[p].turn \in Turns /\ NewestTurn(task[p].turn) /\ msg[task[p].turn] # "none"
           /\ proc[p] # "down" /\ (proc[p] = "starting" => \E c \in Calls : calls[c].op = "reconcile")
BY DEF ConvInv, ConvTypeOK, TaskRecords, TaskInv, NewestTurn

\* The next place of a task, and its end.
LEMMA TaskPlaced ==
    ASSUME NEW p, Procs = {p}, ConvInv, TaskActive(p),
           NEW at \in {"work", "wait", "store", "announce_result", "fail"}, StepTask(p, at)
    PROVE  /\ task' \in [Procs -> TaskRecords]
           /\ task'[p].at = at /\ task'[p].turn = task[p].turn /\ task'[p].outcome = task[p].outcome
BY ActiveTask DEF StepTask, TaskRecords

\* A task that ends leaves no trace in the table.
LEMMA TaskEnded ==
    ASSUME NEW p, Procs = {p}, ConvInv, TaskActive(p), EndTask(p)
    PROVE  task' \in [Procs -> TaskRecords] /\ task'[p].at = "none" /\ ~TaskActive(p)' /\ TaskInv'
<1>1. task' \in [Procs -> TaskRecords] /\ task'[p] = NoTask
  BY ActiveTask, TaskFields DEF EndTask
<1> QED BY <1>1 DEF NoTask, TaskActive, TaskInv

\* Nothing but the task changes.
LEMMA OnlyTask ==
    ASSUME ConvInv, UNCHANGED <<msg, run, driver, late, lock, calls, proc, version, restarts>>,
           task' \in [Procs -> TaskRecords]
    PROVE  ConvTypeOK' /\ TurnsInv'
BY DEF ConvInv, ConvTypeOK, TaskRecords, TurnsInv, Numbered, NewestTurn, CompletedIsTrue

\* The task writes its message.
LEMMA TaskWrites ==
    ASSUME NEW p, Procs = {p}, ConvInv, TaskActive(p), NEW s \in MessageStatus \ {"none"},
           UpdateMessage(task[p].turn, s), s = "completed" => run[task[p].turn] = "completed",
           UNCHANGED <<run, driver, late, lock, calls, proc, version, restarts>>,
           task' \in [Procs -> TaskRecords]
    PROVE  /\ TurnsInv' /\ ConvTypeOK' /\ msg'[task[p].turn] = s
           /\ \A u \in Turns : msg'[u] = "none" <=> msg[u] = "none"
<1>1. task[p].turn \in Turns /\ NewestTurn(task[p].turn) /\ msg[task[p].turn] # "none"
  BY ActiveTask
<1>2. /\ TurnsInv' /\ msg' \in [Turns -> MessageStatus] /\ msg'[task[p].turn] = s
      /\ \A u \in Turns : msg'[u] = "none" <=> msg[u] = "none"
  BY <1>1, Writes DEF ConvInv
<1>3. ConvTypeOK'
  BY <1>2 DEF ConvInv, ConvTypeOK, TaskRecords
<1> QED BY <1>2, <1>3

\* The task writes its message as streaming and goes to work, or follows the run that was resumed.
LEMMA TaskStartKeeps ==
    ASSUME NEW p, Procs = {p}, ConvInv, TaskStart(p)
    PROVE  ConvInv'
<1>1. TaskActive(p) /\ UNCHANGED <<run, driver, late, lock, calls, proc, version, restarts>>
  BY DEF TaskStart, Uncancelled, TaskActive
<1>2. PICK t \in Turns : t = task[p].turn
  BY <1>1, ActiveTask
<1>3. CASE task[p].at = "created" /\ UpdateMessage(task[p].turn, "streaming") /\ StepTask(p, "work")
  <2>1. task' \in [Procs -> TaskRecords] /\ task'[p].at = "work" /\ task'[p].turn = t
    BY <1>1, <1>2, <1>3, TaskPlaced
  <2>2. /\ TurnsInv' /\ ConvTypeOK' /\ msg'[t] = "streaming"
        /\ \A u \in Turns : msg'[u] = "none" <=> msg[u] = "none"
    BY <1>1, <1>2, <1>3, <2>1, TaskWrites, WrittenStatuses
  <2>3. LockInv' /\ CallInv'
    BY <1>1, <1>3, <2>2, TaskMoves
  <2>4. TaskInv'
    <3>1. NewestTurn(t)' /\ run[t] = "none"
      BY <1>1, <1>2, <1>3, <2>2, ActiveTask, NewestStays DEF ConvInv, TaskInv
    <3> QED BY <1>1, <2>1, <2>2, <3>1, ActiveTask DEF TaskInv
  <2> QED BY <2>2, <2>3, <2>4 DEF ConvInv
<1>4. CASE task[p].at = "resumed" /\ StepTask(p, "wait") /\ msg' = msg
  <2>1. task' \in [Procs -> TaskRecords] /\ task'[p].at = "wait" /\ task'[p].turn = t
    BY <1>1, <1>2, <1>4, TaskPlaced
  <2>2. ConvTypeOK' /\ TurnsInv'
    BY <1>1, <1>4, <2>1, OnlyTask
  <2>3. LockInv' /\ CallInv'
    BY <1>1, <1>4, TaskMoves
  <2>4. TaskInv'
    <3>1. NewestTurn(t)' /\ msg[t] = "streaming"
      BY <1>1, <1>2, <1>4, ActiveTask, NewestStays DEF ConvInv, TaskInv
    <3> QED BY <1>1, <1>4, <2>1, <3>1, ActiveTask DEF TaskInv
  <2> QED BY <2>2, <2>3, <2>4 DEF ConvInv
<1> QED BY <1>3, <1>4 DEF TaskStart, Uncancelled

\* A run changes: its message is neither missing nor completed.
LEMMA RunMoves ==
    ASSUME NEW p, Procs = {p}, ConvInv, NEW t \in Turns, NEW s \in RunState, NEW d \in Procs \cup {NoProc},
           run' = [run EXCEPT ![t] = s], driver' = [driver EXCEPT ![t] = d], UNCHANGED <<msg, proc>>,
           msg[t] # "none" \/ s = "none", run[t] # "completed",
           s = "running" => d = p
    PROVE  /\ TurnsInv' /\ run' \in [Turns -> RunState] /\ driver' \in [Turns -> Procs \cup {NoProc}]
           /\ run'[t] = s /\ \A u \in Turns : u # t => run'[u] = run[u]
<1>1. /\ run' \in [Turns -> RunState] /\ driver' \in [Turns -> Procs \cup {NoProc}]
      /\ run'[t] = s /\ driver'[t] = d
      /\ \A u \in Turns : u # t => run'[u] = run[u] /\ driver'[u] = driver[u]
  BY DEF ConvInv, ConvTypeOK
<1>2. Numbered' /\ \A u \in Turns : msg'[u] \in Awaiting => NewestTurn(u)'
  BY DEF ConvInv, TurnsInv, Numbered, NewestTurn
<1>3. CompletedIsTrue' /\ \A u \in Turns : msg'[u] = "none" => run'[u] = "none"
  BY <1>1 DEF ConvInv, TurnsInv, CompletedIsTrue
<1> QED BY <1>1, <1>2, <1>3 DEF ConvInv, TurnsInv

\* The task starts the run of its turn, or fails before it.
LEMMA TaskWorkKeeps ==
    ASSUME NEW p, Procs = {p}, ConvInv, TaskWork(p)
    PROVE  ConvInv'
<1>1. /\ TaskActive(p) /\ UNCHANGED <<msg, late, lock, calls, proc, version, restarts>> /\ task[p].at = "work"
  BY DEF TaskWork, Uncancelled, TaskActive
<1>2. PICK t \in Turns : t = task[p].turn
  BY <1>1, ActiveTask
<1>3. NewestTurn(t) /\ NewestTurn(t)' /\ msg[t] = "streaming" /\ run[t] = "none"
  BY <1>1, <1>2, NewestStays DEF ConvInv, TaskInv
<1>4. LockInv' /\ CallInv'
  BY <1>1, TaskMoves
<1>5. CASE /\ run' = [run EXCEPT ![t] = "running"] /\ driver' = [driver EXCEPT ![t] = p] /\ StepTask(p, "wait")
  <2>1. task' \in [Procs -> TaskRecords] /\ task'[p].at = "wait" /\ task'[p].turn = t
    BY <1>1, <1>2, <1>5, TaskPlaced
  <2>2. TurnsInv' /\ run' \in [Turns -> RunState] /\ driver' \in [Turns -> Procs \cup {NoProc}]
    <3>1. "running" \in RunState
      BY Statuses
    <3> QED BY <1>1, <1>3, <1>5, <3>1, RunMoves
  <2>3. TaskInv'
    BY <1>1, <1>3, <2>1, ActiveTask DEF TaskInv
  <2>4. ConvTypeOK'
    BY <1>1, <2>1, <2>2 DEF ConvInv, ConvTypeOK, TaskRecords
  <2> QED BY <1>4, <2>2, <2>3, <2>4 DEF ConvInv
<1>6. CASE StepTask(p, "fail") /\ UNCHANGED <<run, driver>>
  <2>1. task' \in [Procs -> TaskRecords] /\ task'[p].at = "fail" /\ task'[p].turn = t
    BY <1>1, <1>2, <1>6, TaskPlaced
  <2>2. TaskInv'
    BY <1>1, <1>3, <2>1, ActiveTask DEF TaskInv
  <2> QED BY <1>1, <1>4, <1>6, <2>1, <2>2, OnlyTask DEF ConvInv
<1>7. CASE EndTask(p) /\ UNCHANGED <<run, driver>>
  BY <1>1, <1>4, <1>7, TaskEnded, OnlyTask DEF ConvInv
<1> QED BY <1>2, <1>5, <1>6, <1>7 DEF TaskWork

\* What a task that followed its run to the end is told.
LEMMA FollowedOutcome ==
    ASSUME NEW t \in Turns, run[t] \in RunState, run[t] # "running", NEW s \in TurnOutcomes(t, FALSE)
    PROVE  s \in Awaiting \cup Final /\ (s = "completed" => run[t] = "completed")
BY DEF TurnOutcomes, RunState, RunPaused, RunEnded, Awaiting, Final

\* The task that follows a run sees that it stopped, and how.
LEMMA TaskResultKeeps ==
    ASSUME NEW p, Procs = {p}, ConvInv, TaskResult(p)
    PROVE  ConvInv'
<1>1. /\ TaskActive(p) /\ task[p].at = "wait"
      /\ UNCHANGED <<msg, run, driver, late, lock, calls, proc, version, restarts>>
  BY DEF TaskResult, Uncancelled, TaskActive
<1>2. PICK t \in Turns : t = task[p].turn
  BY <1>1, ActiveTask
<1>3. NewestTurn(t) /\ NewestTurn(t)' /\ msg[t] = "streaming" /\ proc[p] # "down"
  BY <1>1, <1>2, NewestStays DEF ConvInv, TaskInv
<1>4. run[t] # "running" /\ run[t] \in RunState
  BY <1>2, <1>3 DEF TaskResult, ConvInv, TurnsInv, ConvTypeOK
<1>5. PICK s \in TurnOutcomes(t, FALSE) : task' = [task EXCEPT ![p].at = "store", ![p].outcome = s]
  BY <1>2 DEF TaskResult
<1>6. s \in Awaiting \cup Final /\ (s = "completed" => run[t] = "completed") /\ s # "none"
  BY <1>4, <1>5, FollowedOutcome DEF Awaiting, Final
<1>7. task' \in [Procs -> TaskRecords] /\ task'[p].at = "store" /\ task'[p].turn = t /\ task'[p].outcome = s
  <2>1. task \in [Procs -> TaskRecords] /\ task[p] \in TaskRecords
    BY <1>1, ActiveTask
  <2> DEFINE rec == [task[p] EXCEPT !.at = "store", !.outcome = s]
  <2>2. task' = [task EXCEPT ![p] = rec]
    BY <1>5, <2>1
  <2>3. rec \in TaskRecords /\ rec.at = "store" /\ rec.turn = t /\ rec.outcome = s
    BY <1>2, <1>6, <2>1 DEF TaskRecords
  <2> HIDE DEF rec
  <2> QED BY <2>1, <2>2, <2>3
<1>8. LockInv' /\ CallInv'
  BY <1>1, TaskMoves
<1>9. TaskInv'
  BY <1>1, <1>3, <1>6, <1>7, ActiveTask DEF TaskInv
<1> QED BY <1>1, <1>7, <1>8, <1>9, OnlyTask DEF ConvInv

\* The task writes the result of the run to its message.
LEMMA TaskStoreKeeps ==
    ASSUME NEW p, Procs = {p}, ConvInv, TaskStore(p)
    PROVE  ConvInv'
<1>1. /\ TaskActive(p) /\ task[p].at = "store" /\ UpdateMessage(task[p].turn, task[p].outcome)
      /\ StepTask(p, "announce_result") /\ UNCHANGED <<run, driver, late, lock, calls, proc, version, restarts>>
  BY DEF TaskStore, Uncancelled, TaskActive
<1>2. PICK t \in Turns : t = task[p].turn
  BY <1>1, ActiveTask
<1>3. PICK s \in Awaiting \cup Final : s = task[p].outcome
  <2>1. task[p].outcome \in {"none"} \cup Awaiting \cup Final /\ task[p].outcome # "none"
    BY <1>1 DEF ConvInv, ConvTypeOK, TaskInv
  <2> QED BY <2>1
<1>4. NewestTurn(t) /\ (s = "completed" => run[t] = "completed") /\ s \in MessageStatus \ {"none"}
  BY <1>1, <1>2, <1>3, WrittenStatuses DEF ConvInv, TaskInv
<1>5. task' \in [Procs -> TaskRecords] /\ task'[p].at = "announce_result" /\ task'[p].turn = t
  BY <1>1, <1>2, TaskPlaced
<1>6. TurnsInv' /\ ConvTypeOK' /\ \A u \in Turns : msg'[u] = "none" <=> msg[u] = "none"
  BY <1>1, <1>2, <1>3, <1>4, <1>5, TaskWrites
<1>7. LockInv' /\ CallInv'
  BY <1>1, <1>6, TaskMoves
<1>8. NewestTurn(t)'
  BY <1>4, <1>6, NewestStays
<1>9. TaskInv'
  BY <1>1, <1>5, <1>8, ActiveTask DEF TaskInv
<1> QED BY <1>6, <1>7, <1>9 DEF ConvInv

\* The task ends once its result is told.
LEMMA TaskDoneKeeps ==
    ASSUME NEW p, Procs = {p}, ConvInv, TaskDone(p)
    PROVE  ConvInv'
<1>1. /\ TaskActive(p) /\ task[p].at = "announce_result"
      /\ UNCHANGED <<msg, run, driver, late, lock, calls, proc, version, restarts>>
  BY DEF TaskDone, Uncancelled, TaskActive
<1>2. PICK t \in Turns : t = task[p].turn
  BY <1>1, ActiveTask
<1>3. CASE EndTask(p)
  <2>1. task' \in [Procs -> TaskRecords] /\ task'[p].at = "none" /\ TaskInv'
    BY <1>1, <1>3, TaskEnded
  <2>2. LockInv' /\ CallInv'
    BY <1>1, <2>1, TaskMoves
  <2> QED BY <1>1, <2>1, <2>2, OnlyTask DEF ConvInv
<1>4. CASE PublishFails /\ StepTask(p, "fail")
  <2>1. task' \in [Procs -> TaskRecords] /\ task'[p].at = "fail" /\ task'[p].turn = t
    BY <1>1, <1>2, <1>4, TaskPlaced
  <2>2. LockInv' /\ CallInv'
    BY <1>1, <1>4, <2>1, TaskMoves
  <2>3. NewestTurn(t)'
    BY <1>1, <1>2, ActiveTask, NewestStays
  <2>4. TaskInv'
    BY <1>1, <1>4, <2>1, <2>3, ActiveTask DEF TaskInv
  <2> QED BY <1>1, <2>1, <2>2, <2>4, OnlyTask DEF ConvInv
<1> QED BY <1>3, <1>4 DEF TaskDone

\* The task writes a failure or a cancellation to its message and ends.
LEMMA TaskFailKeeps ==
    ASSUME NEW p, Procs = {p}, ConvInv, TaskFail(p) \/ TaskCancelWrite(p)
    PROVE  ConvInv'
<1>1. PICK s \in {"failed", "cancelled"} :
        /\ TaskActive(p) /\ UpdateMessage(task[p].turn, s) /\ EndTask(p)
        /\ s = "failed" => task[p].at = "fail"
        /\ UNCHANGED <<run, driver, late, lock, calls, proc, version, restarts>>
  BY DEF TaskFail, TaskCancelWrite, Uncancelled, TaskActive
<1>2. task' \in [Procs -> TaskRecords] /\ task'[p].at = "none" /\ TaskInv'
  BY <1>1, TaskEnded
<1>3. s \in MessageStatus \ {"none"}
  BY WrittenStatuses
<1>4. /\ TurnsInv' /\ ConvTypeOK' /\ msg'[task[p].turn] = s
      /\ \A u \in Turns : msg'[u] = "none" <=> msg[u] = "none"
  BY <1>1, <1>2, <1>3, TaskWrites
<1>5. LockInv' /\ CallInv'
  BY <1>1, <1>2, <1>4, TaskMoves
<1> QED BY <1>2, <1>4, <1>5 DEF ConvInv

\* A cancellation reaches the task at an await and ends the drive it waits for.
LEMMA TaskCancelledKeeps ==
    ASSUME NEW p, Procs = {p}, ConvInv, TaskCancelled(p)
    PROVE  ConvInv'
<1>0. task[p].cancelled /\ UNCHANGED <<msg, late, lock, calls, proc, version, restarts>>
  BY DEF TaskCancelled
<1>1. CASE ~TaskActive(p)
  <2>1. EndTask(p) /\ UNCHANGED <<run, driver>>
    BY <1>1 DEF TaskCancelled, TaskActive
  <2>2. task' = [task EXCEPT ![p] = NoTask] /\ task \in [Procs -> TaskRecords]
    BY <2>1 DEF EndTask, ConvInv, ConvTypeOK, TaskRecords
  <2>3. task' \in [Procs -> TaskRecords] /\ task'[p].at = "none"
    BY <2>2, TaskFields DEF NoTask
  <2>4. TaskInv'
    BY <2>3 DEF TaskInv, TaskActive
  <2>7. LockInv'
    BY <1>0 DEF ConvInv, LockInv, GoodCall, Inside, Idle
  <2>5. CallInv'
    <3>1. task[p].at = "none" /\ UNCHANGED <<msg, run, proc, calls>>
      BY <1>0, <1>1, <2>1 DEF TaskActive
    <3>2. ASSUME NEW d \in Calls PROVE Knows(calls[d])'
      <4>1. Knows(calls[d]) /\ calls'[d] = calls[d]
        BY <3>1 DEF ConvInv, CallInv
      <4> QED BY <2>3, <3>1, <4>1 DEF Knows, TaskActive, NewestTurn, AwaitingMessages, PendingMessages
    <3> QED BY <3>2 DEF CallInv
  <2>6. ConvTypeOK' /\ TurnsInv'
    BY <1>0, <2>1, <2>3, OnlyTask
  <2> QED BY <2>4, <2>5, <2>6, <2>7 DEF ConvInv
<1>2. CASE TaskActive(p)
  <2>1. PICK t \in Turns : t = task[p].turn /\ t \in 0..LastTurn
    BY <1>2, ActiveTask, Statuses
  <2>2. msg[t] \notin {"none", "completed"} \/ UNCHANGED <<run, driver>>
    BY <1>2, <2>1, ActiveTask DEF ConvInv, TaskInv, TaskCancelled
  <2>3. TurnsInv' /\ run' \in [Turns -> RunState] /\ driver' \in [Turns -> Procs \cup {NoProc}]
    <3>1. CASE UNCHANGED <<run, driver>>
      BY <1>0, <3>1 DEF ConvInv, ConvTypeOK, TurnsInv, Numbered, NewestTurn, CompletedIsTrue
    <3>2. CASE /\ run' = [run EXCEPT ![t] = "cancelled"] /\ driver' = [driver EXCEPT ![t] = NoProc]
               /\ run[t] = "running"
      <4>1. "cancelled" \in RunState
        BY Statuses
      <4>2. msg[t] # "none"
        BY <1>2, <2>1, ActiveTask
      <4> QED BY <1>0, <3>2, <4>1, <4>2, RunMoves
    <3> QED BY <2>1, <3>1, <3>2 DEF TaskCancelled
  <2>4. /\ task' \in [Procs -> TaskRecords] /\ task'[p].at \in {"none", "cancel"} /\ TaskInv'
        /\ (task'[p].at = "cancel" => task'[p].turn = t)
    <3>1. CASE EndTask(p)
      BY <1>2, <3>1, TaskEnded
    <3>2. CASE task' = [task EXCEPT ![p] = NewTask(t, "cancel")]
      <4>1. NewTask(t, "cancel") \in TaskRecords /\ task \in [Procs -> TaskRecords]
        BY <1>2, <2>1, ActiveTask, TaskFields
      <4>2. task' \in [Procs -> TaskRecords] /\ task'[p].turn = t /\ task'[p].at = "cancel"
        BY <3>2, <4>1 DEF NewTask, NoTask
      <4>3. NewestTurn(t)'
        BY <1>0, <1>2, <2>1, ActiveTask, NewestStays
      <4>4. TaskInv'
        BY <1>0, <1>2, <4>2, <4>3, ActiveTask DEF TaskInv
      <4> QED BY <4>2, <4>4
    <3> QED BY <2>1, <3>1, <3>2 DEF TaskCancelled
  <2>5. LockInv' /\ CallInv'
    BY <1>0, <1>2, <2>4, TaskMoves
  <2>6. ConvTypeOK'
    BY <1>0, <2>3, <2>4 DEF ConvInv, ConvTypeOK, TaskRecords
  <2> QED BY <2>3, <2>4, <2>5, <2>6 DEF ConvInv
<1> QED BY <1>1, <1>2

\* A cancel arrives: it tells the task to stop, or without one waits for the lock.
LEMMA CancelTurnKeeps ==
    ASSUME NEW p, Procs = {p}, ConvInv, NEW c \in Calls, CancelTurn(c, p)
    PROVE  ConvInv'
<1>1. /\ calls[c] = Idle /\ proc[p] = "serving" /\ version \in Nat
      /\ UNCHANGED <<msg, run, driver, late, lock, proc, version, restarts>>
  BY DEF CancelTurn, ConvInv, ConvTypeOK
<1>2. CASE TaskActive(p)
  <2>1. task' = [task EXCEPT ![p].cancelled = TRUE] /\ calls' = calls
    BY <1>2 DEF CancelTurn
  <2>2. /\ task' \in [Procs -> TaskRecords] /\ task'[p].at = task[p].at /\ task'[p].turn = task[p].turn
        /\ task'[p].outcome = task[p].outcome
    BY <1>2, <2>1, ActiveTask DEF TaskRecords
  <2>3. LockInv' /\ CallInv'
    BY <1>1, <1>2, <2>1, <2>2, TaskMoves
  <2>4. TaskInv'
    BY <1>1, <2>1, <2>2 DEF ConvInv, TaskInv, TaskActive, NewestTurn
  <2> QED BY <1>1, <2>1, <2>2, <2>3, <2>4, OnlyTask DEF ConvInv
<1>3. CASE ~TaskActive(p)
  <2>1. Enter(c, p, "cancel", 0, {}) /\ task' = task
    BY <1>3 DEF CancelTurn
  <2>2. PICK r \in CallRecords : /\ calls' = [calls EXCEPT ![c] = r]
                                 /\ r.at = "enter" /\ r.p = p /\ r.op = "cancel"
    BY <1>1, <2>1, Enters, Statuses
  <2>3. GoodCall(r) /\ ~Inside(r) /\ Knows(r)
    BY <2>2 DEF GoodCall, Inside, Knows
  <2>4. LockMoves(p, c, r) /\ Admits(p, c, r)
    BY <1>1, <2>2, <2>3 DEF LockMoves, Admits
  <2> QED BY <1>1, <2>1, <2>2, <2>3, <2>4, CallMoves
<1> QED BY <1>2, <1>3

-----------------------------------------------------------------------------
(* Steps of the runs and of the process.                                   *)

\* What ended stays ended, and what never ran stays so.
LEMMA RunStepIs ==
    ASSUME NEW p, Procs = {p}, ConvInv, NEW t \in Turns, RunStep(t)
    PROVE  /\ UNCHANGED <<msg, task, lock, calls, proc, version, restarts>>
           /\ TurnsInv' /\ run' \in [Turns -> RunState] /\ driver' \in [Turns -> Procs \cup {NoProc}]
           /\ late' \subseteq Turns
           /\ \A u \in Turns : run[u] \in RunEnded \cup {"none"} => run'[u] = run[u]
<1>1. UNCHANGED <<msg, task, lock, calls, proc, version, restarts>>
  BY DEF RunStep, RunStops, ResumedElsewhere, ApprovalExpires, ExpirePausedRun
<1>2. late' \subseteq Turns
  BY DEF RunStep, RunStops, ResumedElsewhere, ApprovalExpires, ExpirePausedRun, ConvInv, ConvTypeOK
<1>3. CASE UNCHANGED <<run, driver>>
  BY <1>1, <1>2, <1>3 DEF ConvInv, ConvTypeOK, TurnsInv, Numbered, NewestTurn, CompletedIsTrue
<1>4. CASE ~UNCHANGED <<run, driver>>
  <2>1. PICK s \in RunState, d \in Procs \cup {NoProc} :
          /\ run' = [run EXCEPT ![t] = s] /\ driver' = [driver EXCEPT ![t] = d]
          /\ s = "running" => d = p
          /\ run[t] \notin RunEnded \cup {"none"}
    <3>1. CASE RunStops(t)
      <4>1. PICK s \in Stops : run' = [run EXCEPT ![t] = s]
        BY <3>1 DEF RunStops
      <4>2. driver' = [driver EXCEPT ![t] = NoProc] /\ run[t] = "running"
        BY <3>1 DEF RunStops
      <4>3. s \in RunState /\ s # "running" /\ run[t] \notin RunEnded \cup {"none"}
        BY <4>2, Statuses, ConversationAssumption DEF StopKinds, RunEnded
      <4> QED BY <4>1, <4>2, <4>3
    <3>2. CASE ResumedElsewhere(t)
      <4>1. run' = [run EXCEPT ![t] = "running"] /\ driver' = [driver EXCEPT ![t] = p]
        BY <3>2 DEF ResumedElsewhere
      <4>2. "running" \in RunState /\ run[t] \notin RunEnded \cup {"none"}
        BY <3>2, Statuses DEF ResumedElsewhere, RunPaused, RunEnded
      <4> QED BY <4>1, <4>2
    <3>3. CASE ExpirePausedRun(t)
      <4>1. run' = [run EXCEPT ![t] = "timed_out"] /\ driver' = [driver EXCEPT ![t] = driver[t]]
        BY <3>3 DEF ExpirePausedRun, ConvInv, ConvTypeOK
      <4>2. "timed_out" \in RunState /\ run[t] \notin RunEnded \cup {"none"} /\ driver[t] \in Procs \cup {NoProc}
        BY <3>3, Statuses DEF ExpirePausedRun, RunEnded, ConvInv, ConvTypeOK
      <4> QED BY <4>1, <4>2
    <3> QED BY <1>4, <3>1, <3>2, <3>3 DEF RunStep, ApprovalExpires
  <2>2. msg[t] # "none" /\ run[t] # "completed"
    BY <2>1 DEF ConvInv, TurnsInv, RunEnded
  <2>3. /\ TurnsInv' /\ run' \in [Turns -> RunState] /\ driver' \in [Turns -> Procs \cup {NoProc}]
        /\ \A u \in Turns : u # t => run'[u] = run[u]
    BY <1>1, <2>1, <2>2, RunMoves
  <2> QED BY <1>1, <1>2, <2>1, <2>3
<1> QED BY <1>3, <1>4

\* The run of a turn pauses or ends, is resumed elsewhere, or expires.
LEMMA RunStepKeeps ==
    ASSUME NEW p, Procs = {p}, ConvInv, NEW t \in Turns, RunStep(t)
    PROVE  ConvInv'
<1>1. /\ UNCHANGED <<msg, task, lock, calls, proc, version, restarts>>
      /\ TurnsInv' /\ run' \in [Turns -> RunState] /\ driver' \in [Turns -> Procs \cup {NoProc}]
      /\ late' \subseteq Turns
      /\ \A u \in Turns : run[u] \in RunEnded \cup {"none"} => run'[u] = run[u]
  BY RunStepIs
<1>2. ConvTypeOK'
  BY <1>1 DEF ConvInv, ConvTypeOK
<1>3. LockInv'
  BY <1>1 DEF ConvInv, LockInv, GoodCall, Inside, Idle
<1>4. TaskInv'
  BY <1>1 DEF ConvInv, TaskInv, TaskActive, NewestTurn, RunEnded
<1>5. CallInv'
  <2>1. ASSUME NEW c \in Calls PROVE Knows(calls[c])'
    <3>1. Knows(calls[c]) /\ calls'[c] = calls[c]
      BY <1>1 DEF ConvInv, CallInv
    <3> QED BY <1>1, <3>1 DEF Knows, TaskActive, NewestTurn, AwaitingMessages, PendingMessages
  <2> QED BY <2>1 DEF CallInv
<1> QED BY <1>1, <1>2, <1>3, <1>4, <1>5 DEF ConvInv

\* A process dies: its tasks, its calls and its lock are gone, the messages and runs stay.
LEMMA DieKeeps ==
    ASSUME NEW p, Procs = {p}, ConvInv, Die(p)
    PROVE  ConvInv'
<1>1. /\ UNCHANGED <<msg, run, late, version>> /\ restarts' = restarts + 1 /\ restarts < MaxRestarts
      /\ proc' = [proc EXCEPT ![p] = "down"] /\ task' = [task EXCEPT ![p] = NoTask]
      /\ lock' = [lock EXCEPT ![p] = NoCall]
      /\ calls' = [c \in Calls |-> IF calls[c].p = p THEN Idle ELSE calls[c]]
      /\ driver' = [t \in Turns |-> IF driver[t] = p THEN NoProc ELSE driver[t]]
  BY DEF Die
<1>2. \A c \in Calls : calls'[c] = Idle
  <2>1. ASSUME NEW c \in Calls, calls[c].p # p PROVE calls[c] = Idle
    <3>1. GoodCall(calls[c])
      BY DEF ConvInv, LockInv
    <3> QED BY <2>1, <3>1 DEF GoodCall
  <2> QED BY <1>1, <2>1
<1>3. task \in [Procs -> TaskRecords] /\ NoTask \in TaskRecords
  BY TaskFields DEF ConvInv, ConvTypeOK, TaskRecords
<1>4. /\ task' \in [Procs -> TaskRecords] /\ task'[p].at = "none"
      /\ proc' \in [Procs -> {"serving", "starting", "down"}] /\ proc'[p] = "down"
      /\ lock' \in [Procs -> Calls \cup {NoCall}]
      /\ driver' \in [Turns -> Procs \cup {NoProc}]
      /\ restarts' \in 0..MaxRestarts
  BY <1>1, <1>3, ConversationAssumption DEF ConvInv, ConvTypeOK, NoTask
<1>5. calls' \in [Calls -> CallRecords]
  BY <1>1, <1>2, CallTypes
<1>6. ConvTypeOK'
  BY <1>1, <1>4, <1>5 DEF ConvInv, ConvTypeOK, TaskRecords, CallRecords
<1>7. TurnsInv'
  BY <1>1, <1>4 DEF ConvInv, TurnsInv, Numbered, NewestTurn, CompletedIsTrue
<1>8. TaskInv'
  BY <1>4 DEF TaskInv, TaskActive
<1>9. LockInv'
  <2>1. \A c \in Calls : GoodCall(calls[c])' /\ ~Inside(calls[c])'
    BY <1>2 DEF GoodCall, Inside, Idle
  <2> QED BY <1>2, <1>4, <2>1 DEF LockInv, Idle
<1>10. CallInv'
  BY <1>2 DEF CallInv, Knows, Idle
<1> QED BY <1>6, <1>7, <1>8, <1>9, <1>10 DEF ConvInv

\* A process starts and drives the runs it recovered, before it serves (Container.start).
LEMMA StartUpKeeps ==
    ASSUME NEW p, Procs = {p}, ConvInv, StartUp(p)
    PROVE  ConvInv'
<1>1. /\ UNCHANGED <<msg, run, late, task, lock, calls, version, restarts>> /\ proc[p] = "down"
      /\ proc' = [proc EXCEPT ![p] = "starting"]
      /\ driver' = [t \in Turns |-> IF run[t] = "running" THEN p ELSE driver[t]]
  BY DEF StartUp
<1>2. (\A c \in Calls : calls'[c] = Idle) /\ ~TaskActive(p) /\ calls' = calls
  BY <1>1 DEF ConvInv, LockInv, TaskInv
<1>3. /\ proc' \in [Procs -> {"serving", "starting", "down"}] /\ proc'[p] = "starting"
      /\ driver' \in [Turns -> Procs \cup {NoProc}] /\ \A t \in Turns : run'[t] = "running" => driver'[t] = p
  BY <1>1 DEF ConvInv, ConvTypeOK
<1>4. ConvTypeOK'
  BY <1>1, <1>3 DEF ConvInv, ConvTypeOK
<1>5. TurnsInv'
  BY <1>1, <1>3 DEF ConvInv, TurnsInv, Numbered, NewestTurn, CompletedIsTrue
<1>6. TaskInv'
  BY <1>1, <1>2 DEF TaskInv, TaskActive
<1>7. LockInv'
  <2>1. \A c \in Calls : GoodCall(calls[c])' /\ ~Inside(calls[c])'
    BY <1>2 DEF GoodCall, Inside, Idle
  <2> QED BY <1>2, <1>3, <2>1 DEF LockInv, Idle
<1>8. CallInv'
  BY <1>2 DEF CallInv, Knows, Idle
<1> QED BY <1>4, <1>5, <1>6, <1>7, <1>8 DEF ConvInv

-----------------------------------------------------------------------------
(* The invariant and the theorems.                                         *)

\* The invariant holds of an empty conversation.
LEMMA InitHolds ==
    ASSUME NEW p, Procs = {p}, ConvInit
    PROVE  ConvInv
<1> USE ConversationAssumption, Statuses DEF ConvInit
<1>1. NoTask \in TaskRecords /\ Idle \in CallRecords /\ "none" \in MessageStatus /\ "none" \in RunState
  BY TaskFields, CallTypes
<1>2. ConvTypeOK
  BY <1>1 DEF ConvTypeOK, TaskRecords, CallRecords
<1>3. Numbered
  <2>1. \A t \in Turns : msg[t] # "none" <=> t <= 0
    BY DEF Turns
  <2> QED BY <2>1 DEF Numbered
<1>4. TurnsInv
  BY <1>3 DEF TurnsInv, Awaiting, CompletedIsTrue
<1>5. TaskInv
  BY DEF TaskInv, TaskActive, NoTask
<1>6. LockInv
  BY DEF LockInv, GoodCall, Inside, Idle
<1>7. CallInv
  BY DEF CallInv, Knows, Idle
<1> QED BY <1>2, <1>4, <1>5, <1>6, <1>7 DEF ConvInv

\* Every step keeps the invariant: one lemma per action above.
LEMMA NextKeeps ==
    ASSUME NEW p, Procs = {p}, ConvInv, [ConvNext]_convVars
    PROVE  ConvInv'
<1>1. ASSUME NEW c \in Calls, Request(c, p) \/ Reconcile(c, p) \/ RecoverTurns(c, p) PROVE ConvInv'
  BY <1>1, RequestKeeps, CancelTurnKeeps, ReconcileKeeps DEF Request
<1>2. ASSUME NEW c \in Calls, CallStep(c) PROVE ConvInv'
  BY <1>2, SubmitCheckKeeps, SubmitAppendKeeps, SubmitTaskKeeps, RespondCheckKeeps, RespondAnswerKeeps,
     FollowAgainKeeps, SettleTurnKeeps, CancelCheckKeeps, CancelRunKeeps, CancelWriteKeeps,
     ReconcileNextKeeps, ReconcileDoneKeeps, RecoverFailKeeps DEF CallStep
<1>3. ASSUME TaskStep(p) PROVE ConvInv'
  BY <1>3, TaskStartKeeps, TaskWorkKeeps, TaskResultKeeps, TaskStoreKeeps, TaskDoneKeeps, TaskFailKeeps,
     TaskCancelledKeeps DEF TaskStep
<1>4. ASSUME NEW t \in Turns, RunStep(t) PROVE ConvInv'
  BY <1>4, RunStepKeeps
<1>5. CASE Update
  BY <1>5 DEF Update, ConvInv, ConvTypeOK, TurnsInv, Numbered, NewestTurn, CompletedIsTrue, TaskInv, TaskActive,
     LockInv, GoodCall, Inside, Idle, CallInv, Knows, AwaitingMessages, PendingMessages
<1>6. CASE UNCHANGED convVars
  BY <1>6 DEF convVars, ConvInv, ConvTypeOK, TurnsInv, Numbered, NewestTurn, CompletedIsTrue, TaskInv, TaskActive,
     LockInv, GoodCall, Inside, Idle, CallInv, Knows, AwaitingMessages, PendingMessages
<1> QED BY <1>1, <1>2, <1>3, <1>4, <1>5, <1>6, DieKeeps, StartUpKeeps DEF ConvNext

\* What a step may write to a message, and on whose account a message that is over is written again.
Written(t, s) ==
    /\ UpdateMessage(t, s)
    /\ \/ NewestTurn(t) /\ msg[t] = "accepted" /\ s = "streaming"
       \/ NewestTurn(t) /\ msg[t] = "streaming" /\ s \in Awaiting
       \/ NewestTurn(t) /\ msg[t] \in Awaiting /\ s = "streaming"
       \/ msg[t] # "none" /\ s \in Final
    /\ msg[t] \in Final => \/ s = msg[t] \/ PublishFails
                           \/ \E p \in Procs : task[p].turn = t

\* A task writes one message at most, from a status it may leave.
LEMMA TaskWrite ==
    ASSUME NEW p, Procs = {p}, ConvInv, TaskStep(p)
    PROVE  msg' = msg \/ \E t \in Turns, s \in MessageStatus : Written(t, s)
<1>1. CASE msg' = msg
  BY <1>1
<1>2. CASE msg' # msg
  <2>1. /\ TaskActive(p)
        /\ \/ TaskStart(p) /\ task[p].at = "created" /\ UpdateMessage(task[p].turn, "streaming")
           \/ TaskStore(p) /\ task[p].at = "store" /\ UpdateMessage(task[p].turn, task[p].outcome)
           \/ TaskFail(p) /\ UpdateMessage(task[p].turn, "failed")
           \/ TaskCancelWrite(p) /\ UpdateMessage(task[p].turn, "cancelled")
    BY <1>2 DEF TaskStep, TaskStart, TaskWork, TaskResult, TaskStore, TaskDone, TaskFail, TaskCancelled,
         TaskCancelWrite, Uncancelled, TaskActive
  <2>2. PICK t \in Turns : t = task[p].turn /\ NewestTurn(t) /\ msg[t] # "none"
    BY <2>1, ActiveTask
  <2>3. CASE task[p].at = "created" /\ UpdateMessage(t, "streaming")
    <3>1. msg[t] = "accepted" /\ "streaming" \in MessageStatus
      BY <2>1, <2>2, <2>3, WrittenStatuses DEF ConvInv, TaskInv
    <3>2. Written(t, "streaming")
      BY <2>2, <2>3, <3>1 DEF Written
    <3> QED BY <3>1, <3>2
  <2>4. CASE task[p].at = "store" /\ UpdateMessage(t, task[p].outcome)
    <3>1. msg[t] = "streaming" /\ task[p].outcome \in Awaiting \cup Final
      BY <2>1, <2>2, <2>4 DEF ConvInv, TaskInv, ConvTypeOK
    <3>2. Written(t, task[p].outcome)
      BY <2>2, <2>4, <3>1 DEF Written
    <3> QED BY <3>1, <3>2, WrittenStatuses
  <2>5. ASSUME NEW s \in {"failed", "cancelled"}, UpdateMessage(t, s)
        PROVE  \E u \in Turns, v \in MessageStatus : Written(u, v)
    <3>1. s \in Final /\ s \in MessageStatus
      BY WrittenStatuses DEF Final
    <3>2. Written(t, s)
      BY <2>2, <2>5, <3>1 DEF Written
    <3> QED BY <3>1, <3>2
  <2> QED BY <2>1, <2>2, <2>3, <2>4, <2>5
<1> QED BY <1>1, <1>2

\* A call writes one message, or appends the next when none waits.
LEMMA CallWrite ==
    ASSUME NEW p, Procs = {p}, ConvInv, NEW c \in Calls, CallStep(c)
    PROVE  \/ msg' = msg
           \/ \E t \in Turns, s \in MessageStatus : Written(t, s)
           \/ \E t \in Turns : t = NextTurn /\ AppendMessage(t) /\ AwaitingMessages = {}
<1> DEFINE t == calls[c].turn
<1>0. Knows(calls[c])
  BY DEF ConvInv, CallInv
<1>1. CASE SubmitAppend(c)
  <2>1. AwaitingMessages = {}
    BY <1>0, <1>1 DEF SubmitAppend, CallIs, Knows
  <2>2. msg' = msg \/ (NextTurn \in Turns /\ AppendMessage(NextTurn))
    BY <1>1 DEF SubmitAppend
  <2> QED BY <2>1, <2>2
<1>2. ASSUME t \in Turns, msg[t] \in Awaiting, NEW s \in Final \cup {"streaming"}, UpdateMessage(t, s)
      PROVE  \E u \in Turns, v \in MessageStatus : Written(u, v)
  <2>1. NewestTurn(t) /\ msg[t] # "none" /\ msg[t] \notin Final /\ s \in MessageStatus
    BY <1>2, WrittenStatuses DEF ConvInv, TurnsInv, Awaiting, Final
  <2>2. Written(t, s)
    BY <1>2, <2>1 DEF Written
  <2> QED BY <1>2, <2>1, <2>2
<1>3. CASE RespondAnswer(c)
  <2>1. t \in Turns /\ msg[t] \in Awaiting
    BY <1>0, <1>3 DEF RespondAnswer, CallIs, Knows
  <2>2. msg' = msg \/ UpdateMessage(t, "expired")
    BY <1>3 DEF RespondAnswer
  <2> QED BY <1>2, <2>1, <2>2 DEF Final
<1>4. CASE FollowAgain(c)
  <2>1. t \in Turns /\ msg[t] \in Awaiting /\ UpdateMessage(t, "streaming")
    BY <1>0, <1>4 DEF FollowAgain, Knows
  <2> QED BY <1>2, <2>1
<1>5. CASE SettleTurn(c)
  <2>1. t \in Turns /\ msg[t] \in Awaiting /\ run[t] \in RunEnded \cup {"none"}
    BY <1>0, <1>5 DEF SettleTurn, Knows
  <2>2. PICK s \in TurnOutcomes(t, TRUE) : UpdateMessage(t, s)
    BY <1>5 DEF SettleTurn
  <2>3. s \in Final
    BY <2>1, <2>2, SettledOutcome
  <2> QED BY <1>2, <2>1, <2>2, <2>3
<1>6. CASE CancelWrite(c)
  <2>1. msg[t] \in Awaiting \cup {"cancelled"} \/ (PublishFails /\ msg[t] = "failed")
    BY <1>0, <1>6 DEF CancelWrite, CallIs, Knows
  <2>2. t \in Turns /\ msg[t] # "none" /\ UpdateMessage(t, "cancelled")
    BY <1>0, <1>6 DEF CancelWrite, CallIs, Knows, NewestTurn
  <2>3. "cancelled" \in Final /\ "cancelled" \in MessageStatus
    BY WrittenStatuses DEF Final
  <2>4. msg[t] \in Final => msg[t] = "cancelled" \/ PublishFails
    BY <2>1, WrittenStatuses DEF Final, Awaiting
  <2>5. Written(t, "cancelled")
    BY <2>2, <2>3, <2>4 DEF Written
  <2> QED BY <2>2, <2>3, <2>5
<1>7. CASE RecoverFail(c)
  <2>1. calls[c].todo \subseteq PendingMessages
    BY <1>0, <1>7 DEF RecoverFail, CallIs, Knows
  <2>2. msg' = msg \/ \E u \in calls[c].todo : UpdateMessage(u, "failed")
    BY <1>7 DEF RecoverFail
  <2>3. ASSUME NEW u \in calls[c].todo, UpdateMessage(u, "failed")
        PROVE  \E w \in Turns, v \in MessageStatus : Written(w, v)
    <3>1. /\ u \in Turns /\ msg[u] # "none" /\ msg[u] \notin Final
          /\ "failed" \in Final /\ "failed" \in MessageStatus
      BY <2>1, <2>3, WrittenStatuses DEF PendingMessages, InProgress, Final
    <3>2. Written(u, "failed")
      BY <2>3, <3>1 DEF Written
    <3> QED BY <3>1, <3>2
  <2> QED BY <2>2, <2>3
<1>8. CASE ~(SubmitAppend(c) \/ RespondAnswer(c) \/ FollowAgain(c) \/ SettleTurn(c) \/ CancelWrite(c) \/ RecoverFail(c))
  BY <1>8 DEF CallStep, SubmitCheck, SubmitTask, RespondCheck, CancelCheck, CancelRun, ReconcileNext, ReconcileDone
<1> QED BY <1>1, <1>3, <1>4, <1>5, <1>6, <1>7, <1>8

\* Every step writes one message or none.
LEMMA MessageStep ==
    ASSUME NEW p, Procs = {p}, ConvInv, [ConvNext]_convVars
    PROVE  \/ msg' = msg
           \/ \E t \in Turns, s \in MessageStatus : Written(t, s)
           \/ \E t \in Turns : t = NextTurn /\ AppendMessage(t) /\ AwaitingMessages = {}
<1>1. ASSUME NEW c \in Calls, Request(c, p) \/ Reconcile(c, p) \/ RecoverTurns(c, p) PROVE msg' = msg
  BY <1>1 DEF Request, Submit, CancelTurn, Respond, Reconcile, RecoverTurns
<1>2. ASSUME NEW t \in Turns, RunStep(t) PROVE msg' = msg
  BY <1>2, RunStepIs
<1>3. CASE Die(p) \/ StartUp(p) \/ Update \/ UNCHANGED convVars
  BY <1>3 DEF Die, StartUp, Update, convVars
<1> QED BY <1>1, <1>2, <1>3, TaskWrite, CallWrite DEF ConvNext

\* Only the newest turn waits, so one does at most.
LEMMA OnlyOneWaits ==
    ASSUME ConvInv
    PROVE  OneWaits
<1>1. CASE AwaitingMessages = {}
  <2>1. Cardinality(AwaitingMessages) = 0
    BY <1>1, FS_EmptySet
  <2> QED BY <2>1 DEF OneWaits, AwaitingMessages
<1>2. CASE AwaitingMessages # {}
  <2>1. PICK t \in AwaitingMessages : TRUE
    BY <1>2
  <2>2. \A u \in AwaitingMessages : u = t
    BY <2>1, OneNewest DEF ConvInv, TurnsInv, AwaitingMessages
  <2>3. AwaitingMessages = {t}
    BY <2>1, <2>2
  <2>4. Cardinality(AwaitingMessages) = 1
    BY <2>3, FS_Singleton
  <2> QED BY <2>4 DEF OneWaits, AwaitingMessages
<1> QED BY <1>1, <1>2

\* The inductive invariant: numbers, what the task, the lock and the calls under way know of their turn.
THEOREM ConversationInvariant ==
    ASSUME NEW p, Procs = {p}
    PROVE  ConvSafe => []ConvInv
<1>1. ConvInit => ConvInv
  BY InitHolds
<1>2. ConvInv /\ [ConvNext]_convVars => ConvInv'
  BY NextKeeps
<1> QED BY <1>1, <1>2, PTL DEF ConvSafe

\* At any time one turn at most waits for a person, and a message that says completed answers a run
\* that completed: for any number of turns, requests, sweeps and restarts, and whether or not events
\* can be published (submit, respond, _store_result, reconcile_pending_turns, recover).
THEOREM TurnsAreSound ==
    ASSUME NEW p, Procs = {p}
    PROVE  ConvSafe => []TurnsSound
<1>1. ConvInv => TurnsSound
  BY OnlyOneWaits DEF ConvInv, TurnsInv, TurnsSound
<1> QED BY <1>1, ConversationInvariant, PTL

\* What a turn's user was told stands once its task has ended: a sweep that listed the turn before,
\* an answer or a cancel under way does not write over it (reconcile_pending_turns, respond, cancel).
THEOREM OutcomeIsKept ==
    ASSUME NEW q, Procs = {q}, ~PublishFails
    PROVE  ConvSafe => OutcomeStands
<1>1. ConvInv /\ [ConvNext]_convVars =>
        [\A t \in Turns : (msg[t] \in Final /\ \A p \in Procs : task[p].turn # t) => msg'[t] = msg[t]]_convVars
  <2> SUFFICES ASSUME ConvInv, [ConvNext]_convVars, NEW t \in Turns, msg[t] \in Final,
                      \A p \in Procs : task[p].turn # t
               PROVE  msg'[t] = msg[t]
    OBVIOUS
  <2>1. ASSUME NEW u \in Turns, NEW s \in MessageStatus, Written(u, s) PROVE msg'[t] = msg[t]
    BY <2>1 DEF Written, UpdateMessage, ConvInv, ConvTypeOK
  <2>2. ASSUME NEW u \in Turns, u = NextTurn, AppendMessage(u) PROVE msg'[t] = msg[t]
    <3>1. msg[u] = "none"
      BY <2>2, NextIsFree DEF ConvInv, TurnsInv
    <3>2. u # t
      BY <3>1 DEF Final
    <3> QED BY <2>2, <3>2 DEF AppendMessage, ConvInv, ConvTypeOK
  <2>3. CASE msg' = msg
    BY <2>3
  <2>4. \/ msg' = msg
        \/ \E u \in Turns, s \in MessageStatus : Written(u, s)
        \/ \E u \in Turns : u = NextTurn /\ AppendMessage(u)
    BY MessageStep
  <2> QED BY <2>1, <2>2, <2>3, <2>4
<1>2. ConvSafe => []ConvInv
  BY ConversationInvariant
<1> QED BY <1>1, <1>2, PTL DEF ConvSafe, OutcomeStands

\* What the statuses of a message mean to the contract.
LEMMA Stages ==
    /\ StageOf["none"] = "none" /\ StageOf["accepted"] = "accepted" /\ StageOf["streaming"] = "working"
    /\ \A s \in Awaiting : StageOf[s] = "waiting"
    /\ \A s \in Final : StageOf[s] = "over"
    /\ \A s \in MessageStatus : StageOf[s] = "none" => s = "none"
    /\ \A s \in MessageStatus : StageOf[s] = "waiting" => s \in Awaiting
    /\ \A s \in MessageStatus : StageOf[s] \in {"none", "accepted", "working", "waiting", "over"}
BY DEF StageOf, MessageStatus, InProgress, Awaiting, Final

stageNow == [t \in Turns |-> StageOf[msg[t]]]

\* A written message is a step of the contract, or none.
LEMMA WrittenIsAStep ==
    ASSUME ConvInv, NEW t \in Turns, NEW s \in MessageStatus, Written(t, s)
    PROVE  Turn!ContractNext \/ stageNow' = stageNow
<1>1. msg \in [Turns -> MessageStatus] /\ msg' = [msg EXCEPT ![t] = s]
  BY DEF ConvInv, ConvTypeOK, Written, UpdateMessage
<1>2. stageNow' = [stageNow EXCEPT ![t] = StageOf[s]] /\ stageNow[t] = StageOf[msg[t]]
  BY <1>1 DEF stageNow
<1>3. NewestTurn(t) => Turn!Newest(t)
  <2>1. ASSUME NewestTurn(t), t # LastTurn PROVE stageNow[t + 1] = "none"
    <3>1. t + 1 \in Turns /\ t + 1 > t
      BY <2>1, ConversationAssumption DEF Turns
    <3> QED BY <2>1, <3>1, Stages DEF NewestTurn, stageNow
  <2> QED BY <2>1 DEF Turn!Newest, stageNow
<1>4. CASE NewestTurn(t) /\ msg[t] = "accepted" /\ s = "streaming"
  <2>1. Turn!Work(t)
    BY <1>2, <1>3, <1>4, Stages DEF Turn!Work, Turn!Moves, stageNow
  <2> QED BY <2>1 DEF Turn!ContractNext, Turns
<1>5. CASE NewestTurn(t) /\ msg[t] = "streaming" /\ s \in Awaiting
  <2>1. Turn!Wait(t)
    BY <1>2, <1>3, <1>5, Stages DEF Turn!Wait, Turn!Moves, stageNow
  <2> QED BY <2>1 DEF Turn!ContractNext, Turns
<1>6. CASE NewestTurn(t) /\ msg[t] \in Awaiting /\ s = "streaming"
  <2>1. Turn!GoOn(t)
    BY <1>2, <1>3, <1>6, Stages DEF Turn!GoOn, Turn!Moves, stageNow
  <2> QED BY <2>1 DEF Turn!ContractNext, Turns
<1>7. CASE msg[t] # "none" /\ s \in Final
  <2>1. stageNow[t] \in {"accepted", "working", "waiting", "over"} /\ StageOf[s] = "over"
    BY <1>1, <1>2, <1>7, Stages
  <2>2. CASE stageNow[t] = "over"
    BY <1>2, <2>1, <2>2 DEF stageNow
  <2>3. CASE stageNow[t] # "over"
    <3>1. Turn!End(t)
      BY <1>2, <2>1, <2>3 DEF Turn!End, Turn!Moves, stageNow
    <3> QED BY <3>1 DEF Turn!ContractNext, Turns
  <2> QED BY <2>2, <2>3
<1> QED BY <1>4, <1>5, <1>6, <1>7 DEF Written

\* An append accepts a turn by the contract, since no turn waits (submit).
LEMMA AcceptedIsAStep ==
    ASSUME ConvInv, NEW t \in Turns, t = NextTurn, AppendMessage(t), AwaitingMessages = {}
    PROVE  Turn!ContractNext
<1>1. msg[t] = "none" /\ \A u \in Turns : u < t <=> msg[u] # "none"
  BY NextIsFree DEF ConvInv, TurnsInv
<1>2. msg \in [Turns -> MessageStatus] /\ msg' = [msg EXCEPT ![t] = "accepted"]
  BY DEF ConvInv, ConvTypeOK, AppendMessage
<1>3. stageNow' = [stageNow EXCEPT ![t] = "accepted"] /\ stageNow[t] = "none"
  BY <1>1, <1>2, Stages DEF stageNow
<1>4. t # 1 => stageNow[t - 1] \notin {"none", "waiting"}
  <2> SUFFICES ASSUME t # 1 PROVE stageNow[t - 1] \notin {"none", "waiting"}
    OBVIOUS
  <2>1. t - 1 \in Turns /\ t - 1 < t
    BY ConversationAssumption DEF Turns
  <2>2. msg[t - 1] # "none" /\ msg[t - 1] \notin Awaiting /\ msg[t - 1] \in MessageStatus
    BY <1>1, <1>2, <2>1 DEF AwaitingMessages
  <2> QED BY <2>1, <2>2, Stages DEF stageNow
<1>5. Turn!AcceptTurn(t)
  BY <1>3, <1>4 DEF Turn!AcceptTurn, Turn!Moves, stageNow
<1> QED BY <1>5 DEF Turn!ContractNext, Turns

\* The conversation implements its contract: every step of a request, a task, a sweep, the recovery
\* or a restart is a step of the contract or changes no stage (submit, respond, cancel, recover).
THEOREM ContractIsKept ==
    ASSUME NEW p, Procs = {p}
    PROVE  ConvSafe => ContractKept
<1>1. ConvInit => Turn!ContractInit
  BY Stages DEF ConvInit, Turn!ContractInit, Turns
<1>2. ConvInv /\ [ConvNext]_convVars => [Turn!ContractNext]_stageNow
  <2> SUFFICES ASSUME ConvInv, [ConvNext]_convVars PROVE Turn!ContractNext \/ stageNow' = stageNow
    OBVIOUS
  <2>1. CASE msg' = msg
    BY <2>1 DEF stageNow
  <2> QED BY <2>1, MessageStep, WrittenIsAStep, AcceptedIsAStep
<1>3. ConvInv /\ [ConvNext]_convVars => [Turn!ContractNext]_([t \in Turns |-> StageOf[msg[t]]])
  BY <1>2 DEF stageNow
<1> QED BY <1>1, <1>3, ConversationInvariant, PTL DEF ConvSafe, ContractKept, Turn!Contract
=============================================================================
