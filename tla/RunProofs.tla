------------------------------ MODULE RunProofs ------------------------------
(***************************************************************************)
(* What is proved of a run.                                                *)
(*                                                                         *)
(* RunLoop, for every set of tools, arguments and model replies and for    *)
(* every limit: LoopInv says where a drive may be with its copy, what the  *)
(* copy knows of the calls it has made (Content), what is left of the      *)
(* batch under way (BatchSound), that steps and model calls are within the *)
(* limits of the step under way (Budgeted) and that every message is in    *)
(* one place (Messages).  The two loops over a batch are recursive         *)
(* functions: they are unfolded by induction over the set of numbers for   *)
(* which a claim holds (Induction).                                        *)
(*                                                                         *)
(* RunLifecycle, for every number of processes and handlers and every      *)
(* combination of the disturbances.                                        *)
(***************************************************************************)
EXTENDS RunLoop, RunLifecycle, Integers, FiniteSetTheorems, WellFoundedInduction, TLAPS

-----------------------------------------------------------------------------
(* What the invariant says. *)

Tools == UNION {{r[i][1] : i \in DOMAIN r} : r \in Replies}
Args == Arguments \cup UNION {{r[i][2] : i \in DOMAIN r} : r \in Replies}
Calls == [id : CallIds, tool : Tools, arg : Args]
CallKeys == Tools \X Args
Fates == {"run", "failed", "refused", "over_limit", "repeated"}
Items == Calls \X Fates
Outcomes == {"ok", "failed", "declined", "settled", "refused", "over_limit", "repeated"}
Entries == [call : Calls, outcome : Outcomes]
Counts == [DOMAIN CallLimit -> Nat]
Working == {"invoking_model", "retrying", "invoking_tool"}
Statuses == {"building_context", "planning"} \cup Working \cup LoopPaused \cup LoopEnded
Extensions == 0..(AutoExtensions + MaxExtensions)
Copies == [status : Statuses, steps : Nat, models : Nat, extensions : Extensions,
           calls : Seq(Calls), done : SUBSET CallIds, approved : SUBSET CallIds, counts : Counts,
           seen : SUBSET CallKeys, log : Seq(Entries), answer : BOOLEAN, steer : Seq(Nat),
           told : Seq(Nat), pausedOn : 0..MaxCallId, resume : {"building_context", "planning"}]

Limited == DOMAIN CallLimit \cap EnabledTools
Triple(call) == <<call.id, call.tool, call.arg>>
\* The calls of a tool that it has answered, by their ids.
Ran(c, t) == {i \in DOMAIN c.log : c.log[i].call.tool = t /\ c.log[i].outcome \in {"ok", "failed"}}
RanIds(c, t) == {c.log[i].call.id : i \in Ran(c, t)}
ReadOk(entry) == entry.outcome = "ok" /\ Reads(entry.call)
ChangeOk(entry) == entry.outcome = "ok" /\ ~Reads(entry.call)

\* Every answer is of a call of its own, and no pending call has an answer.
Paired(c) ==
  /\ c.done = {c.log[i].call.id : i \in DOMAIN c.log}
  /\ \A i, j \in DOMAIN c.log : c.log[i].call.id = c.log[j].call.id => i = j
  /\ \A i \in DOMAIN c.calls : c.calls[i].id \notin c.done
  /\ \A i, j \in DOMAIN c.calls : c.calls[i].id = c.calls[j].id => i = j
\* Only the next call may be approved; it was approved as it stands and its limit has room for it.
Approved(c, grants) ==
  /\ c.approved \subseteq c.done \cup {c.calls[i].id : i \in DOMAIN c.calls}
  /\ \A i \in DOMAIN c.calls : c.calls[i].id \in c.approved =>
        /\ i = 1 /\ c.calls[i].tool \in ApprovalTools /\ Triple(c.calls[i]) \in grants
        /\ c.calls[i].tool \in Limited => Cardinality(RanIds(c, c.calls[i].tool)) < CallLimit[c.calls[i].tool]
\* A read is remembered until a change.
Remembered(c) ==
  \A i \in DOMAIN c.log : ReadOk(c.log[i]) =>
     \/ Key(c.log[i].call) \in c.seen
     \/ \E k \in DOMAIN c.log : i < k /\ ChangeOk(c.log[k])
Fresh(c) ==
  \A i, j \in DOMAIN c.log :
     (i < j /\ ReadOk(c.log[i]) /\ ReadOk(c.log[j]) /\ c.log[j].call.id \notin c.approved
        /\ Key(c.log[i].call) = Key(c.log[j].call))
     => \E k \in DOMAIN c.log : i < k /\ k < j /\ ChangeOk(c.log[k])
Within(c) ==
  \A t \in Limited : Cardinality(RanIds(c, t)) <= CallLimit[t] /\ Cardinality(RanIds(c, t)) <= c.counts[t]
Content(c, grants) == Paired(c) /\ Approved(c, grants) /\ Remembered(c) /\ Fresh(c) /\ Within(c)

\* The call a run waits for is the next one and may run when it is approved.
Asked(c) ==
  c.status = "awaiting_approval" /\ c.pausedOn # 0 =>
    /\ c.calls # <<>> /\ c.calls[1].id = c.pausedOn /\ c.calls[1].tool \in ApprovalTools
    /\ c.calls[1].tool \in Limited => Cardinality(RanIds(c, c.calls[1].tool)) < CallLimit[c.calls[1].tool]

\* The items of a batch after the first n.
Left(b, n) == {i \in DOMAIN b : i > n}
LeftIds(b, n, t) == {b[i][1].id : i \in {m \in Left(b, n) : b[m][2] = "run" /\ b[m][1].tool = t}}
RunRead(item) == item[2] = "run" /\ Reads(item[1])
\* What is left of a batch is pending, judged as it is, and within the limits together with what has run.
BatchItems(c, b, n, grants) ==
  /\ \A i \in Left(b, n) : \E k \in DOMAIN c.calls : c.calls[k] = b[i][1]
  /\ \A i, j \in Left(b, n) : b[i][1].id = b[j][1].id => i = j
  /\ \A i \in Left(b, n) :
       /\ b[i][2] = "failed" => ~Enabled(b[i][1])
       /\ b[i][2] = "run" /\ b[i][1].tool \in ApprovalTools =>
            b[i][1].id \in c.approved /\ Triple(b[i][1]) \in grants
       /\ RunRead(b[i]) /\ b[i][1].id \notin c.approved => Key(b[i][1]) \notin c.seen
  /\ \A i, j \in Left(b, n) :
       i < j /\ RunRead(b[i]) /\ RunRead(b[j]) /\ Key(b[i][1]) = Key(b[j][1]) => b[j][1].id \in c.approved
BatchLimits(c, b, n) ==
  \A t \in Limited : /\ Cardinality(RanIds(c, t) \cup LeftIds(b, n, t)) <= CallLimit[t]
                     /\ Cardinality(RanIds(c, t) \cup LeftIds(b, n, t)) <= c.counts[t]
BatchSound(c, b, n, grants) == BatchItems(c, b, n, grants) /\ BatchLimits(c, b, n)

LoopTypes ==
  /\ copy \in Copies /\ saved \in Copies /\ driving \in BOOLEAN
  /\ place \in {"top", "plan", "end", "late"} /\ attempt \in 0..MaxAttempts
  /\ batch \in Seq(Items) /\ inbox \in Seq(Nat) /\ late \in Seq(Nat) /\ accepted \in 0..MaxSteering
  /\ cut \subseteq Nat /\ produced \in Nat /\ crashes \in 0..LoopRestarts /\ Len(inbox) <= MaxPending
\* The checkpoint is behind the copy by the steering it was given to plan with, and by nothing else.
Checkpointed ==
  /\ saved = [copy EXCEPT !.steer = saved.steer, !.told = saved.told]
  /\ place # "plan" => saved = copy
\* Where a drive is.
Placed ==
  /\ copy.status \in Working => driving /\ place = "top"
  /\ place = "plan" => driving /\ copy.status = "planning" /\ ~LimitReason(copy)
  /\ ~driving => place = "top"
  /\ late # <<>> => place = "late"
  /\ copy.status # "invoking_tool" => batch = <<>>
  /\ copy.status \in {"invoking_model", "retrying"} => copy.calls = <<>>
\* Steps and model calls, of the run and of the step under way.
BaseBudget(c) == c.steps <= StepLimit(c) /\ c.models <= ModelCallLimit(c) + MaxAttempts - 1
StepBudget(c, tried) ==
  /\ c.status = "invoking_model" => c.models + 1 <= ModelCallLimit(c) + tried - 1
  /\ c.status = "retrying" => c.models <= ModelCallLimit(c) + tried - 1 /\ tried < MaxAttempts
Charged(c, n) == n = c.models \/ (c.status = "failed" /\ n = c.models + 1)
Budgeted == BaseBudget(copy) /\ StepBudget(copy, attempt) /\ Charged(saved, produced)
\* Messages.
Distinct(q) == \A i, j \in DOMAIN q : q[i] = q[j] => i = j
Apart(S, T) == S \cap T = {}
Waiting(c, memory, kept) ==
  /\ Distinct(c.told) /\ Distinct(c.steer) /\ Apart(Elements(c.told), Elements(c.steer))
  /\ Apart(Holds(c), Elements(memory)) /\ Apart(Holds(c), Elements(kept))
\* Every message is in one place, or was lost with the copy of a drive.
Messages(c, checkpoint, memory, kept, n, lost) ==
  /\ Waiting(c, memory, kept) /\ Waiting(checkpoint, memory, kept) /\ Distinct(memory) /\ Distinct(kept)
  /\ Apart(Elements(memory), Elements(kept)) /\ Holds(checkpoint) \subseteq Holds(c)
  /\ Holds(c) \cup Elements(memory) \cup Elements(kept) \cup lost = 1..n
Steered == Messages(copy, saved, inbox, late, accepted, cut)

LoopInv ==
  /\ LoopTypes /\ Checkpointed /\ Placed /\ Budgeted /\ Steered
  /\ Content(copy, granted) /\ Asked(copy) /\ BatchSound(copy, batch, 0, granted)
-----------------------------------------------------------------------------
(* Induction, and recursive functions over it.                             *)

\* A set of naturals that is not empty has a least element.
LEMMA LeastNatural ==
  ASSUME NEW T \in SUBSET Nat, T # {}
  PROVE  \E x \in T : \A y \in T : x <= y
<1> DEFINE R == {ss \in Nat \X Nat : ss[1] < ss[2]}
<1>1. IsWellFoundedOn(R, Nat) BY NatLessThanWellFounded, Zenon DEF OpToRel
<1>3. \A x, y \in Nat : x < y => <<x, y>> \in R OBVIOUS
<1> HIDE DEF R
<1>2. PICK x \in T : \A y \in T : ~(<<y, x>> \in R) BY <1>1, WFMin, Zenon
<1>4. ASSUME NEW y \in T PROVE x <= y
  <2>1. ~(y < x) BY <1>2, <1>3
  <2> QED BY <2>1
<1> QED BY <1>4

\* Induction over the naturals, for the set of those a claim holds of.
LEMMA Induction ==
  ASSUME NEW S, 0 \in S, \A n \in Nat : n \in S => n + 1 \in S
  PROVE  Nat \subseteq S
<1> SUFFICES ASSUME Nat \ S # {} PROVE FALSE OBVIOUS
<1>1. PICK x \in Nat \ S : \A y \in Nat \ S : x <= y BY LeastNatural
<1>2. x # 0 /\ x - 1 \in Nat OBVIOUS
<1>3. x - 1 \in S BY <1>1, <1>2
<1> QED BY <1>2, <1>3

\* The recursion of Settled (the loop over the answers of a batch) is defined.
SettledSteps(c, items, outcome, n, f) ==
  f = [i \in 0..n |-> IF i = 0 THEN c ELSE Settle(f[i - 1], items[i], outcome[i])]

\* So Settled is the last of its steps.
LEMMA SettledDefined ==
  ASSUME NEW c, NEW items, NEW outcome, Len(items) \in Nat
  PROVE  \E f : SettledSteps(c, items, outcome, Len(items), f) /\ Settled(c, items, outcome) = f[Len(items)]
<1> DEFINE Fun(n, f) == f = [i \in 0..n |-> IF i = 0 THEN c ELSE Settle(f[i - 1], items[i], outcome[i])]
<1> DEFINE S == {n \in Nat : \E f : Fun(n, f)}
<1>1. 0 \in S
  <2>1. Fun(0, [i \in 0..0 |-> c])
    <3> DEFINE f == [i \in 0..0 |-> c]
    <3>1. \A i \in 0..0 : f[i] = IF i = 0 THEN c ELSE Settle(f[i - 1], items[i], outcome[i]) OBVIOUS
    <3> QED BY <3>1
  <2> QED BY <2>1
<1>2. \A n \in Nat : n \in S => n + 1 \in S
  <2> SUFFICES ASSUME NEW n \in Nat, n \in S PROVE n + 1 \in S OBVIOUS
  <2>1. PICK f : Fun(n, f) OBVIOUS
  <2> DEFINE g == [i \in 0..(n + 1) |-> IF i = n + 1 THEN Settle(f[n], items[n + 1], outcome[n + 1]) ELSE f[i]]
  <2>2. \A i \in 0..n : f[i] = IF i = 0 THEN c ELSE Settle(f[i - 1], items[i], outcome[i])
    BY <2>1
  <2>3. ASSUME NEW i \in 0..(n + 1)
        PROVE  g[i] = IF i = 0 THEN c ELSE Settle(g[i - 1], items[i], outcome[i])
    <3>1. CASE i = n + 1 BY <3>1
    <3>2. CASE i # n + 1
      <4>1. i \in 0..n BY <3>2
      <4>2. g[i] = f[i] BY <3>2
      <4>3. i # 0 => i - 1 \in 0..(n + 1) /\ i - 1 # n + 1 BY <4>1
      <4>4. i # 0 => g[i - 1] = f[i - 1] BY <4>3
      <4> HIDE DEF g
      <4> QED BY <2>2, <4>1, <4>2, <4>4
    <3> QED BY <3>1, <3>2
  <2>4. Fun(n + 1, g) BY <2>3
  <2>5. \E h : Fun(n + 1, h)
    <3> HIDE DEF g, Fun
    <3> QED BY <2>4
  <2> HIDE DEF Fun
  <2> QED BY <2>5
<1>3. Len(items) \in S
  <2> HIDE DEF S
  <2> QED BY <1>1, <1>2, Induction
<1>4. \E f : Fun(Len(items), f) BY <1>3
<1>5. Fun(Len(items), CHOOSE f : Fun(Len(items), f))
  <2> HIDE DEF Fun
  <2> QED BY <1>4
<1>6. Settled(c, items, outcome) = (CHOOSE f : Fun(Len(items), f))[Len(items)]
  BY DEF Settled
<1> QED BY <1>5, <1>6 DEF SettledSteps

\* The recursion of Admitted (the loop over the calls of a batch) is defined.
FirstJudged(c) == [c |-> c, fates |-> <<>>, keys |-> {}]
AdmittedSteps(c, calls, n, f) ==
  f = [i \in 0..n |-> IF i = 0 THEN FirstJudged(c) ELSE Judge(f[i - 1], calls[i])]

\* So Admitted is the last of its steps.
LEMMA AdmittedDefined ==
  ASSUME NEW c, NEW calls, Len(calls) \in Nat
  PROVE  \E f : AdmittedSteps(c, calls, Len(calls), f) /\ Admitted(c, calls) = f[Len(calls)]
<1> DEFINE Fun(n, f) == f = [i \in 0..n |-> IF i = 0 THEN FirstJudged(c) ELSE Judge(f[i - 1], calls[i])]
<1> DEFINE S == {n \in Nat : \E f : Fun(n, f)}
<1>1. 0 \in S
  <2>1. Fun(0, [i \in 0..0 |-> FirstJudged(c)])
    <3> DEFINE f == [i \in 0..0 |-> FirstJudged(c)]
    <3>1. \A i \in 0..0 : f[i] = IF i = 0 THEN FirstJudged(c) ELSE Judge(f[i - 1], calls[i]) OBVIOUS
    <3> QED BY <3>1
  <2> QED BY <2>1
<1>2. \A n \in Nat : n \in S => n + 1 \in S
  <2> SUFFICES ASSUME NEW n \in Nat, n \in S PROVE n + 1 \in S OBVIOUS
  <2>1. PICK f : Fun(n, f) OBVIOUS
  <2> DEFINE g == [i \in 0..(n + 1) |-> IF i = n + 1 THEN Judge(f[n], calls[n + 1]) ELSE f[i]]
  <2>2. \A i \in 0..n : f[i] = IF i = 0 THEN FirstJudged(c) ELSE Judge(f[i - 1], calls[i])
    BY <2>1
  <2>3. ASSUME NEW i \in 0..(n + 1)
        PROVE  g[i] = IF i = 0 THEN FirstJudged(c) ELSE Judge(g[i - 1], calls[i])
    <3>1. CASE i = n + 1 BY <3>1
    <3>2. CASE i # n + 1
      <4>1. i \in 0..n BY <3>2
      <4>2. g[i] = f[i] BY <3>2
      <4>3. i # 0 => i - 1 \in 0..(n + 1) /\ i - 1 # n + 1 BY <4>1
      <4>4. i # 0 => g[i - 1] = f[i - 1] BY <4>3
      <4> HIDE DEF g
      <4> QED BY <2>2, <4>1, <4>2, <4>4
    <3> QED BY <3>1, <3>2
  <2>4. Fun(n + 1, g) BY <2>3
  <2>5. \E h : Fun(n + 1, h)
    <3> HIDE DEF g, Fun
    <3> QED BY <2>4
  <2> HIDE DEF Fun
  <2> QED BY <2>5
<1>3. Len(calls) \in S
  <2> HIDE DEF S
  <2> QED BY <1>1, <1>2, Induction
<1>4. \E f : Fun(Len(calls), f) BY <1>3
<1>5. Fun(Len(calls), CHOOSE f : Fun(Len(calls), f))
  <2> HIDE DEF Fun
  <2> QED BY <1>4
<1>6. Admitted(c, calls) = (CHOOSE f : Fun(Len(calls), f))[Len(calls)]
  BY DEF Admitted, FirstJudged
<1> QED BY <1>5, <1>6 DEF AdmittedSteps

-----------------------------------------------------------------------------
(* Sequences of messages and of calls.                                     *)

\* What a queue appended to another holds.
LEMMA JoinedElements ==
  ASSUME NEW S, NEW a \in Seq(S), NEW b \in Seq(S)
  PROVE  Elements(a \o b) = Elements(a) \cup Elements(b)
<1>1. /\ a \o b \in Seq(S) /\ Len(a \o b) = Len(a) + Len(b) /\ Len(a) \in Nat /\ Len(b) \in Nat
      /\ DOMAIN a = 1..Len(a) /\ DOMAIN b = 1..Len(b) /\ DOMAIN (a \o b) = 1..(Len(a) + Len(b))
  OBVIOUS
<1>2. \A i \in 1..(Len(a) + Len(b)) : (a \o b)[i] = IF i <= Len(a) THEN a[i] ELSE b[i - Len(a)]
  OBVIOUS
<1>3. ASSUME NEW x \in Elements(a \o b) PROVE x \in Elements(a) \cup Elements(b)
  <2>1. PICK i \in 1..(Len(a) + Len(b)) : x = (a \o b)[i] BY <1>1 DEF Elements
  <2>2. CASE i <= Len(a) BY <1>1, <1>2, <2>1, <2>2 DEF Elements
  <2>3. CASE ~(i <= Len(a))
    <3>1. i - Len(a) \in 1..Len(b) BY <1>1, <2>1, <2>3
    <3> QED BY <1>1, <1>2, <2>1, <2>3, <3>1 DEF Elements
  <2> QED BY <2>2, <2>3
<1>4. ASSUME NEW x \in Elements(a) PROVE x \in Elements(a \o b)
  <2>1. PICK i \in 1..Len(a) : x = a[i] BY <1>1 DEF Elements
  <2>2. i \in 1..(Len(a) + Len(b)) /\ (a \o b)[i] = x BY <1>1, <1>2, <2>1
  <2> QED BY <1>1, <2>2 DEF Elements
<1>5. ASSUME NEW x \in Elements(b) PROVE x \in Elements(a \o b)
  <2>1. PICK i \in 1..Len(b) : x = b[i] BY <1>1 DEF Elements
  <2>2. /\ i + Len(a) \in 1..(Len(a) + Len(b)) /\ ~(i + Len(a) <= Len(a)) /\ (i + Len(a)) - Len(a) = i
    BY <1>1, <2>1
  <2>3. (a \o b)[i + Len(a)] = x BY <1>2, <2>1, <2>2
  <2> QED BY <1>1, <2>2, <2>3 DEF Elements
<1> QED BY <1>3, <1>4, <1>5

\* Queues that share no message make one without repetition.
LEMMA JoinedDistinct ==
  ASSUME NEW S, NEW a \in Seq(S), NEW b \in Seq(S), Distinct(a), Distinct(b), Apart(Elements(a), Elements(b))
  PROVE  Distinct(a \o b)
<1>1. /\ Len(a) \in Nat /\ Len(b) \in Nat /\ DOMAIN a = 1..Len(a) /\ DOMAIN b = 1..Len(b)
      /\ DOMAIN (a \o b) = 1..(Len(a) + Len(b))
  OBVIOUS
<1>2. \A i \in 1..(Len(a) + Len(b)) : (a \o b)[i] = IF i <= Len(a) THEN a[i] ELSE b[i - Len(a)]
  OBVIOUS
<1>3. \A i \in 1..Len(a), j \in 1..Len(b) : a[i] # b[j]
  BY <1>1 DEF Apart, Elements
<1>4. \A i, j \in 1..Len(a) : a[i] = a[j] => i = j BY <1>1 DEF Distinct
<1>5. \A i, j \in 1..Len(b) : b[i] = b[j] => i = j BY <1>1 DEF Distinct
<1>6. \A i \in 1..(Len(a) + Len(b)) : i <= Len(a) => i \in 1..Len(a) BY <1>1
<1>7. \A i \in 1..(Len(a) + Len(b)) : ~(i <= Len(a)) => i - Len(a) \in 1..Len(b) BY <1>1
<1>8. ASSUME NEW i \in 1..(Len(a) + Len(b)), NEW j \in 1..(Len(a) + Len(b)), (a \o b)[i] = (a \o b)[j]
      PROVE  i = j
  <2>1. CASE i <= Len(a) /\ j <= Len(a) BY <1>2, <1>4, <1>6, <1>8, <2>1
  <2>2. CASE i <= Len(a) /\ ~(j <= Len(a)) BY <1>2, <1>3, <1>6, <1>7, <1>8, <2>2
  <2>3. CASE ~(i <= Len(a)) /\ j <= Len(a) BY <1>2, <1>3, <1>6, <1>7, <1>8, <2>3
  <2>4. CASE ~(i <= Len(a)) /\ ~(j <= Len(a))
    <3>1. i - Len(a) = j - Len(a) BY <1>2, <1>5, <1>7, <1>8, <2>4
    <3> QED BY <1>1, <3>1
  <2> QED BY <2>1, <2>2, <2>3, <2>4
<1> QED BY <1>1, <1>8 DEF Distinct

\* A message put behind the others.
LEMMA AppendedMessage ==
  ASSUME NEW q \in Seq(Nat), NEW x \in Nat, Distinct(q), x \notin Elements(q)
  PROVE  /\ Append(q, x) \in Seq(Nat) /\ Len(Append(q, x)) = Len(q) + 1
         /\ Distinct(Append(q, x)) /\ Elements(Append(q, x)) = Elements(q) \cup {x}
<1>1. /\ Append(q, x) \in Seq(Nat) /\ Len(Append(q, x)) = Len(q) + 1 /\ Len(q) \in Nat /\ DOMAIN q = 1..Len(q)
      /\ DOMAIN Append(q, x) = 1..(Len(q) + 1)
  OBVIOUS
<1>2. \A i \in 1..(Len(q) + 1) : Append(q, x)[i] = IF i <= Len(q) THEN q[i] ELSE x
  OBVIOUS
<1>3. \A i \in 1..Len(q) : q[i] # x BY <1>1 DEF Elements
<1>4. Distinct(Append(q, x))
  <2>1. ASSUME NEW i \in 1..(Len(q) + 1), NEW j \in 1..(Len(q) + 1), Append(q, x)[i] = Append(q, x)[j]
        PROVE  i = j
    BY <1>1, <1>2, <1>3, <2>1 DEF Distinct
  <2> QED BY <1>1, <2>1 DEF Distinct
<1>5. Elements(Append(q, x)) \subseteq Elements(q) \cup {x} BY <1>1, <1>2 DEF Elements
<1>6. \A i \in 1..Len(q) : i \in 1..(Len(q) + 1) /\ Append(q, x)[i] = q[i] BY <1>1, <1>2
<1>7. Len(q) + 1 \in 1..(Len(q) + 1) /\ Append(q, x)[Len(q) + 1] = x BY <1>1, <1>2
<1>8. Elements(q) \cup {x} \subseteq Elements(Append(q, x)) BY <1>1, <1>6, <1>7 DEF Elements
<1> QED BY <1>1, <1>4, <1>5, <1>8

\* Answering a call (WithoutCall, of _finish_tool_call_without_result) leaves the others in their order.
LEMMA RestKeepsOrder ==
  ASSUME NEW calls \in Seq(Calls), NEW n \in DOMAIN calls,
         \A i, j \in DOMAIN calls : calls[i].id = calls[j].id => i = j
  PROVE  LET rest == WithoutCall(calls, calls[n].id) IN
         /\ rest \in Seq(Calls) /\ DOMAIN rest = 1..(Len(calls) - 1)
         /\ \A i \in DOMAIN rest : rest[i] = calls[IF i < n THEN i ELSE i + 1]
         /\ \A i \in DOMAIN calls : i # n => \E k \in DOMAIN rest : rest[k] = calls[i]
<1>1. /\ Len(calls) \in Nat /\ DOMAIN calls = 1..Len(calls) /\ Len(calls) - 1 \in Nat /\ n \in 1..Len(calls)
      /\ \A i \in 1..Len(calls) : calls[i] \in Calls
  OBVIOUS
<1>2. (CHOOSE i \in DOMAIN calls : calls[i].id = calls[n].id) = n
  OBVIOUS
<1> DEFINE rest == [i \in 1..(Len(calls) - 1) |-> calls[IF i < n THEN i ELSE i + 1]]
<1>3. WithoutCall(calls, calls[n].id) = rest
  BY <1>2 DEF WithoutCall
<1>4. \A i \in 1..(Len(calls) - 1) : (IF i < n THEN i ELSE i + 1) \in 1..Len(calls)
  BY <1>1
<1>5. rest \in Seq(Calls) BY <1>1, <1>4
<1>6. DOMAIN rest = 1..(Len(calls) - 1) /\ \A i \in DOMAIN rest : rest[i] = calls[IF i < n THEN i ELSE i + 1]
  OBVIOUS
<1>7. ASSUME NEW i \in DOMAIN calls, i # n PROVE \E k \in DOMAIN rest : rest[k] = calls[i]
  <2>1. CASE i < n
    <3>1. i \in 1..(Len(calls) - 1) BY <1>1, <2>1
    <3> QED BY <2>1, <3>1
  <2>2. CASE ~(i < n)
    <3>1. i - 1 \in 1..(Len(calls) - 1) /\ ~(i - 1 < n) /\ (i - 1) + 1 = i BY <1>1, <1>7, <2>2
    <3>2. rest[i - 1] = calls[i] BY <3>1
    <3> HIDE DEF rest
    <3> QED BY <1>6, <3>1, <3>2
  <2> QED BY <2>1, <2>2
<1> HIDE DEF rest
<1> QED BY <1>3, <1>5, <1>6, <1>7

-----------------------------------------------------------------------------
(* Answering a call.                                                       *)

\* What a record of the run has of the calls, apart from the next ones.
SameBut(c, d) ==
  /\ d.status = c.status /\ d.steps = c.steps /\ d.models = c.models /\ d.extensions = c.extensions
  /\ d.steer = c.steer /\ d.told = c.told /\ d.pausedOn = c.pausedOn /\ d.resume = c.resume
  /\ d.approved = c.approved /\ d.counts = c.counts
SeenAfter(c, call, outcome) ==
  IF outcome = "ok" THEN IF Reads(call) THEN c.seen \cup {Key(call)} ELSE {} ELSE c.seen
Answer(c, d, call, outcome) ==
  /\ d.calls = WithoutCall(c.calls, call.id) /\ d.done = c.done \cup {call.id}
  /\ d.log = Append(c.log, [call |-> call, outcome |-> outcome]) /\ d.seen = SeenAfter(c, call, outcome)

\* What an entry about a call is, by its parts.
LEMMA CallParts ==
  ASSUME NEW call \in Calls
  PROVE  call.id \in CallIds /\ call.tool \in Tools /\ call.arg \in Args /\ Key(call) \in CallKeys
BY DEF Calls, Key, CallKeys

\* _finish_tool_call_without_result and _record_tool_call, field by field.
LEMMA AnsweredFields ==
  ASSUME NEW c \in Copies, NEW call \in Calls, NEW outcome \in Outcomes, NEW d, d = Answered(c, call, outcome),
         WithoutCall(c.calls, call.id) \in Seq(Calls)
  PROVE  /\ d \in Copies /\ SameBut(c, d) /\ d.calls = WithoutCall(c.calls, call.id)
         /\ d.done = c.done \cup {call.id} /\ d.seen = c.seen
         /\ d.log = Append(c.log, [call |-> call, outcome |-> outcome])
<1> DEFINE done == c.done \cup {call.id}
           calls == WithoutCall(c.calls, call.id)
           log == Append(c.log, [call |-> call, outcome |-> outcome])
<1>1. done \in SUBSET CallIds BY CallParts DEF Copies
<1>2. log \in Seq(Entries)
  <2>1. [call |-> call, outcome |-> outcome] \in Entries BY DEF Entries
  <2>2. c.log \in Seq(Entries) BY DEF Copies
  <2> QED BY <2>1, <2>2
<1>3. d = [c EXCEPT !.done = done, !.answer = FALSE, !.calls = calls, !.log = log]
  BY DEF Answered
<1>4. calls \in Seq(Calls) OBVIOUS
<1> HIDE DEF done, calls, log
<1>5. d \in Copies BY <1>1, <1>2, <1>3, <1>4 DEF Copies
<1>6. d.calls = calls /\ d.done = done /\ d.log = log /\ d.seen = c.seen /\ SameBut(c, d)
  BY <1>3 DEF Copies, SameBut
<1> QED BY <1>5, <1>6 DEF done, calls, log

\* _record_tool_call with what the repeat guard remembers of the call (_remember_tool_call).
LEMMA RecordFields ==
  ASSUME NEW c \in Copies, NEW call \in Calls, NEW outcome \in Outcomes, NEW d, d = RecordCall(c, call, outcome),
         WithoutCall(c.calls, call.id) \in Seq(Calls)
  PROVE  d \in Copies /\ SameBut(c, d) /\ Answer(c, d, call, outcome)
<1> DEFINE e == IF outcome = "ok" THEN Remember(c, call) ELSE c
<1>1. /\ e \in Copies /\ SameBut(c, e) /\ e.seen = SeenAfter(c, call, outcome)
      /\ e.calls = c.calls /\ e.done = c.done /\ e.log = c.log
  <2>1. CASE outcome = "ok" /\ Reads(call)
    <3> DEFINE seen == c.seen \cup {Key(call)}
    <3>1. e = [c EXCEPT !.seen = seen] BY <2>1 DEF Remember
    <3>2. seen \in SUBSET CallKeys BY CallParts DEF Copies
    <3>4. SeenAfter(c, call, outcome) = seen BY <2>1 DEF SeenAfter
    <3> HIDE DEF e, seen
    <3>3. e \in Copies /\ e.seen = seen BY <3>1, <3>2 DEF Copies
    <3>5. SameBut(c, e) /\ e.calls = c.calls /\ e.done = c.done /\ e.log = c.log BY <3>1 DEF Copies, SameBut
    <3> QED BY <3>3, <3>4, <3>5
  <2>2. CASE outcome = "ok" /\ ~Reads(call)
    <3>1. e = [c EXCEPT !.seen = {}] BY <2>2 DEF Remember
    <3>4. SeenAfter(c, call, outcome) = {} BY <2>2 DEF SeenAfter
    <3> HIDE DEF e
    <3>3. e \in Copies /\ e.seen = {} BY <3>1 DEF Copies
    <3>5. SameBut(c, e) /\ e.calls = c.calls /\ e.done = c.done /\ e.log = c.log BY <3>1 DEF Copies, SameBut
    <3> QED BY <3>3, <3>4, <3>5
  <2>3. CASE outcome # "ok" BY <2>3 DEF SameBut, SeenAfter
  <2> QED BY <2>1, <2>2, <2>3
<1>2. d = Answered(e, call, outcome) BY DEF RecordCall
<1> HIDE DEF e
<1>3. WithoutCall(e.calls, call.id) \in Seq(Calls) BY <1>1
<1>4. /\ d \in Copies /\ SameBut(e, d) /\ d.calls = WithoutCall(e.calls, call.id)
      /\ d.done = e.done \cup {call.id} /\ d.seen = e.seen
      /\ d.log = Append(e.log, [call |-> call, outcome |-> outcome])
  BY <1>1, <1>2, <1>3, AnsweredFields
<1>5. SameBut(c, d) BY <1>1, <1>4 DEF SameBut
<1> QED BY <1>1, <1>4, <1>5 DEF Answer

\* A guard's answer is no result: nothing is remembered of it.
LEMMA HeldIsRecorded ==
  ASSUME NEW c, NEW call, NEW outcome, outcome # "ok"
  PROVE  Answered(c, call, outcome) = RecordCall(c, call, outcome)
BY DEF RecordCall

-----------------------------------------------------------------------------
(* What an answer does to what is known of the calls.                      *)

\* The log by its entries.
LEMMA LongerLog ==
  ASSUME NEW log \in Seq(Entries), NEW entry \in Entries, NEW longer, longer = Append(log, entry)
  PROVE  /\ Len(log) \in Nat /\ DOMAIN log = 1..Len(log) /\ DOMAIN longer = 1..(Len(log) + 1)
         /\ longer[Len(log) + 1] = entry /\ \A i \in 1..Len(log) : longer[i] = log[i]
         /\ longer \in Seq(Entries)
OBVIOUS

\* The calls that have run are finitely many.
LEMMA RanFinite ==
  ASSUME NEW c \in Copies, NEW t
  PROVE  IsFiniteSet(RanIds(c, t)) /\ Cardinality(RanIds(c, t)) \in Nat
<1>1. c.log \in Seq(Entries) BY DEF Copies
<1>2. DOMAIN c.log = 1..Len(c.log) /\ Len(c.log) \in Nat BY <1>1
<1>3. IsFiniteSet(Ran(c, t))
  <2>1. IsFiniteSet(1..Len(c.log)) BY <1>2, FS_Interval
  <2>2. Ran(c, t) \subseteq 1..Len(c.log) BY <1>2 DEF Ran
  <2> QED BY <2>1, <2>2, FS_Subset
<1> DEFINE f == [i \in Ran(c, t) |-> c.log[i].call.id]
<1>4. f \in Surjection(Ran(c, t), RanIds(c, t)) BY DEF Surjection, RanIds
<1>5. IsFiniteSet(RanIds(c, t)) BY <1>3, <1>4, FS_Surjection
<1> QED BY <1>5, FS_CardinalityType

\* A result counts for its tool, and an answer without a result for none.
LEMMA RanAfterAnswer ==
  ASSUME NEW c \in Copies, NEW call \in Calls, NEW outcome \in Outcomes, NEW d, Answer(c, d, call, outcome), NEW t
  PROVE  RanIds(d, t) = IF call.tool = t /\ outcome \in {"ok", "failed"}
                        THEN RanIds(c, t) \cup {call.id} ELSE RanIds(c, t)
<1> DEFINE entry == [call |-> call, outcome |-> outcome]
           n == Len(c.log) + 1
<1>0. c.log \in Seq(Entries) /\ entry \in Entries BY DEF Copies, Entries
<1>1. d.log = Append(c.log, entry) BY DEF Answer
<1>2. entry.call = call /\ entry.outcome = outcome OBVIOUS
<1> HIDE DEF entry
<1>3. /\ DOMAIN c.log = 1..Len(c.log) /\ Len(c.log) \in Nat /\ DOMAIN d.log = 1..n
      /\ d.log[n] = entry /\ \A i \in 1..Len(c.log) : d.log[i] = c.log[i]
  BY <1>0, <1>1, LongerLog
<1>4. Ran(d, t) = IF call.tool = t /\ outcome \in {"ok", "failed"} THEN Ran(c, t) \cup {n} ELSE Ran(c, t)
  <2>1. \A i \in 1..Len(c.log) : i \in Ran(d, t) <=> i \in Ran(c, t) BY <1>3 DEF Ran
  <2>2. n \in Ran(d, t) <=> call.tool = t /\ outcome \in {"ok", "failed"} BY <1>2, <1>3 DEF Ran
  <2>3. 1..n = 1..Len(c.log) \cup {n} BY <1>3
  <2>4. n \notin 1..Len(c.log) BY <1>3
  <2>5. Ran(d, t) \subseteq 1..n /\ Ran(c, t) \subseteq 1..Len(c.log) BY <1>3 DEF Ran
  <2> HIDE DEF n
  <2>6. CASE call.tool = t /\ outcome \in {"ok", "failed"}
    <3>1. n \in Ran(d, t) BY <2>2, <2>6
    <3>2. Ran(d, t) = Ran(c, t) \cup {n} BY <2>1, <2>3, <2>5, <3>1
    <3> QED BY <2>6, <3>2
  <2>7. CASE ~(call.tool = t /\ outcome \in {"ok", "failed"})
    <3>1. n \notin Ran(d, t) BY <2>2, <2>7
    <3>2. Ran(d, t) = Ran(c, t) BY <2>1, <2>3, <2>5, <3>1
    <3> QED BY <2>7, <3>2
  <2> QED BY <2>6, <2>7
<1>5. \A i \in Ran(c, t) : d.log[i] = c.log[i] BY <1>3 DEF Ran
<1> HIDE DEF n
<1> QED BY <1>2, <1>3, <1>4, <1>5 DEF RanIds

\* The call that is answered is taken from the pending ones, and the others stay.
LEMMA AnswerPairs ==
  ASSUME NEW c \in Copies, NEW d, NEW n \in DOMAIN c.calls, NEW outcome \in Outcomes, Paired(c),
         Answer(c, d, c.calls[n], outcome)
  PROVE  Paired(d)
<1> DEFINE entry == [call |-> c.calls[n], outcome |-> outcome]
           last == Len(c.log) + 1
<1>0. c.log \in Seq(Entries) /\ c.calls \in Seq(Calls) /\ c.calls[n] \in Calls BY DEF Copies
<1>1. entry \in Entries /\ d.log = Append(c.log, entry) BY <1>0 DEF Entries, Answer
<1>2. entry.call = c.calls[n] OBVIOUS
<1> HIDE DEF entry
<1>3. /\ DOMAIN c.log = 1..Len(c.log) /\ Len(c.log) \in Nat /\ DOMAIN d.log = 1..last
      /\ d.log[last] = entry /\ \A i \in 1..Len(c.log) : d.log[i] = c.log[i]
  BY <1>0, <1>1, LongerLog
<1>4. 1..last = 1..Len(c.log) \cup {last} /\ last \notin 1..Len(c.log) BY <1>3
<1> HIDE DEF last
<1>5. c.calls[n].id \notin c.done /\ c.done = {c.log[i].call.id : i \in 1..Len(c.log)} BY <1>3 DEF Paired
<1>6. \A i, j \in DOMAIN c.calls : c.calls[i].id = c.calls[j].id => i = j BY DEF Paired
<1>7. /\ d.calls \in Seq(Calls) /\ DOMAIN d.calls = 1..(Len(c.calls) - 1)
      /\ \A i \in DOMAIN d.calls : d.calls[i] = c.calls[IF i < n THEN i ELSE i + 1]
  BY <1>0, <1>6, RestKeepsOrder DEF Answer
<1>8. DOMAIN c.calls = 1..Len(c.calls) /\ Len(c.calls) \in Nat BY <1>0
<1>9. d.done = {d.log[i].call.id : i \in DOMAIN d.log}
  BY <1>2, <1>3, <1>4, <1>5 DEF Answer
<1>10. \A i, j \in DOMAIN d.log : d.log[i].call.id = d.log[j].call.id => i = j
  <2>1. \A i \in 1..Len(c.log) : c.log[i].call.id # c.calls[n].id BY <1>5
  <2>2. \A i, j \in 1..Len(c.log) : c.log[i].call.id = c.log[j].call.id => i = j BY <1>3 DEF Paired
  <2> QED BY <1>2, <1>3, <1>4, <2>1, <2>2
<1> DEFINE at(i) == IF i < n THEN i ELSE i + 1
<1>11. \A i \in DOMAIN d.calls : at(i) \in DOMAIN c.calls /\ at(i) # n
  BY <1>7, <1>8
<1>12. \A i, j \in DOMAIN d.calls : at(i) = at(j) => i = j BY <1>7, <1>8
<1>13. \A i \in DOMAIN d.calls : d.calls[i] = c.calls[at(i)] BY <1>7
<1> HIDE DEF at
<1>14. \A i \in DOMAIN d.calls : d.calls[i].id \notin d.done
  BY <1>6, <1>11, <1>13 DEF Paired, Answer
<1>15. \A i, j \in DOMAIN d.calls : d.calls[i].id = d.calls[j].id => i = j
  BY <1>6, <1>11, <1>12, <1>13
<1> QED BY <1>9, <1>10, <1>14, <1>15 DEF Paired

\* Which calls are pending after an answer.
StillPending(c, d, n) ==
  /\ \A i \in DOMAIN d.calls : \E k \in DOMAIN c.calls : k # n /\ d.calls[i] = c.calls[k] /\ (k = 1 => i = 1)
  /\ \A i \in DOMAIN c.calls : i # n => \E k \in DOMAIN d.calls : d.calls[k] = c.calls[i]

\* _finish_tool_call_without_result takes its call from the pending ones and keeps the others.
LEMMA PendingAfter ==
  ASSUME NEW c \in Copies, NEW d, NEW n \in DOMAIN c.calls, NEW outcome, Paired(c), Answer(c, d, c.calls[n], outcome)
  PROVE  StillPending(c, d, n)
<1>0. c.calls \in Seq(Calls) /\ c.calls[n] \in Calls BY DEF Copies
<1>6. \A i, j \in DOMAIN c.calls : c.calls[i].id = c.calls[j].id => i = j BY DEF Paired
<1>7. /\ d.calls \in Seq(Calls) /\ DOMAIN d.calls = 1..(Len(c.calls) - 1)
      /\ \A i \in DOMAIN d.calls : d.calls[i] = c.calls[IF i < n THEN i ELSE i + 1]
      /\ \A i \in DOMAIN c.calls : i # n => \E k \in DOMAIN d.calls : d.calls[k] = c.calls[i]
  BY <1>0, <1>6, RestKeepsOrder DEF Answer
<1>8. DOMAIN c.calls = 1..Len(c.calls) /\ Len(c.calls) \in Nat BY <1>0
<1> DEFINE at(i) == IF i < n THEN i ELSE i + 1
<1>11. \A i \in DOMAIN d.calls : at(i) \in DOMAIN c.calls /\ at(i) # n /\ (at(i) = 1 => i = 1)
  BY <1>7, <1>8
<1>13. \A i \in DOMAIN d.calls : d.calls[i] = c.calls[at(i)] BY <1>7
<1> HIDE DEF at
<1> QED BY <1>7, <1>11, <1>13 DEF StillPending

\* A call that ran and needs an approval has it.
RanAsAllowed(c, call, outcome) ==
  outcome \in {"ok", "failed"} /\ call.tool \in Limited \cap ApprovalTools => call.id \in c.approved

\* An approval stays with the call it was given for.
LEMMA AnswerKeepsApproved ==
  ASSUME NEW c \in Copies, NEW d, NEW n \in DOMAIN c.calls, NEW outcome \in Outcomes, NEW grants,
         Paired(c), Approved(c, grants), SameBut(c, d), Answer(c, d, c.calls[n], outcome), RanAsAllowed(c, c.calls[n], outcome)
  PROVE  Approved(d, grants)
<1>1. /\ \A i \in DOMAIN d.calls : \E k \in DOMAIN c.calls : k # n /\ d.calls[i] = c.calls[k] /\ (k = 1 => i = 1)
      /\ \A i \in DOMAIN c.calls : i # n => \E k \in DOMAIN d.calls : d.calls[k] = c.calls[i]
  <2>1. StillPending(c, d, n) BY PendingAfter
  <2> QED BY <2>1 DEF StillPending
<1>2. d.approved = c.approved /\ d.done = c.done \cup {c.calls[n].id} BY DEF SameBut, Answer
<1>3. d.approved \subseteq d.done \cup {d.calls[i].id : i \in DOMAIN d.calls}
  BY <1>1, <1>2 DEF Approved
<1>4. ASSUME NEW i \in DOMAIN d.calls, d.calls[i].id \in d.approved
      PROVE  /\ i = 1 /\ d.calls[i].tool \in ApprovalTools /\ Triple(d.calls[i]) \in grants
             /\ d.calls[i].tool \in Limited =>
                  Cardinality(RanIds(d, d.calls[i].tool)) < CallLimit[d.calls[i].tool]
  <2>1. PICK k \in DOMAIN c.calls : k # n /\ d.calls[i] = c.calls[k] /\ (k = 1 => i = 1) BY <1>1
  <2>2. c.calls[k].id \in c.approved BY <1>2, <1>4, <2>1
  <2>3. /\ k = 1 /\ c.calls[k].tool \in ApprovalTools /\ Triple(c.calls[k]) \in grants
        /\ c.calls[k].tool \in Limited =>
             Cardinality(RanIds(c, c.calls[k].tool)) < CallLimit[c.calls[k].tool]
    BY <2>2 DEF Approved
  <2>4. c.calls[n].id \notin c.approved
    <3>1. n # 1 BY <2>1, <2>3
    <3> QED BY <3>1 DEF Approved
  <2>5. c.calls[k].tool \in Limited => RanIds(d, c.calls[k].tool) = RanIds(c, c.calls[k].tool)
    <3> SUFFICES ASSUME c.calls[k].tool \in Limited
                 PROVE  RanIds(d, c.calls[k].tool) = RanIds(c, c.calls[k].tool)
      OBVIOUS
    <3>1. ~(c.calls[n].tool = c.calls[k].tool /\ outcome \in {"ok", "failed"})
      BY <2>3, <2>4 DEF RanAsAllowed
    <3>2. c.calls[n] \in Calls BY DEF Copies
    <3> QED BY <3>1, <3>2, RanAfterAnswer
  <2> QED BY <2>1, <2>3, <2>5
<1> QED BY <1>3, <1>4 DEF Approved

\* Within the limits of the tools, if there was room for the call.
HadRoom(c, call, outcome) ==
  outcome \in {"ok", "failed"} /\ call.tool \in Limited =>
    /\ Cardinality(RanIds(c, call.tool) \cup {call.id}) <= CallLimit[call.tool]
    /\ Cardinality(RanIds(c, call.tool) \cup {call.id}) <= c.counts[call.tool]

\* An answer keeps the counts of _count_tool_call above what has run.
LEMMA AnswerKeepsWithin ==
  ASSUME NEW c \in Copies, NEW d, NEW call \in Calls, NEW outcome \in Outcomes,
         Within(c), SameBut(c, d), Answer(c, d, call, outcome), HadRoom(c, call, outcome)
  PROVE  Within(d)
<1> SUFFICES ASSUME NEW t \in Limited
             PROVE  Cardinality(RanIds(d, t)) <= CallLimit[t] /\ Cardinality(RanIds(d, t)) <= d.counts[t]
  BY DEF Within
<1>1. RanIds(d, t) = IF call.tool = t /\ outcome \in {"ok", "failed"}
                     THEN RanIds(c, t) \cup {call.id} ELSE RanIds(c, t)
  BY RanAfterAnswer
<1>2. d.counts = c.counts BY DEF SameBut
<1>3. CASE call.tool = t /\ outcome \in {"ok", "failed"}
  <2>1. RanIds(d, t) = RanIds(c, t) \cup {call.id} BY <1>1, <1>3
  <2> QED BY <1>2, <1>3, <2>1 DEF HadRoom
<1>4. CASE ~(call.tool = t /\ outcome \in {"ok", "failed"})
  <2>1. RanIds(d, t) = RanIds(c, t) BY <1>1, <1>4
  <2> QED BY <1>2, <2>1 DEF Within
<1> QED BY <1>3, <1>4

\* A read that is answered was not in the transcript since the last change, unless it was approved.
WasFresh(c, call, outcome) ==
  outcome = "ok" /\ Reads(call) /\ call.id \notin c.approved => Key(call) \notin c.seen

\* An answer keeps what the repeat guard knows (_remember_tool_call).
LEMMA AnswerKeepsFresh ==
  ASSUME NEW c \in Copies, NEW d, NEW call \in Calls, NEW outcome \in Outcomes,
         Remembered(c), Fresh(c), SameBut(c, d), Answer(c, d, call, outcome), WasFresh(c, call, outcome)
  PROVE  Remembered(d) /\ Fresh(d)
<1> DEFINE entry == [call |-> call, outcome |-> outcome]
           last == Len(c.log) + 1
<1>0. c.log \in Seq(Entries) BY DEF Copies
<1>1. entry \in Entries /\ d.log = Append(c.log, entry) BY <1>0 DEF Entries, Answer
<1>2. entry.call = call /\ entry.outcome = outcome OBVIOUS
<1> HIDE DEF entry
<1>3. /\ DOMAIN c.log = 1..Len(c.log) /\ Len(c.log) \in Nat /\ DOMAIN d.log = 1..last
      /\ d.log[last] = entry /\ \A i \in 1..Len(c.log) : d.log[i] = c.log[i]
  BY <1>0, <1>1, LongerLog
<1>4. /\ \A i \in 1..last : i # last => i \in 1..Len(c.log) /\ i < last
      /\ \A i \in 1..last : ~(last < i)
      /\ 1..Len(c.log) \subseteq 1..last /\ last \in 1..last /\ \A i \in 1..Len(c.log) : i < last
  BY <1>3
<1>5. d.seen = SeenAfter(c, call, outcome) /\ d.approved = c.approved BY DEF Answer, SameBut
<1> DEFINE Changed(log, i) == \E k \in DOMAIN log : i < k /\ ChangeOk(log[k])
<1>6. ASSUME NEW i \in 1..Len(c.log), Changed(c.log, i) PROVE Changed(d.log, i)
  BY <1>3, <1>4, <1>6
<1>7. ASSUME outcome = "ok", ~Reads(call), NEW i \in 1..Len(c.log) PROVE Changed(d.log, i)
  <2>1. ChangeOk(d.log[last]) BY <1>2, <1>3, <1>7 DEF ChangeOk
  <2> QED BY <1>3, <1>4, <2>1
<1>8. ASSUME NEW i \in DOMAIN d.log, ReadOk(d.log[i])
      PROVE  Key(d.log[i].call) \in d.seen \/ Changed(d.log, i)
  <2>1. CASE i = last
    <3>1. outcome = "ok" /\ Reads(call) /\ d.log[i].call = call BY <1>2, <1>3, <1>8, <2>1 DEF ReadOk
    <3>2. d.seen = c.seen \cup {Key(call)} BY <1>5, <3>1 DEF SeenAfter
    <3> QED BY <3>1, <3>2
  <2>2. CASE i # last
    <3>1. i \in 1..Len(c.log) /\ d.log[i] = c.log[i] BY <1>3, <1>4, <2>2
    <3>2. Key(c.log[i].call) \in c.seen \/ Changed(c.log, i) BY <1>3, <1>8, <3>1 DEF Remembered
    <3>3. CASE Changed(c.log, i) BY <1>6, <3>1, <3>3
    <3>4. CASE outcome = "ok" /\ ~Reads(call) BY <1>7, <3>1, <3>4
    <3>5. CASE ~(outcome = "ok" /\ ~Reads(call))
      <4>1. c.seen \subseteq d.seen BY <1>5, <3>5 DEF SeenAfter
      <4> QED BY <3>1, <3>2, <3>3, <4>1
    <3> QED BY <3>3, <3>4, <3>5
  <2> QED BY <2>1, <2>2
<1>9. Remembered(d) BY <1>8 DEF Remembered
<1>10. ASSUME NEW i \in DOMAIN d.log, NEW j \in DOMAIN d.log, i < j, ReadOk(d.log[i]), ReadOk(d.log[j]),
              d.log[j].call.id \notin d.approved, Key(d.log[i].call) = Key(d.log[j].call)
       PROVE  \E k \in DOMAIN d.log : i < k /\ k < j /\ ChangeOk(d.log[k])
  <2>1. i \in 1..Len(c.log) /\ d.log[i] = c.log[i] BY <1>3, <1>4, <1>10
  <2>2. CASE j = last
    <3>1. outcome = "ok" /\ Reads(call) /\ d.log[j].call = call BY <1>2, <1>3, <1>10, <2>2 DEF ReadOk
    <3>2. Key(call) \notin c.seen BY <1>5, <1>10, <3>1 DEF WasFresh
    <3>3. Changed(c.log, i) BY <1>3, <1>10, <2>1, <3>1, <3>2 DEF Remembered
    <3>4. PICK k \in DOMAIN c.log : i < k /\ ChangeOk(c.log[k]) BY <3>3
    <3>5. k \in DOMAIN d.log /\ k < j /\ d.log[k] = c.log[k] BY <1>3, <1>4, <2>2, <3>4
    <3> QED BY <3>4, <3>5
  <2>3. CASE j # last
    <3>1. j \in 1..Len(c.log) /\ d.log[j] = c.log[j] BY <1>3, <1>4, <2>3
    <3>2. PICK k \in DOMAIN c.log : i < k /\ k < j /\ ChangeOk(c.log[k])
      BY <1>3, <1>5, <1>10, <2>1, <3>1 DEF Fresh
    <3>3. k \in DOMAIN d.log /\ d.log[k] = c.log[k] BY <1>3, <1>4, <3>2
    <3> QED BY <3>2, <3>3
  <2> QED BY <2>2, <2>3
<1>11. Fresh(d) BY <1>10 DEF Fresh
<1> QED BY <1>9, <1>11

\* So an answer keeps what is known of the calls.
LEMMA AnswerKeepsContent ==
  ASSUME NEW c \in Copies, NEW d, NEW n \in DOMAIN c.calls, NEW outcome \in Outcomes, NEW grants,
         Content(c, grants), SameBut(c, d), Answer(c, d, c.calls[n], outcome),
         RanAsAllowed(c, c.calls[n], outcome), HadRoom(c, c.calls[n], outcome), WasFresh(c, c.calls[n], outcome)
  PROVE  Content(d, grants)
<1>1. c.calls[n] \in Calls BY DEF Copies
<1>2. Paired(c) /\ Approved(c, grants) /\ Remembered(c) /\ Fresh(c) /\ Within(c) BY DEF Content
<1>3. Paired(d) BY <1>2, AnswerPairs
<1>4. Approved(d, grants) BY <1>2, AnswerKeepsApproved
<1>5. Remembered(d) /\ Fresh(d) BY <1>1, <1>2, AnswerKeepsFresh
<1>6. Within(d) BY <1>1, <1>2, AnswerKeepsWithin
<1> QED BY <1>3, <1>4, <1>5, <1>6 DEF Content

-----------------------------------------------------------------------------
(* Settling a batch, one item after the other.                             *)

\* The items that are left after one more.
LEMMA OneLess ==
  ASSUME NEW b \in Seq(Items), NEW n \in Nat
  PROVE  /\ Left(b, n + 1) \subseteq Left(b, n) /\ \A i \in Left(b, n + 1) : i # n + 1 /\ n + 1 < i
         /\ (n < Len(b) => n + 1 \in Left(b, n)) /\ \A t : LeftIds(b, n + 1, t) \subseteq LeftIds(b, n, t)
         /\ \A i \in Left(b, n) : b[i] \in Items /\ b[i][1] \in Calls /\ b[i][2] \in Fates
         /\ \A i \in Left(b, n) : i \in Nat
<1>1. DOMAIN b = 1..Len(b) /\ Len(b) \in Nat /\ \A i \in DOMAIN b : b[i] \in Items OBVIOUS
<1>2. Left(b, n + 1) \subseteq Left(b, n) /\ (n < Len(b) => n + 1 \in Left(b, n)) BY <1>1 DEF Left
<1>3. \A i \in Left(b, n + 1) : i # n + 1 /\ n + 1 < i BY <1>1 DEF Left
<1>4. \A t : LeftIds(b, n + 1, t) \subseteq LeftIds(b, n, t) BY <1>2 DEF LeftIds
<1>5. \A i \in Left(b, n) : b[i] \in Items /\ i \in Nat BY <1>1 DEF Left
<1>6. \A i \in Left(b, n) : b[i][1] \in Calls /\ b[i][2] \in Fates BY <1>5 DEF Items
<1> QED BY <1>2, <1>3, <1>4, <1>5, <1>6

\* What is left of a batch is finitely many calls.
LEMMA LeftFinite ==
  ASSUME NEW b \in Seq(Items), NEW n \in Nat, NEW t
  PROVE  IsFiniteSet(LeftIds(b, n, t))
<1> DEFINE T == {m \in Left(b, n) : b[m][2] = "run" /\ b[m][1].tool = t}
<1>1. DOMAIN b = 1..Len(b) /\ Len(b) \in Nat OBVIOUS
<1>2. T \subseteq 1..Len(b) BY <1>1 DEF Left
<1>3. IsFiniteSet(1..Len(b)) BY <1>1, FS_Interval
<1>4. IsFiniteSet(T) BY <1>2, <1>3, FS_Subset
<1> DEFINE f == [i \in T |-> b[i][1].id]
<1>5. f \in Surjection(T, LeftIds(b, n, t)) BY DEF Surjection, LeftIds
<1> QED BY <1>4, <1>5, FS_Surjection

\* The limits hold of fewer calls.
LEMMA FewerCalls ==
  ASSUME NEW c \in Copies, NEW b \in Seq(Items), NEW n \in Nat, BatchLimits(c, b, n),
         NEW t \in Limited, NEW S, S \subseteq RanIds(c, t) \cup LeftIds(b, n, t)
  PROVE  Cardinality(S) <= CallLimit[t] /\ Cardinality(S) <= c.counts[t]
<1> DEFINE U == RanIds(c, t) \cup LeftIds(b, n, t)
<1>1. IsFiniteSet(U) BY RanFinite, LeftFinite, FS_Union
<1>2. /\ Cardinality(S) <= Cardinality(U) /\ Cardinality(S) \in Nat /\ Cardinality(U) \in Nat
  <2> HIDE DEF U
  <2>1. IsFiniteSet(S) /\ Cardinality(S) <= Cardinality(U) BY <1>1, FS_Subset DEF U
  <2> QED BY <1>1, <2>1, FS_CardinalityType
<1>3. Cardinality(U) <= CallLimit[t] /\ Cardinality(U) <= c.counts[t] BY DEF BatchLimits
<1>4. CallLimit[t] \in Nat /\ c.counts[t] \in Nat BY LoopAssumption DEF Limited, Copies, Counts
<1> HIDE DEF U
<1> QED BY <1>2, <1>3, <1>4

\* A call whose outcome is unknown stays as it is.
LEMMA InDoubt ==
  ASSUME NEW c \in Copies, NEW b \in Seq(Items), NEW n \in Nat, NEW grants, BatchSound(c, b, n, grants)
  PROVE  BatchSound(c, b, n + 1, grants)
<1>1. Left(b, n + 1) \subseteq Left(b, n) /\ \A t : LeftIds(b, n + 1, t) \subseteq LeftIds(b, n, t) BY OneLess
<1>2. BatchItems(c, b, n, grants) /\ BatchLimits(c, b, n) BY DEF BatchSound
<1>3. BatchItems(c, b, n + 1, grants) BY <1>1, <1>2 DEF BatchItems
<1>4. BatchLimits(c, b, n + 1)
  <2> SUFFICES ASSUME NEW t \in Limited
               PROVE  /\ Cardinality(RanIds(c, t) \cup LeftIds(b, n + 1, t)) <= CallLimit[t]
                      /\ Cardinality(RanIds(c, t) \cup LeftIds(b, n + 1, t)) <= c.counts[t]
    BY DEF BatchLimits
  <2>1. RanIds(c, t) \cup LeftIds(b, n + 1, t) \subseteq RanIds(c, t) \cup LeftIds(b, n, t) BY <1>1
  <2> QED BY <1>2, <2>1, FewerCalls
<1> QED BY <1>3, <1>4 DEF BatchSound

LegalOutcome(item, outcome) == IF item[2] = "run" THEN outcome \in OutcomesOf(item[1]) ELSE outcome = "held"
\* Each answer of a batch (the loop of _execute_tool_batch) keeps what is known of the calls, and leaves
\* the rest of the batch as sound as it was.
LEMMA SettleStep ==
  ASSUME NEW c \in Copies, NEW b \in Seq(Items), NEW n \in Nat, n < Len(b), NEW grants,
         Content(c, grants), BatchSound(c, b, n, grants), NEW outcome, LegalOutcome(b[n + 1], outcome),
         NEW d, d = Settle(c, b[n + 1], outcome)
  PROVE  d \in Copies /\ SameBut(c, d) /\ Content(d, grants) /\ BatchSound(d, b, n + 1, grants)
<1>1. PICK m : m = n + 1 OBVIOUS
<1>2. PICK item : item = b[m] OBVIOUS
<1>3. PICK call : call = item[1] OBVIOUS
<1>4. PICK answer : answer = IF outcome = "held" THEN item[2] ELSE outcome OBVIOUS
<1>5. /\ m \in Left(b, n) /\ Left(b, m) \subseteq Left(b, n) /\ \A i \in Left(b, m) : i # m /\ m < i
      /\ \A t : LeftIds(b, m, t) \subseteq LeftIds(b, n, t)
      /\ \A i \in Left(b, n) : b[i] \in Items /\ b[i][1] \in Calls /\ b[i][2] \in Fates
  BY <1>1, OneLess
<1>6. call \in Calls /\ item[2] \in Fates BY <1>2, <1>3, <1>5
<1>7. d = Settle(c, item, outcome) /\ LegalOutcome(item, outcome) BY <1>1, <1>2
<1>8. CASE outcome = "unknown"
  <2>1. d = c BY <1>7, <1>8 DEF Settle
  <2>2. BatchSound(c, b, n + 1, grants) BY InDoubt
  <2>3. SameBut(c, c) BY DEF SameBut
  <2> QED BY <2>1, <2>2, <2>3
<1>9. CASE outcome # "unknown"
  <2>1. /\ answer \in Outcomes /\ (answer = "ok" => item[2] = "run")
        /\ (answer = "failed" => item[2] = "run" \/ item[2] = "failed")
    <3>1. CASE item[2] = "run"
      <4>1. outcome \in {"ok", "failed"} BY <1>7, <1>9, <3>1 DEF LegalOutcome, OutcomesOf
      <4> QED BY <1>4, <3>1, <4>1 DEF Outcomes
    <3>2. CASE item[2] # "run"
      <4>1. answer = item[2] BY <1>4, <1>7, <3>2 DEF LegalOutcome
      <4> QED BY <1>6, <3>2, <4>1 DEF Outcomes, Fates
    <3> QED BY <3>1, <3>2
  <2>2. d = RecordCall(c, call, answer)
    <3>1. CASE outcome = "held"
      <4>1. item[2] # "run"
        BY <1>7, <3>1 DEF LegalOutcome, OutcomesOf
      <4>2. answer = item[2] /\ answer # "ok" BY <1>4, <2>1, <3>1, <4>1
      <4>3. d = Answered(c, call, answer) BY <1>3, <1>7, <3>1, <4>2 DEF Settle
      <4> QED BY <4>2, <4>3, HeldIsRecorded
    <3>2. CASE outcome # "held" BY <1>3, <1>4, <1>7, <1>9, <3>2 DEF Settle
    <3> QED BY <3>1, <3>2
  <2>3. BatchItems(c, b, n, grants) /\ BatchLimits(c, b, n) BY DEF BatchSound
  <2>4. PICK k \in DOMAIN c.calls : c.calls[k] = call BY <1>2, <1>3, <1>5, <2>3 DEF BatchItems
  <2>5. Paired(c) BY DEF Content
  <2>6. c.calls \in Seq(Calls) BY DEF Copies
  <2>7. WithoutCall(c.calls, call.id) \in Seq(Calls)
    BY <2>4, <2>5, <2>6, RestKeepsOrder DEF Paired
  <2>8. d \in Copies /\ SameBut(c, d) /\ Answer(c, d, call, answer)
    BY <1>6, <2>1, <2>2, <2>7, RecordFields
  <2>9. StillPending(c, d, k) BY <2>4, <2>5, <2>8, PendingAfter
  <2>10. item[2] = "run" /\ call.tool \in ApprovalTools => call.id \in c.approved
    BY <1>2, <1>3, <1>5, <2>3 DEF BatchItems
  <2>11. answer \in {"ok", "failed"} /\ call.tool \in Limited => item[2] = "run"
    BY <1>2, <1>3, <1>5, <2>1, <2>3 DEF BatchItems, Limited, Enabled
  <2>12. RanAsAllowed(c, call, answer) BY <2>10, <2>11 DEF RanAsAllowed
  <2>13. ASSUME item[2] = "run" PROVE call.id \in LeftIds(b, n, call.tool)
    BY <1>2, <1>3, <1>5, <2>13 DEF LeftIds
  <2>14. HadRoom(c, call, answer)
    <3> SUFFICES ASSUME answer \in {"ok", "failed"}, call.tool \in Limited
                 PROVE  /\ Cardinality(RanIds(c, call.tool) \cup {call.id}) <= CallLimit[call.tool]
                        /\ Cardinality(RanIds(c, call.tool) \cup {call.id}) <= c.counts[call.tool]
      BY DEF HadRoom
    <3>1. RanIds(c, call.tool) \cup {call.id} \subseteq RanIds(c, call.tool) \cup LeftIds(b, n, call.tool)
      BY <2>11, <2>13
    <3> QED BY <2>3, <3>1, FewerCalls
  <2>15. answer = "ok" /\ Reads(call) => RunRead(item) BY <1>3, <2>1 DEF RunRead
  <2>16. WasFresh(c, call, answer)
    BY <1>2, <1>3, <1>5, <2>3, <2>15 DEF BatchItems, WasFresh
  <2>17. Content(d, grants) BY <2>1, <2>4, <2>8, <2>12, <2>14, <2>16, AnswerKeepsContent
  <2>18. d.approved = c.approved /\ d.counts = c.counts /\ d.seen = SeenAfter(c, call, answer)
    BY <2>8 DEF SameBut, Answer
  <2>19. BatchItems(d, b, m, grants)
    <3>1. ASSUME NEW i \in Left(b, m) PROVE \E l \in DOMAIN d.calls : d.calls[l] = b[i][1]
      <4>1. PICK l \in DOMAIN c.calls : c.calls[l] = b[i][1] BY <1>5, <2>3 DEF BatchItems
      <4>2. b[i][1].id # call.id BY <1>2, <1>3, <1>5, <2>3 DEF BatchItems
      <4>3. l # k BY <2>4, <4>1, <4>2
      <4> QED BY <2>9, <4>1, <4>3 DEF StillPending
    <3>2. ASSUME NEW i \in Left(b, m), RunRead(b[i]), b[i][1].id \notin d.approved
          PROVE  Key(b[i][1]) \notin d.seen
      <4>1. Key(b[i][1]) \notin c.seen BY <1>5, <2>3, <2>18, <3>2 DEF BatchItems
      <4>2. RunRead(item) => Key(call) # Key(b[i][1])
        BY <1>2, <1>3, <1>5, <2>3, <2>18, <3>2 DEF BatchItems
      <4> QED BY <2>15, <2>18, <4>1, <4>2 DEF SeenAfter
    <3> QED BY <1>5, <2>3, <2>18, <3>1, <3>2 DEF BatchItems
  <2>20. BatchLimits(d, b, m)
    <3> SUFFICES ASSUME NEW t \in Limited
                 PROVE  /\ Cardinality(RanIds(d, t) \cup LeftIds(b, m, t)) <= CallLimit[t]
                        /\ Cardinality(RanIds(d, t) \cup LeftIds(b, m, t)) <= d.counts[t]
      BY DEF BatchLimits
    <3>1. RanIds(d, t) = IF call.tool = t /\ answer \in {"ok", "failed"}
                         THEN RanIds(c, t) \cup {call.id} ELSE RanIds(c, t)
      <4>1. answer \in Outcomes BY <2>1
      <4>2. Answer(c, d, call, answer) BY <2>8
      <4>3. c \in Copies /\ call \in Calls BY <1>6
      <4> QED BY ONLY <4>1, <4>2, <4>3, RanAfterAnswer
    <3>2. RanIds(d, t) \subseteq RanIds(c, t) \cup LeftIds(b, n, t)
      BY <2>11, <2>13, <3>1
    <3>3. RanIds(d, t) \cup LeftIds(b, m, t) \subseteq RanIds(c, t) \cup LeftIds(b, n, t) BY <1>5, <3>2
    <3> QED BY <2>3, <2>18, <3>3, FewerCalls
  <2> QED BY <1>1, <2>8, <2>17, <2>19, <2>20 DEF BatchSound
<1> QED BY <1>8, <1>9

\* The answers of a batch together (the second half of _execute_tool_batch), by induction over its items.
LEMMA SettledSound ==
  ASSUME NEW c \in Copies, NEW b \in Seq(Items), NEW grants, Content(c, grants), BatchSound(c, b, 0, grants),
         NEW outcome, \A i \in DOMAIN b : LegalOutcome(b[i], outcome[i]), NEW d, d = Settled(c, b, outcome)
  PROVE  d \in Copies /\ SameBut(c, d) /\ Content(d, grants)
<1>1. Len(b) \in Nat /\ DOMAIN b = 1..Len(b) OBVIOUS
<1>2. PICK f : SettledSteps(c, b, outcome, Len(b), f) /\ d = f[Len(b)] BY <1>1, SettledDefined
<1>3. f[0] = c
  <2>1. 0 \in 0..Len(b) BY <1>1
  <2> QED BY <1>2, <2>1 DEF SettledSteps
<1>4. ASSUME NEW n \in Nat, n < Len(b) PROVE f[n + 1] = Settle(f[n], b[n + 1], outcome[n + 1])
  <2>1. n + 1 \in 0..Len(b) /\ n + 1 # 0 /\ (n + 1) - 1 = n BY <1>1, <1>4
  <2>2. f[n + 1] = IF n + 1 = 0 THEN c ELSE Settle(f[(n + 1) - 1], b[n + 1], outcome[n + 1])
    BY <1>2, <2>1 DEF SettledSteps
  <2> QED BY <2>1, <2>2
<1> DEFINE P(n) == f[n] \in Copies /\ SameBut(c, f[n]) /\ Content(f[n], grants) /\ BatchSound(f[n], b, n, grants)
           S == {n \in Nat : n <= Len(b) => P(n)}
<1>5. 0 \in S
  <2>1. SameBut(c, c) BY DEF SameBut
  <2> QED BY <1>3, <2>1
<1>6. ASSUME NEW n \in Nat, n \in S PROVE n + 1 \in S
  <2> SUFFICES ASSUME n + 1 <= Len(b) PROVE P(n + 1) OBVIOUS
  <2>1. n < Len(b) /\ n <= Len(b) /\ n + 1 \in DOMAIN b BY <1>1
  <2>2. P(n) BY <1>6, <2>1
  <2>3. PICK e : e = f[n] OBVIOUS
  <2>4. PICK x : x = f[n + 1] OBVIOUS
  <2>5. x = Settle(e, b[n + 1], outcome[n + 1]) BY <1>4, <2>1, <2>3, <2>4
  <2>6. e \in Copies /\ SameBut(c, e) /\ Content(e, grants) /\ BatchSound(e, b, n, grants) BY <2>2, <2>3
  <2>7. LegalOutcome(b[n + 1], outcome[n + 1]) BY <2>1
  <2>8. x \in Copies /\ SameBut(e, x) /\ Content(x, grants) /\ BatchSound(x, b, n + 1, grants)
    BY <2>1, <2>5, <2>6, <2>7, SettleStep
  <2>9. SameBut(c, x) BY <2>6, <2>8 DEF SameBut
  <2> QED BY <2>4, <2>8, <2>9
<1>7. Len(b) \in S
  <2> HIDE DEF S
  <2> QED BY <1>1, <1>5, <1>6, Induction
<1> QED BY <1>1, <1>2, <1>7

-----------------------------------------------------------------------------
(* Judging the calls of a batch, one after the other.                      *)

\* A batch of several calls has none that has to be singled out.
NoneSingled(c, calls) ==
  /\ calls \in Seq(Calls) /\ DOMAIN calls \subseteq DOMAIN c.calls /\ \A i \in DOMAIN calls : calls[i] = c.calls[i]
  /\ Len(calls) >= 2 => \A i \in DOMAIN calls : ~NeedsApproval(c, calls[i])
\* What has been judged so far: the copy but for its counts, a fate for each call, and the keys of the reads.
JudgedFates(c, calls, p, n) ==
  /\ p.fates \in Seq(Items) /\ Len(p.fates) = n /\ \A i \in 1..n : p.fates[i][1] = calls[i]
  /\ p.c = [c EXCEPT !.counts = p.c.counts] /\ p.c.counts \in Counts
  /\ \A i \in 1..n :
       /\ p.fates[i][2] = "failed" => ~Enabled(calls[i])
       /\ RunRead(p.fates[i]) /\ calls[i].id \notin c.approved => Key(calls[i]) \notin c.seen /\ Key(calls[i]) \in p.keys
  /\ \A i, j \in 1..n :
       i < j /\ RunRead(p.fates[i]) /\ RunRead(p.fates[j]) /\ Key(calls[i]) = Key(calls[j]) => calls[j].id \in c.approved
JudgedLimits(c, p) ==
  \A t \in Limited : /\ Cardinality(RanIds(c, t) \cup LeftIds(p.fates, 0, t)) <= CallLimit[t]
                     /\ Cardinality(RanIds(c, t) \cup LeftIds(p.fates, 0, t)) <= p.c.counts[t]

\* The guards of one call (_guard_tool_call), after those before it.
LEMMA JudgeFate ==
  ASSUME NEW c \in Copies, NEW calls, NoneSingled(c, calls), NEW grants, Content(c, grants), NEW n \in Nat, n < Len(calls),
         NEW p, JudgedFates(c, calls, p, n), NEW q, q = Judge(p, calls[n + 1])
  PROVE  JudgedFates(c, calls, q, n + 1)
<1>1. PICK m : m = n + 1 OBVIOUS
<1>2. PICK call : call = calls[m] OBVIOUS
<1>3. PICK fate : fate = Fate(p.c, call, p.keys) OBVIOUS
<1>4. Len(calls) \in Nat /\ DOMAIN calls = 1..Len(calls) /\ m \in DOMAIN calls /\ call \in Calls
  BY <1>1, <1>2 DEF NoneSingled
<1>5. /\ p.c.approved = c.approved /\ p.c.seen = c.seen
  BY DEF JudgedFates, Copies
<1>6. /\ fate \in Fates /\ (fate = "failed" <=> ~Enabled(call))
      /\ fate = "run" /\ call.id \notin c.approved /\ Reads(call) => Key(call) \notin c.seen /\ Key(call) \notin p.keys
  BY <1>3, <1>5 DEF Fate, Guard, Fates
<1>7. /\ q.c = IF fate = "run" THEN CountCall(p.c, call) ELSE p.c
      /\ q.fates = Append(p.fates, <<call, fate>>)
      /\ q.keys = IF fate = "run" /\ Reads(call) /\ call.id \notin c.approved THEN p.keys \cup {Key(call)} ELSE p.keys
  BY <1>1, <1>2, <1>3, <1>5 DEF Judge
<1>8. p.fates \in Seq(Items) /\ Len(p.fates) = n BY DEF JudgedFates
<1>9. <<call, fate>> \in Items BY <1>4, <1>6 DEF Items
<1>10. /\ q.fates \in Seq(Items) /\ Len(q.fates) = m /\ q.fates[m] = <<call, fate>>
       /\ \A i \in 1..n : q.fates[i] = p.fates[i]
  BY <1>1, <1>7, <1>8, <1>9
<1>11. 1..m = 1..n \cup {m} /\ m \notin 1..n /\ \A i \in 1..n : i < m /\ ~(m < i) BY <1>1
<1>12. q.c = [c EXCEPT !.counts = q.c.counts] /\ q.c.counts \in Counts
  <2>1. p.c \in Copies /\ p.c = [c EXCEPT !.counts = p.c.counts] /\ p.c.counts \in Counts BY DEF JudgedFates, Copies
  <2>2. CASE fate = "run" /\ call.tool \in DOMAIN CallLimit
    <3> DEFINE counts == [p.c.counts EXCEPT ![call.tool] = p.c.counts[call.tool] + 1]
    <3>1. q.c = [p.c EXCEPT !.counts = counts] BY <1>7, <2>2 DEF CountCall
    <3>2. counts \in Counts
      <4>1. PICK before : before = p.c.counts OBVIOUS
      <4>2. PICK t : t = call.tool OBVIOUS
      <4>3. before \in Counts /\ t \in DOMAIN CallLimit BY <2>1, <2>2, <4>1, <4>2
      <4>4. [before EXCEPT ![t] = before[t] + 1] \in Counts BY ONLY <4>3 DEF Counts
      <4> QED BY <4>1, <4>2, <4>4
    <3> HIDE DEF counts
    <3>3. q.c.counts = counts BY <2>1, <3>1 DEF Copies
    <3>4. q.c = [c EXCEPT !.counts = counts]
      <4>1. PICK other : other = p.c.counts OBVIOUS
      <4>2. p.c = [c EXCEPT !.counts = other] BY <2>1, <4>1
      <4> QED BY <3>1, <4>2 DEF Copies
    <3> QED BY <3>2, <3>3, <3>4
  <2>3. CASE ~(fate = "run" /\ call.tool \in DOMAIN CallLimit)
    <3>1. q.c = p.c BY <1>7, <2>3 DEF CountCall
    <3> QED BY <2>1, <3>1
  <2> QED BY <2>2, <2>3
<1>13. \A i \in 1..m : q.fates[i][1] = calls[i]
  BY <1>2, <1>10, <1>11 DEF JudgedFates
<1>14. p.keys \subseteq q.keys BY <1>7
<1>15. RunRead(<<call, fate>>) <=> fate = "run" /\ Reads(call) BY DEF RunRead
<1>16. ASSUME NEW i \in 1..m
       PROVE  /\ q.fates[i][2] = "failed" => ~Enabled(calls[i])
              /\ RunRead(q.fates[i]) /\ calls[i].id \notin c.approved => Key(calls[i]) \notin c.seen /\ Key(calls[i]) \in q.keys
  <2>1. CASE i = m
    <3>1. q.fates[i] = <<call, fate>> /\ q.fates[i][2] = fate /\ calls[i] = call BY <1>2, <1>10, <2>1
    <3>2. RunRead(q.fates[i]) => fate = "run" /\ Reads(call) BY <1>15, <3>1
    <3>3. fate = "failed" => ~Enabled(call) BY <1>6
    <3>4. fate = "run" /\ Reads(call) /\ call.id \notin c.approved => Key(call) \notin c.seen /\ Key(call) \in q.keys
      BY <1>6, <1>7
    <3> QED BY <3>1, <3>2, <3>3, <3>4
  <2>2. CASE i \in 1..n BY <1>10, <1>14, <2>2 DEF JudgedFates
  <2> QED BY <1>11, <2>1, <2>2
<1>17. ASSUME NEW i \in 1..n, RunRead(q.fates[i]), RunRead(q.fates[m]), Key(calls[i]) = Key(calls[m])
       PROVE  calls[m].id \in c.approved
  <2> SUFFICES ASSUME call.id \notin c.approved PROVE FALSE BY <1>2
  <2>1. fate = "run" /\ Reads(call) BY <1>10, <1>15, <1>17
  <2>2. Key(call) \notin p.keys BY <1>6, <2>1
  <2>3. RunRead(p.fates[i]) BY <1>10, <1>17
  <2>4. calls[i].id \in c.approved
    BY <1>2, <1>17, <2>2, <2>3 DEF JudgedFates
  <2>5. i \in DOMAIN calls /\ m \in DOMAIN calls /\ Len(calls) >= 2 BY <1>1, <1>4
  <2>6. calls[i].tool \in ApprovalTools
    <3>1. i \in DOMAIN c.calls /\ c.calls[i] = calls[i] BY <2>5 DEF NoneSingled
    <3> QED BY <2>4, <3>1 DEF Content, Approved
  <2>7. call.tool \notin ApprovalTools
    <3>1. ~NeedsApproval(c, call) BY <1>2, <2>5 DEF NoneSingled
    <3> QED BY <3>1 DEF NeedsApproval
  <2>8. calls[i].tool = call.tool BY <1>2, <1>17 DEF Key
  <2> QED BY <2>6, <2>7, <2>8
<1>18. ASSUME NEW i \in 1..m, NEW j \in 1..m, i < j, RunRead(q.fates[i]), RunRead(q.fates[j]), Key(calls[i]) = Key(calls[j])
       PROVE  calls[j].id \in c.approved
  <2>1. i \in 1..n BY <1>11, <1>18
  <2>2. CASE j = m BY <1>17, <1>18, <2>1, <2>2
  <2>3. CASE j \in 1..n BY <1>10, <1>18, <2>1, <2>3 DEF JudgedFates
  <2> QED BY <1>11, <2>2, <2>3
<1>19. JudgedFates(c, calls, q, m)
  BY <1>10, <1>12, <1>13, <1>16, <1>18 DEF JudgedFates
<1> QED BY <1>1, <1>19

\* The calls judged to run stay within the limits of their tools together with those that have run.
LEMMA JudgeLimits ==
  ASSUME NEW c \in Copies, NEW calls, NoneSingled(c, calls), NEW grants, Content(c, grants), NEW n \in Nat, n < Len(calls),
         NEW p, JudgedFates(c, calls, p, n), JudgedLimits(c, p), NEW q, q = Judge(p, calls[n + 1])
  PROVE  JudgedLimits(c, q)
<1>1. PICK m : m = n + 1 OBVIOUS
<1>2. PICK call : call = calls[m] OBVIOUS
<1>3. PICK fate : fate = Fate(p.c, call, p.keys) OBVIOUS
<1>4. Len(calls) \in Nat /\ DOMAIN calls = 1..Len(calls) /\ m \in DOMAIN calls /\ call \in Calls
  BY <1>1, <1>2 DEF NoneSingled
<1>5. q.fates = Append(p.fates, <<call, fate>>) /\ fate \in Fates
  <2>1. q.fates = Append(p.fates, <<call, fate>>) BY <1>1, <1>2, <1>3 DEF Judge
  <2>2. fate \in Fates BY <1>3 DEF Fate, Guard, Fates
  <2> QED BY <2>1, <2>2
<1>6. p.c.approved = c.approved /\ p.c.counts \in Counts /\ p.c \in Copies
  BY DEF JudgedFates, Copies
<1>7. p.fates \in Seq(Items) /\ Len(p.fates) = n /\ <<call, fate>> \in Items
  BY <1>4, <1>5 DEF JudgedFates, Items
<1>8. /\ DOMAIN p.fates = 1..n /\ DOMAIN q.fates = 1..m /\ q.fates[m] = <<call, fate>>
      /\ \A i \in 1..n : q.fates[i] = p.fates[i]
  BY <1>1, <1>5, <1>7
<1>9. 1..m = 1..n \cup {m} /\ m \notin 1..n /\ (\A i \in 1..m : i > 0) /\ 1..n \subseteq 1..m BY <1>1
<1>10. q.c = IF fate = "run" THEN CountCall(p.c, call) ELSE p.c BY <1>1, <1>2, <1>3 DEF Judge
<1>11. fate = "run" /\ call.id \notin c.approved /\ call.tool \in DOMAIN CallLimit =>
         ~(p.c.counts[call.tool] >= CallLimit[call.tool])
  BY <1>3, <1>6 DEF Fate, Guard
<1> SUFFICES ASSUME NEW t \in Limited
             PROVE  /\ Cardinality(RanIds(c, t) \cup LeftIds(q.fates, 0, t)) <= CallLimit[t]
                    /\ Cardinality(RanIds(c, t) \cup LeftIds(q.fates, 0, t)) <= q.c.counts[t]
  BY DEF JudgedLimits
<1>12. t \in DOMAIN CallLimit /\ CallLimit[t] \in Nat /\ p.c.counts[t] \in Nat
  BY <1>6, LoopAssumption DEF Limited, Counts
<1> DEFINE U == RanIds(c, t) \cup LeftIds(p.fates, 0, t)
<1>13. Cardinality(U) <= CallLimit[t] /\ Cardinality(U) <= p.c.counts[t] BY DEF JudgedLimits
<1>14. IsFiniteSet(U) /\ Cardinality(U) \in Nat
  <2>1. IsFiniteSet(RanIds(c, t)) BY RanFinite
  <2>2. IsFiniteSet(LeftIds(p.fates, 0, t)) BY <1>7, LeftFinite
  <2>3. IsFiniteSet(U) BY <2>1, <2>2, FS_Union
  <2> QED BY <2>3, FS_CardinalityType
<1>15. CASE fate = "run" /\ call.tool = t
  <2>1. LeftIds(q.fates, 0, t) = LeftIds(p.fates, 0, t) \cup {call.id}
    <3>1. ASSUME NEW x \in LeftIds(q.fates, 0, t) PROVE x \in LeftIds(p.fates, 0, t) \cup {call.id}
      <4>1. PICK i \in 1..m : q.fates[i][2] = "run" /\ q.fates[i][1].tool = t /\ x = q.fates[i][1].id
        BY <1>8, <3>1 DEF LeftIds, Left
      <4>2. CASE i = m BY <1>8, <4>1, <4>2
      <4>3. CASE i \in 1..n
        <5>1. q.fates[i] = p.fates[i] /\ i \in Left(p.fates, 0) BY <1>8, <1>9, <4>3 DEF Left
        <5> QED BY <4>1, <5>1 DEF LeftIds
      <4> QED BY <1>9, <4>2, <4>3
    <3>2. ASSUME NEW x \in LeftIds(p.fates, 0, t) PROVE x \in LeftIds(q.fates, 0, t)
      <4>1. PICK i \in 1..n : p.fates[i][2] = "run" /\ p.fates[i][1].tool = t /\ x = p.fates[i][1].id
        BY <1>8, <3>2 DEF LeftIds, Left
      <4> QED BY <1>8, <1>9, <4>1 DEF LeftIds, Left
    <3>3. call.id \in LeftIds(q.fates, 0, t)
      <4>1. m \in 1..m /\ m > 0 BY <1>9
      <4> QED BY <1>8, <1>15, <4>1 DEF LeftIds, Left
    <3> QED BY <3>1, <3>2, <3>3
  <2>2. RanIds(c, t) \cup LeftIds(q.fates, 0, t) = U \cup {call.id} BY <2>1
  <2>3. q.c.counts[t] = p.c.counts[t] + 1
    <3> DEFINE counts == [p.c.counts EXCEPT ![t] = p.c.counts[t] + 1]
    <3>1. q.c = [p.c EXCEPT !.counts = counts] BY <1>10, <1>12, <1>15 DEF CountCall
    <3>2. counts[t] = p.c.counts[t] + 1 BY <1>6, <1>12 DEF Counts
    <3> HIDE DEF counts
    <3>3. q.c.counts = counts BY <1>6, <3>1 DEF Copies
    <3> QED BY <3>2, <3>3
  <2>4. Cardinality(U \cup {call.id}) <= Cardinality(U) + 1 /\ Cardinality(U \cup {call.id}) \in Nat
    <3> HIDE DEF U
    <3> QED BY <1>14, FS_AddElement, FS_CardinalityType
  <2>5. Cardinality(U) < CallLimit[t]
    <3>1. CASE call.id \notin c.approved
      <4> HIDE DEF U
      <4> QED BY <1>11, <1>12, <1>13, <1>14, <1>15, <3>1
    <3>2. CASE call.id \in c.approved
      <4>1. m \in DOMAIN c.calls /\ c.calls[m] = call BY <1>2, <1>4 DEF NoneSingled
      <4>2. m = 1 /\ Cardinality(RanIds(c, t)) < CallLimit[t] BY <1>15, <3>2, <4>1 DEF Content, Approved
      <4>3. n = 0 BY <1>1, <4>2
      <4>4. LeftIds(p.fates, 0, t) = {}
        <5>1. DOMAIN p.fates = {} BY <1>8, <4>3
        <5> QED BY <5>1 DEF LeftIds, Left
      <4> QED BY <4>2, <4>4
    <3> QED BY <3>1, <3>2
  <2>6. Cardinality(U \cup {call.id}) <= CallLimit[t] /\ Cardinality(U \cup {call.id}) <= q.c.counts[t]
    <3> HIDE DEF U
    <3> QED BY <1>12, <1>13, <1>14, <2>3, <2>4, <2>5
  <2> QED BY <2>2, <2>6
<1>16. CASE ~(fate = "run" /\ call.tool = t)
  <2>1. LeftIds(q.fates, 0, t) \subseteq LeftIds(p.fates, 0, t)
    <3>1. ASSUME NEW x \in LeftIds(q.fates, 0, t) PROVE x \in LeftIds(p.fates, 0, t)
      <4>1. PICK i \in 1..m : q.fates[i][2] = "run" /\ q.fates[i][1].tool = t /\ x = q.fates[i][1].id
        BY <1>8, <3>1 DEF LeftIds, Left
      <4>2. i # m BY <1>8, <1>16, <4>1
      <4>3. i \in 1..n BY <1>9, <4>2
      <4> QED BY <1>8, <1>9, <4>1, <4>3 DEF LeftIds, Left
    <3> QED BY <3>1
  <2>2. q.c.counts[t] = p.c.counts[t]
    <3>1. CASE fate = "run" /\ call.tool \in DOMAIN CallLimit
      <4>1. PICK u : u = call.tool OBVIOUS
      <4> DEFINE counts == [p.c.counts EXCEPT ![u] = p.c.counts[u] + 1]
      <4>2. q.c = [p.c EXCEPT !.counts = counts] BY <1>10, <3>1, <4>1 DEF CountCall
      <4>3. u # t BY <1>16, <3>1, <4>1
      <4>4. counts[t] = p.c.counts[t] BY <1>6, <1>12, <4>3 DEF Counts
      <4> HIDE DEF counts
      <4>5. q.c.counts = counts BY <1>6, <4>2 DEF Copies
      <4> QED BY <4>4, <4>5
    <3>2. CASE ~(fate = "run" /\ call.tool \in DOMAIN CallLimit) BY <1>10, <3>2 DEF CountCall
    <3> QED BY <3>1, <3>2
  <2>3. RanIds(c, t) \cup LeftIds(q.fates, 0, t) \subseteq U BY <2>1
  <2>4. Cardinality(RanIds(c, t) \cup LeftIds(q.fates, 0, t)) <= Cardinality(U)
    <3> HIDE DEF U
    <3> QED BY <1>14, <2>3, FS_Subset
  <2>5. Cardinality(RanIds(c, t) \cup LeftIds(q.fates, 0, t)) \in Nat
    <3> HIDE DEF U
    <3>1. IsFiniteSet(RanIds(c, t) \cup LeftIds(q.fates, 0, t)) BY <1>14, <2>3, FS_Subset
    <3> QED BY <3>1, FS_CardinalityType
  <2> HIDE DEF U
  <2> QED BY <1>12, <1>13, <1>14, <2>2, <2>4, <2>5
<1> QED BY <1>15, <1>16

\* What the admission of a batch leaves (_admit_tool_call and the first half of _execute_tool_batch), by
\* induction over its calls.
LEMMA AdmittedSound ==
  ASSUME NEW c \in Copies, NEW calls, NoneSingled(c, calls), NEW grants, Content(c, grants),
         NEW a, a = Admitted(c, calls)
  PROVE  JudgedFates(c, calls, a, Len(calls)) /\ JudgedLimits(c, a)
<1>1. Len(calls) \in Nat /\ DOMAIN calls = 1..Len(calls) BY DEF NoneSingled
<1>2. PICK f : AdmittedSteps(c, calls, Len(calls), f) /\ a = f[Len(calls)] BY <1>1, AdmittedDefined
<1>3. f[0] = FirstJudged(c)
  <2>1. 0 \in 0..Len(calls) BY <1>1
  <2> QED BY <1>2, <2>1 DEF AdmittedSteps
<1>4. ASSUME NEW n \in Nat, n < Len(calls) PROVE f[n + 1] = Judge(f[n], calls[n + 1])
  <2>1. n + 1 \in 0..Len(calls) /\ n + 1 # 0 /\ (n + 1) - 1 = n BY <1>1, <1>4
  <2>2. f[n + 1] = IF n + 1 = 0 THEN FirstJudged(c) ELSE Judge(f[(n + 1) - 1], calls[n + 1])
    BY <1>2, <2>1 DEF AdmittedSteps
  <2> QED BY <2>1, <2>2
<1> DEFINE P(n) == JudgedFates(c, calls, f[n], n) /\ JudgedLimits(c, f[n])
           S == {n \in Nat : n <= Len(calls) => P(n)}
<1>5. 0 \in S
  <2>1. PICK p : p = FirstJudged(c) OBVIOUS
  <2>2. p.c = c /\ p.fates = <<>> BY <2>1 DEF FirstJudged
  <2>3. c = [c EXCEPT !.counts = c.counts] /\ c.counts \in Counts BY DEF Copies
  <2>4. p.fates \in Seq(Items) /\ Len(p.fates) = 0 /\ DOMAIN p.fates = {} /\ 1..0 = {} BY <2>2
  <2>5. JudgedFates(c, calls, p, 0) BY <2>2, <2>3, <2>4 DEF JudgedFates
  <2>6. JudgedLimits(c, p)
    <3>1. \A t : LeftIds(p.fates, 0, t) = {} BY <2>4 DEF LeftIds, Left
    <3>2. \A t : RanIds(c, t) \cup LeftIds(p.fates, 0, t) = RanIds(c, t) BY <3>1
    <3> QED BY <2>2, <3>2 DEF JudgedLimits, Content, Within
  <2> QED BY <1>3, <2>1, <2>5, <2>6
<1>6. ASSUME NEW n \in Nat, n \in S PROVE n + 1 \in S
  <2> SUFFICES ASSUME n + 1 <= Len(calls) PROVE P(n + 1) OBVIOUS
  <2>1. n < Len(calls) /\ n <= Len(calls) BY <1>1
  <2>2. P(n) BY <1>6, <2>1
  <2>3. PICK p : p = f[n] OBVIOUS
  <2>4. PICK q : q = f[n + 1] OBVIOUS
  <2>5. q = Judge(p, calls[n + 1]) BY <1>4, <2>1, <2>3, <2>4
  <2>6. JudgedFates(c, calls, p, n) /\ JudgedLimits(c, p) BY <2>2, <2>3
  <2>7. JudgedFates(c, calls, q, n + 1) BY <2>1, <2>5, <2>6, JudgeFate
  <2>8. JudgedLimits(c, q) BY <2>1, <2>5, <2>6, JudgeLimits
  <2> QED BY <2>4, <2>7, <2>8
<1>7. Len(calls) \in S
  <2> HIDE DEF S
  <2> QED BY <1>1, <1>5, <1>6, Induction
<1> QED BY <1>1, <1>2, <1>7

-----------------------------------------------------------------------------
(* The calls of a batch and of a reply.                                    *)

\* _parallel_tool_batch: the next calls, and no more than there are steps for.
LEMMA TogetherSound ==
  ASSUME NEW c \in Copies, c.calls # <<>>, c.steps < StepLimit(c), NEW calls, calls = Together(c)
  PROVE  NoneSingled(c, calls) /\ Len(calls) >= 1 /\ Len(calls) \in Nat /\ c.steps + Len(calls) <= StepLimit(c)
<1>1. c.calls \in Seq(Calls) /\ c.steps \in Nat /\ StepLimit(c) \in Nat /\ MaxSteps <= StepLimit(c) /\ MaxSteps \in Nat
  <2>1. c.calls \in Seq(Calls) /\ c.steps \in Nat /\ c.extensions \in Nat
    BY LoopAssumption DEF Copies, Extensions
  <2>2. PICK x : x = c.extensions OBVIOUS
  <2>3. x \in Nat /\ StepIncrement \in Nat /\ MaxSteps \in Nat BY <2>1, <2>2, LoopAssumption
  <2>4. x * StepIncrement \in Nat BY <2>3
  <2> QED BY <2>1, <2>2, <2>3, <2>4 DEF StepLimit
<1>2. Len(c.calls) \in Nat /\ Len(c.calls) >= 1 /\ DOMAIN c.calls = 1..Len(c.calls) /\ \A i \in DOMAIN c.calls : c.calls[i] \in Calls
  BY <1>1
<1> DEFINE room == IF MaxSteps > c.steps THEN MaxSteps - c.steps ELSE 0
           size == IF Len(c.calls) < room THEN Len(c.calls) ELSE room
           fit == SubSeq(c.calls, 1, size)
<1>3. room \in Nat /\ (room > 0 => c.steps + room <= StepLimit(c)) BY <1>1
<1>4. size \in Nat /\ size <= room /\ size <= Len(c.calls)
  <2> HIDE DEF room
  <2> QED BY <1>2, <1>3
<1> HIDE DEF room, size
<1>5. fit \in Seq(Calls) /\ Len(fit) = size /\ DOMAIN fit = 1..size /\ \A i \in 1..size : fit[i] = c.calls[i]
  BY <1>1, <1>2, <1>4
<1> DEFINE one == <<Head(c.calls)>>
<1>6. one \in Seq(Calls) /\ Len(one) = 1 /\ DOMAIN one = 1..1 /\ one[1] = c.calls[1]
  BY <1>1, <1>2
<1>7. calls = IF Len(fit) >= 2 /\ \A i \in DOMAIN fit : Enabled(fit[i]) /\ ~NeedsApproval(c, fit[i]) THEN fit ELSE one
  BY DEF Together, room, size
<1> HIDE DEF fit, one
<1>8. CASE calls = fit /\ Len(fit) >= 2 /\ \A i \in DOMAIN fit : ~NeedsApproval(c, fit[i])
  <2>1. NoneSingled(c, fit) BY <1>2, <1>4, <1>5, <1>8 DEF NoneSingled
  <2>2. c.steps + size <= StepLimit(c) BY <1>1, <1>3, <1>4, <1>5, <1>8
  <2> QED BY <1>4, <1>5, <1>8, <2>1, <2>2
<1>9. CASE calls = one
  <2>1. NoneSingled(c, one) BY <1>2, <1>6 DEF NoneSingled
  <2>2. c.steps + 1 <= StepLimit(c) BY <1>1
  <2>3. Len(calls) = 1 BY <1>6, <1>9
  <2>4. NoneSingled(c, calls) BY <1>9, <2>1
  <2> HIDE DEF one
  <2> QED BY <2>2, <2>3, <2>4
<1> QED BY <1>7, <1>8, <1>9

\* The admitted batch is sound of the copy it was judged for.
LEMMA AdmittedBatch ==
  ASSUME NEW c \in Copies, NEW calls, NoneSingled(c, calls), Len(calls) >= 1, NEW grants, Content(c, grants),
         NEW a, a = Admitted(c, calls),
         ~(Len(calls) = 1 /\ NeedsApproval(c, calls[1]) /\ a.fates[1][2] = "run")
  PROVE  /\ a.c = [c EXCEPT !.counts = a.c.counts] /\ a.c.counts \in Counts /\ a.c \in Copies
         /\ a.fates \in Seq(Items) /\ Content(a.c, grants) /\ BatchSound(a.c, a.fates, 0, grants)
<1>1. JudgedFates(c, calls, a, Len(calls)) /\ JudgedLimits(c, a) BY AdmittedSound
<1>2. Len(calls) \in Nat /\ DOMAIN calls = 1..Len(calls) BY DEF NoneSingled
<1>3. PICK b : b = a.fates OBVIOUS
<1>4. PICK d : d = a.c OBVIOUS
<1>5. PICK n : n = Len(calls) OBVIOUS
<1>6. /\ b \in Seq(Items) /\ Len(b) = n /\ \A i \in 1..n : b[i][1] = calls[i]
      /\ d = [c EXCEPT !.counts = d.counts] /\ d.counts \in Counts
      /\ \A i \in 1..n :
           /\ b[i][2] = "failed" => ~Enabled(calls[i])
           /\ RunRead(b[i]) /\ calls[i].id \notin c.approved => Key(calls[i]) \notin c.seen
      /\ \A i, j \in 1..n : i < j /\ RunRead(b[i]) /\ RunRead(b[j]) /\ Key(calls[i]) = Key(calls[j]) => calls[j].id \in c.approved
  BY <1>1, <1>3, <1>4, <1>5 DEF JudgedFates
<1>7. /\ d \in Copies /\ d.calls = c.calls /\ d.done = c.done /\ d.approved = c.approved /\ d.seen = c.seen /\ d.log = c.log
  <2>1. PICK counts : counts = d.counts OBVIOUS
  <2>2. d = [c EXCEPT !.counts = counts] /\ counts \in Counts BY <1>6, <2>1
  <2> QED BY <2>2 DEF Copies
<1>8. Left(b, 0) = 1..n /\ \A i \in 1..n : i \in DOMAIN calls /\ i \in DOMAIN c.calls /\ c.calls[i] = calls[i]
  BY <1>2, <1>5, <1>6 DEF Left, NoneSingled
<1>9. BatchItems(d, b, 0, grants)
  <2>1. ASSUME NEW i \in Left(b, 0) PROVE \E k \in DOMAIN d.calls : d.calls[k] = b[i][1]
    BY <1>6, <1>7, <1>8
  <2>2. ASSUME NEW i \in Left(b, 0), NEW j \in Left(b, 0), b[i][1].id = b[j][1].id PROVE i = j
    BY <1>6, <1>8, <2>2 DEF Content, Paired
  <2>3. ASSUME NEW i \in Left(b, 0), b[i][2] = "run", b[i][1].tool \in ApprovalTools
        PROVE  b[i][1].id \in d.approved /\ Triple(b[i][1]) \in grants
    <3>1. b[i][1] = calls[i] /\ c.calls[i] = calls[i] /\ i \in DOMAIN c.calls /\ i \in DOMAIN calls BY <1>6, <1>8
    <3>2. ~NeedsApproval(c, calls[i])
      <4>1. CASE Len(calls) >= 2 BY <3>1, <4>1 DEF NoneSingled
      <4>2. CASE Len(calls) = 1
        <5>1. i = 1 BY <1>2, <3>1, <4>2
        <5> QED BY <1>3, <2>3, <4>2, <5>1
      <4> QED BY <1>2, <4>1, <4>2
    <3>3. calls[i].id \in c.approved BY <2>3, <3>1, <3>2 DEF NeedsApproval
    <3>4. Triple(calls[i]) \in grants BY <3>1, <3>3 DEF Content, Approved
    <3> QED BY <1>7, <3>1, <3>3, <3>4
  <2>4. ASSUME NEW i \in Left(b, 0)
        PROVE  /\ b[i][2] = "failed" => ~Enabled(b[i][1])
               /\ RunRead(b[i]) /\ b[i][1].id \notin d.approved => Key(b[i][1]) \notin d.seen
    BY <1>6, <1>7, <1>8
  <2>5. ASSUME NEW i \in Left(b, 0), NEW j \in Left(b, 0), i < j, RunRead(b[i]), RunRead(b[j]), Key(b[i][1]) = Key(b[j][1])
        PROVE  b[j][1].id \in d.approved
    BY <1>6, <1>7, <1>8, <2>5
  <2> QED BY <2>1, <2>2, <2>3, <2>4, <2>5 DEF BatchItems
<1>10. \A t : RanIds(d, t) = RanIds(c, t) BY <1>7 DEF RanIds, Ran
<1>11. BatchLimits(d, b, 0) BY <1>1, <1>3, <1>4, <1>10 DEF BatchLimits, JudgedLimits
<1>12. Within(d)
  <2> SUFFICES ASSUME NEW t \in Limited
               PROVE  Cardinality(RanIds(d, t)) <= CallLimit[t] /\ Cardinality(RanIds(d, t)) <= d.counts[t]
    BY DEF Within
  <2>1. RanIds(d, t) \subseteq RanIds(d, t) \cup LeftIds(b, 0, t) OBVIOUS
  <2> QED BY <1>6, <1>7, <1>11, <2>1, FewerCalls
<1>13. Paired(d) /\ Remembered(d) /\ Fresh(d)
  BY <1>7 DEF Content, Paired, Remembered, Fresh
<1>14. Approved(d, grants) BY <1>7, <1>10 DEF Content, Approved
<1> QED BY <1>3, <1>4, <1>6, <1>7, <1>9, <1>11, <1>12, <1>13, <1>14 DEF Content, BatchSound

\* The ids of calls are 1..MaxCallId.
LEMMA FinitelyManyIds == IsFiniteSet(CallIds)
<1>1. MaxCallId \in Int BY LoopAssumption
<1> QED BY <1>1, FS_Interval DEF CallIds

\* There are as many ids as a set has members.
LEMMA UnusedIds ==
  ASSUME NEW ids, NEW n \in Nat, n <= Cardinality(CallIds \ ids)
  PROVE  /\ Unused(ids, n) \in [1..n -> CallIds \ ids]
         /\ \A i, j \in 1..n : i # j => Unused(ids, n)[i] # Unused(ids, n)[j]
<1> DEFINE S == CallIds \ ids
<1>1. IsFiniteSet(S)
  <2>1. IsFiniteSet(CallIds) BY FinitelyManyIds
  <2>2. S \subseteq CallIds OBVIOUS
  <2> QED BY <2>1, <2>2, FS_Subset
<1>2. Cardinality(S) \in Nat /\ \E f : f \in Bijection(1..Cardinality(S), S)
  <2> HIDE DEF S
  <2>1. Cardinality(S) \in Nat /\ ExistsBijection(1..Cardinality(S), S) BY <1>1, FS_CardinalityType
  <2> QED BY <2>1 DEF ExistsBijection
<1>3. PICK f : f \in Bijection(1..Cardinality(S), S) BY <1>2
<1> HIDE DEF S
<1>4. 1..n \subseteq 1..Cardinality(S) BY <1>2 DEF S
<1> DEFINE q == [i \in 1..n |-> f[i]]
<1>5. q \in [1..n -> S] /\ \A i, j \in 1..n : i # j => q[i] # q[j]
  BY <1>3, <1>4 DEF Bijection, Injection, Surjection, IsInjective
<1>6. \E g \in [1..n -> S] : \A i, j \in 1..n : i # j => g[i] # g[j] BY <1>5
<1> QED BY <1>6, Zenon DEF Unused, S

\* _fresh_tool_call_ids: the calls of a reply have ids of their own, whatever ids the model chose.
LEMMA FreshCalls ==
  ASSUME NEW c \in Copies, NEW reply \in Replies, NEW id \in ModelIds(c), Len(reply) < Cardinality(CallIds \ c.done),
         NEW calls, calls = FreshIds(c, CallsOfReply(reply, id))
  PROVE  /\ calls \in Seq(Calls) /\ \A i \in DOMAIN calls : calls[i].id \notin c.done
         /\ \A i, j \in DOMAIN calls : calls[i].id = calls[j].id => i = j
<1>1. Len(reply) \in Nat /\ DOMAIN reply = 1..Len(reply)
  BY LoopAssumption
<1>2. \A i \in DOMAIN reply : reply[i][1] \in Tools /\ reply[i][2] \in Args BY DEF Tools, Args
<1>3. IsFiniteSet(CallIds \ c.done) /\ Cardinality(CallIds \ c.done) \in Nat
  <2>1. IsFiniteSet(CallIds) BY FinitelyManyIds
  <2>2. IsFiniteSet(CallIds \ c.done) BY <2>1, FS_Subset
  <2> QED BY <2>2, FS_CardinalityType
<1>4. id \in CallIds
  <2>1. CallIds \ c.done # {} BY <1>1, <1>3, FS_EmptySet
  <2>2. (CHOOSE n \in CallIds : n \notin c.done) \in CallIds BY <2>1
  <2>3. c.done # {} => (CHOOSE n \in c.done : TRUE) \in CallIds BY DEF Copies
  <2> QED BY <2>2, <2>3 DEF ModelIds
<1> DEFINE raw == CallsOfReply(reply, id)
           n == Len(reply)
           used == c.done \cup {id}
<1>5. DOMAIN raw = 1..n /\ \A i \in 1..n : raw[i] = [id |-> id, tool |-> reply[i][1], arg |-> reply[i][2]]
  BY <1>1 DEF CallsOfReply
<1>6. \A i \in 1..n : raw[i] \in Calls /\ raw[i].id = id BY <1>1, <1>2, <1>4, <1>5 DEF Calls
<1>7. raw \in Seq(Calls) /\ Len(raw) = n
  <2>1. raw = [i \in 1..n |-> raw[i]] BY <1>1 DEF CallsOfReply
  <2> HIDE DEF raw
  <2>2. n \in Nat BY <1>1
  <2> HIDE DEF n
  <2> QED BY <1>6, <2>1, <2>2
<1> HIDE DEF raw
<1>8. n > 0 => c.done \cup {raw[i].id : i \in DOMAIN raw} = used
  <2> SUFFICES ASSUME n > 0 PROVE {raw[i].id : i \in DOMAIN raw} = {id} OBVIOUS
  <2>1. 1 \in 1..n BY <1>1
  <2> QED BY <1>5, <1>6, <2>1
<1>9. n <= Cardinality(CallIds \ used)
  <2>1. CallIds \ used = (CallIds \ c.done) \ {id} OBVIOUS
  <2>2. PICK T : T = CallIds \ c.done OBVIOUS
  <2>3. IsFiniteSet(T) /\ Cardinality(T) \in Nat BY <1>3, <2>2
  <2>4. Cardinality(T \ {id}) = IF id \in T THEN Cardinality(T) - 1 ELSE Cardinality(T)
    BY <2>3, FS_RemoveElement
  <2>5. Len(reply) < Cardinality(T) BY <2>2
  <2>6. Len(reply) <= Cardinality(T \ {id}) BY <1>1, <2>3, <2>4, <2>5
  <2> QED BY <2>1, <2>2, <2>6
<1> DEFINE unused == Unused(used, n)
<1>10. unused \in [1..n -> CallIds \ used] /\ \A i, j \in 1..n : i # j => unused[i] # unused[j]
  BY <1>1, <1>9, UnusedIds
<1> HIDE DEF unused
<1>11. /\ DOMAIN calls = 1..n
       /\ \A i \in 1..n : calls[i] = IF id \in c.done \/ \E j \in 1..(i - 1) : raw[j].id = id
                                     THEN [raw[i] EXCEPT !.id = unused[i]] ELSE raw[i]
  <2>1. calls = [i \in DOMAIN raw |->
            IF raw[i].id \in c.done \/ \E j \in 1..(i - 1) : raw[j].id = raw[i].id
            THEN [raw[i] EXCEPT !.id = Unused(c.done \cup {raw[k].id : k \in DOMAIN raw}, Len(raw))[i]] ELSE raw[i]]
    BY DEF FreshIds, raw
  <2>2. DOMAIN calls = 1..n BY <1>5, <2>1
  <2>3. ASSUME NEW i \in 1..n
        PROVE  calls[i] = IF id \in c.done \/ \E j \in 1..(i - 1) : raw[j].id = id
                          THEN [raw[i] EXCEPT !.id = unused[i]] ELSE raw[i]
    <3>1. n > 0 BY <1>1
    <3>2. Unused(c.done \cup {raw[k].id : k \in DOMAIN raw}, Len(raw)) = unused BY <1>7, <1>8, <3>1 DEF unused
    <3>3. raw[i].id = id BY <1>6
    <3> QED BY <1>5, <2>1, <3>2, <3>3
  <2> QED BY <2>2, <2>3
<1>12. \A i \in 1..n : (\E j \in 1..(i - 1) : raw[j].id = id) <=> i # 1
  <2>1. \A i \in 1..n : i # 1 => 1 \in 1..(i - 1) /\ 1 \in 1..n BY <1>1
  <2>2. \A i \in 1..n : i = 1 => 1..(i - 1) = {} BY <1>1
  <2> QED BY <1>6, <2>1, <2>2
<1>13. \A i \in 1..n : /\ calls[i] \in Calls
                       /\ calls[i].id = IF id \in c.done \/ i # 1 THEN unused[i] ELSE id
  <2> SUFFICES ASSUME NEW i \in 1..n
               PROVE  calls[i] \in Calls /\ calls[i].id = IF id \in c.done \/ i # 1 THEN unused[i] ELSE id
    OBVIOUS
  <2>1. CASE id \in c.done \/ i # 1
    <3>1. calls[i] = [raw[i] EXCEPT !.id = unused[i]] BY <1>11, <1>12, <2>1
    <3>2. raw[i] \in Calls /\ unused[i] \in CallIds BY <1>6, <1>10
    <3> QED BY <2>1, <3>1, <3>2 DEF Calls
  <2>2. CASE ~(id \in c.done \/ i # 1) BY <1>6, <1>11, <1>12, <2>2
  <2> QED BY <2>1, <2>2
<1>14. \A i \in 1..n : unused[i] \notin c.done /\ unused[i] # id BY <1>10
<1>15. \A i \in DOMAIN calls : calls[i].id \notin c.done BY <1>11, <1>13, <1>14
<1>16. \A i, j \in DOMAIN calls : calls[i].id = calls[j].id => i = j
  <2> SUFFICES ASSUME NEW i \in 1..n, NEW j \in 1..n, calls[i].id = calls[j].id PROVE i = j BY <1>11
  <2>1. CASE i # 1 /\ j # 1 BY <1>10, <1>13, <2>1
  <2>2. CASE i = 1 /\ j # 1 BY <1>10, <1>13, <1>14, <2>2
  <2>3. CASE i # 1 /\ j = 1 BY <1>10, <1>13, <1>14, <2>3
  <2> QED BY <2>1, <2>2, <2>3
<1>17. calls \in Seq(Calls)
  <2>1. calls = [i \in 1..n |-> calls[i]] BY <1>5 DEF FreshIds, raw
  <2>2. \A i \in 1..n : calls[i] \in Calls BY <1>13
  <2> QED BY <1>1, <2>1, <2>2
<1> QED BY <1>15, <1>16, <1>17

-----------------------------------------------------------------------------
(* Messages on their way from memory to the model.                         *)

\* An empty queue (AgentRuntime._steering before anyone steers).
LEMMA NoMessages ==
  /\ Elements(<<>>) = {} /\ Distinct(<<>>) /\ <<>> \in Seq(Nat) /\ Len(<<>>) = 0
BY DEF Elements, Distinct

\* Messages put behind those that wait (_transition, _keep_late_steering, cancel, resume and the recovery).
LEMMA QueuedBehind ==
  ASSUME NEW told \in Seq(Nat), NEW steer \in Seq(Nat), NEW more \in Seq(Nat), Distinct(told), Distinct(steer), Distinct(more),
         Apart(Elements(told), Elements(steer)), Apart(Elements(steer) \cup Elements(told), Elements(more))
  PROVE  /\ steer \o more \in Seq(Nat) /\ Distinct(steer \o more) /\ Elements(steer \o more) = Elements(steer) \cup Elements(more)
         /\ Apart(Elements(told), Elements(steer \o more))
<1>1. Apart(Elements(steer), Elements(more)) BY DEF Apart
<1>2. steer \o more \in Seq(Nat) OBVIOUS
<1>3. Distinct(steer \o more) BY <1>1, JoinedDistinct
<1>4. Elements(steer \o more) = Elements(steer) \cup Elements(more) BY JoinedElements
<1> QED BY <1>2, <1>3, <1>4 DEF Apart

\* A checkpoint with the steering of memory: the copy is lost or is the checkpoint.
LEMMA MessagesSaved ==
  ASSUME NEW c \in Copies, NEW s \in Copies, NEW q \in Seq(Nat), NEW l \in Seq(Nat), NEW n, NEW lost, Messages(c, s, q, l, n, lost),
         NEW d, d.told = s.told, d.steer = s.steer \o q
  PROVE  Messages(d, d, <<>>, l, n, lost \cup (Holds(c) \ Holds(s))) /\ d.steer \in Seq(Nat)
<1>1. s.told \in Seq(Nat) /\ s.steer \in Seq(Nat) BY DEF Copies
<1>2. /\ Distinct(s.told) /\ Distinct(s.steer) /\ Apart(Elements(s.told), Elements(s.steer)) /\ Distinct(q) /\ Distinct(l)
      /\ Apart(Holds(s), Elements(q)) /\ Apart(Holds(s), Elements(l)) /\ Apart(Elements(q), Elements(l))
      /\ Holds(s) \subseteq Holds(c) /\ Holds(c) \cup Elements(q) \cup Elements(l) \cup lost = 1..n
  BY DEF Messages, Waiting
<1>3. /\ s.steer \o q \in Seq(Nat) /\ Distinct(s.steer \o q) /\ Elements(s.steer \o q) = Elements(s.steer) \cup Elements(q)
      /\ Apart(Elements(s.told), Elements(s.steer \o q))
  BY <1>1, <1>2, QueuedBehind DEF Holds
<1>4. Holds(d) = Holds(s) \cup Elements(q) BY <1>3 DEF Holds
<1>5. Waiting(d, <<>>, l) BY <1>2, <1>3, <1>4, NoMessages DEF Waiting, Apart
<1>6. Holds(d) \cup Elements(<<>>) \cup Elements(l) \cup (lost \cup (Holds(c) \ Holds(s))) = 1..n
  BY <1>2, <1>4, NoMessages
<1>7. Apart(Elements(<<>>), Elements(l)) BY NoMessages DEF Apart
<1> QED BY <1>2, <1>3, <1>5, <1>6, <1>7, NoMessages DEF Messages

\* A crash takes what was in memory and in the copy (_rewind_for_recovery reads the checkpoint).
LEMMA MessagesLost ==
  ASSUME NEW c \in Copies, NEW s \in Copies, NEW q \in Seq(Nat), NEW l \in Seq(Nat), NEW n, NEW lost, Messages(c, s, q, l, n, lost),
         NEW d, d.told = s.told, d.steer = s.steer
  PROVE  Messages(d, d, <<>>, <<>>, n, lost \cup (Holds(c) \ Holds(s)) \cup Elements(q) \cup Elements(l))
<1>1. Holds(d) = Holds(s) BY DEF Holds
<1>2. Waiting(d, <<>>, <<>>) BY <1>1, NoMessages DEF Messages, Waiting, Apart
<1>3. Holds(d) \cup Elements(<<>>) \cup Elements(<<>>) \cup (lost \cup (Holds(c) \ Holds(s)) \cup Elements(q) \cup Elements(l)) = 1..n
  BY <1>1, NoMessages DEF Messages
<1>4. Apart(Elements(<<>>), Elements(<<>>)) BY NoMessages DEF Apart
<1> QED BY <1>2, <1>3, <1>4, NoMessages DEF Messages

\* The messages a drive took out of memory are lost with it.
LEMMA LateLost ==
  ASSUME NEW d, NEW l \in Seq(Nat), NEW n, NEW lost, Messages(d, d, <<>>, l, n, lost)
  PROVE  Messages(d, d, <<>>, <<>>, n, lost \cup Elements(l))
<1>1. Waiting(d, <<>>, <<>>) BY NoMessages DEF Messages, Waiting, Apart
<1>2. Holds(d) \cup Elements(<<>>) \cup Elements(<<>>) \cup (lost \cup Elements(l)) = 1..n BY NoMessages DEF Messages
<1>3. Apart(Elements(<<>>), Elements(<<>>)) BY NoMessages DEF Apart
<1> QED BY <1>1, <1>2, <1>3, NoMessages DEF Messages

\* _deliver_steering: the checkpoint has yet to see what the copy was given.
LEMMA MessagesDelivered ==
  ASSUME NEW s \in Copies, NEW q \in Seq(Nat), NEW l \in Seq(Nat), NEW n, NEW lost, Messages(s, s, q, l, n, lost),
         NEW d, \/ d.told = s.told /\ d.steer = s.steer \o q
                \/ d.told = s.told \o (s.steer \o q) /\ d.steer = <<>>
  PROVE  Messages(d, s, <<>>, l, n, lost) /\ d.told \in Seq(Nat) /\ d.steer \in Seq(Nat)
<1>1. s.told \in Seq(Nat) /\ s.steer \in Seq(Nat) BY DEF Copies
<1>2. /\ Distinct(s.told) /\ Distinct(s.steer) /\ Apart(Elements(s.told), Elements(s.steer)) /\ Distinct(q) /\ Distinct(l)
      /\ Apart(Holds(s), Elements(q)) /\ Apart(Holds(s), Elements(l)) /\ Apart(Elements(q), Elements(l))
      /\ Holds(s) \cup Elements(q) \cup Elements(l) \cup lost = 1..n
  BY DEF Messages, Waiting
<1>3. PICK w : w = s.steer \o q OBVIOUS
<1>4. w \in Seq(Nat) /\ Distinct(w) /\ Elements(w) = Elements(s.steer) \cup Elements(q) /\ Apart(Elements(s.told), Elements(w))
  <2>1. Apart(Elements(s.steer) \cup Elements(s.told), Elements(q)) BY <1>2 DEF Holds
  <2>2. /\ s.steer \o q \in Seq(Nat) /\ Distinct(s.steer \o q) /\ Elements(s.steer \o q) = Elements(s.steer) \cup Elements(q)
        /\ Apart(Elements(s.told), Elements(s.steer \o q))
    BY <1>1, <1>2, <2>1, QueuedBehind
  <2> QED BY <1>3, <2>2
<1>5. s.told \o w \in Seq(Nat) /\ Distinct(s.told \o w) /\ Elements(s.told \o w) = Elements(s.told) \cup Elements(w)
  <2>1. PICK t \in Seq(Nat) : t = s.told BY <1>1
  <2>2. Distinct(t) /\ Apart(Elements(t), Elements(w)) BY <1>2, <1>4, <2>1
  <2>3. Distinct(t \o w) BY <1>4, <2>2, JoinedDistinct
  <2>4. Elements(t \o w) = Elements(t) \cup Elements(w) BY <1>4, JoinedElements
  <2>5. t \o w \in Seq(Nat) BY <1>4
  <2> QED BY <2>1, <2>3, <2>4, <2>5
<1>6. /\ Distinct(d.told) /\ Distinct(d.steer) /\ Apart(Elements(d.told), Elements(d.steer)) /\ d.told \in Seq(Nat) /\ d.steer \in Seq(Nat)
      /\ Holds(d) = Holds(s) \cup Elements(q)
  <2>1. CASE d.told = s.told /\ d.steer = w BY <1>1, <1>2, <1>4, <2>1 DEF Holds
  <2>2. CASE d.told = s.told \o w /\ d.steer = <<>>
    <3>1. Holds(d) = Holds(s) \cup Elements(q) BY <1>4, <1>5, <2>2, NoMessages DEF Holds
    <3> QED BY <1>5, <2>2, <3>1, NoMessages DEF Apart
  <2> QED BY <1>3, <2>1, <2>2
<1>7. Waiting(d, <<>>, l) BY <1>2, <1>6, NoMessages DEF Waiting, Apart
<1>8. Waiting(s, <<>>, l) BY <1>2, NoMessages DEF Waiting, Apart
<1>9. Holds(d) \cup Elements(<<>>) \cup Elements(l) \cup lost = 1..n BY <1>2, <1>6, NoMessages
<1>10. Apart(Elements(<<>>), Elements(l)) BY NoMessages DEF Apart
<1> QED BY <1>2, <1>6, <1>7, <1>8, <1>9, <1>10, NoMessages DEF Messages

\* The end of a drive: taken from memory, then saved (_keep_late_steering).
LEMMA MessagesTaken ==
  ASSUME NEW c, NEW s, NEW q, NEW n, NEW lost, Messages(c, s, q, <<>>, n, lost)
  PROVE  Messages(c, s, <<>>, q, n, lost)
<1>1. Waiting(c, <<>>, q) /\ Waiting(s, <<>>, q) BY NoMessages DEF Messages, Waiting, Apart
<1>2. Apart(Elements(<<>>), Elements(q)) BY NoMessages DEF Apart
<1>3. Holds(c) \cup Elements(<<>>) \cup Elements(q) \cup lost = 1..n BY NoMessages DEF Messages
<1> QED BY <1>1, <1>2, <1>3, NoMessages DEF Messages

\* The messages that came too late are put behind those of the checkpoint.
LEMMA MessagesKept ==
  ASSUME NEW s \in Copies, NEW q \in Seq(Nat), NEW l \in Seq(Nat), NEW n, NEW lost, Messages(s, s, q, l, n, lost),
         NEW d, d.told = s.told, d.steer = s.steer \o l
  PROVE  Messages(d, d, q, <<>>, n, lost) /\ d.steer \in Seq(Nat)
<1>1. s.told \in Seq(Nat) /\ s.steer \in Seq(Nat) BY DEF Copies
<1>2. /\ Distinct(s.told) /\ Distinct(s.steer) /\ Apart(Elements(s.told), Elements(s.steer)) /\ Distinct(q) /\ Distinct(l)
      /\ Apart(Holds(s), Elements(q)) /\ Apart(Holds(s), Elements(l)) /\ Apart(Elements(q), Elements(l))
      /\ Holds(s) \cup Elements(q) \cup Elements(l) \cup lost = 1..n
  BY DEF Messages, Waiting
<1>3. /\ s.steer \o l \in Seq(Nat) /\ Distinct(s.steer \o l) /\ Elements(s.steer \o l) = Elements(s.steer) \cup Elements(l)
      /\ Apart(Elements(s.told), Elements(s.steer \o l))
  BY <1>1, <1>2, QueuedBehind DEF Holds
<1>4. Holds(d) = Holds(s) \cup Elements(l) BY <1>3 DEF Holds
<1>5. Waiting(d, q, <<>>) BY <1>2, <1>3, <1>4, NoMessages DEF Waiting, Apart
<1>6. Holds(d) \cup Elements(q) \cup Elements(<<>>) \cup lost = 1..n BY <1>2, <1>4, NoMessages
<1>7. Apart(Elements(q), Elements(<<>>)) BY NoMessages DEF Apart
<1> QED BY <1>2, <1>3, <1>5, <1>6, <1>7, NoMessages DEF Messages

\* steer: a new message, in memory or in the checkpoint of a paused run.
LEMMA MessageAccepted ==
  ASSUME NEW c, NEW s, NEW q \in Seq(Nat), NEW l, NEW n \in Nat, NEW lost, Messages(c, s, q, l, n, lost)
  PROVE  Messages(c, s, Append(q, n + 1), l, n + 1, lost)
<1>1. 1..(n + 1) = 1..n \cup {n + 1} /\ n + 1 \notin 1..n OBVIOUS
<1>2. n + 1 \notin Holds(c) \cup Elements(q) \cup Elements(l) BY <1>1 DEF Messages
<1>3. Distinct(Append(q, n + 1)) /\ Elements(Append(q, n + 1)) = Elements(q) \cup {n + 1}
  <2>1. PICK x \in Nat : x = n + 1 OBVIOUS
  <2>2. Distinct(q) /\ x \notin Elements(q) BY <1>2, <2>1 DEF Messages
  <2>3. Distinct(Append(q, x)) /\ Elements(Append(q, x)) = Elements(q) \cup {x} BY <2>2, AppendedMessage
  <2> QED BY <2>1, <2>3
<1>4. n + 1 \notin Holds(s) BY <1>2 DEF Messages
<1>5. Waiting(c, Append(q, n + 1), l) /\ Waiting(s, Append(q, n + 1), l)
  BY <1>2, <1>3, <1>4 DEF Messages, Waiting, Apart
<1>6. Apart(Elements(Append(q, n + 1)), Elements(l)) BY <1>2, <1>3 DEF Messages, Apart
<1>7. Holds(c) \cup Elements(Append(q, n + 1)) \cup Elements(l) \cup lost = 1..(n + 1) BY <1>1, <1>3 DEF Messages
<1> QED BY <1>3, <1>5, <1>6, <1>7 DEF Messages

\* A message for a paused run goes into its checkpoint (steer).
LEMMA MessageStored ==
  ASSUME NEW s \in Copies, NEW q, NEW l, NEW n \in Nat, NEW lost, Messages(s, s, q, l, n, lost),
         NEW d, d.told = s.told, d.steer = Append(s.steer, n + 1)
  PROVE  Messages(d, d, q, l, n + 1, lost) /\ d.steer \in Seq(Nat)
<1>0. s.steer \in Seq(Nat) BY DEF Copies
<1>1. 1..(n + 1) = 1..n \cup {n + 1} /\ n + 1 \notin 1..n OBVIOUS
<1>2. n + 1 \notin Holds(s) \cup Elements(q) \cup Elements(l) BY <1>1 DEF Messages
<1>3. d.steer \in Seq(Nat) /\ Distinct(d.steer) /\ Elements(d.steer) = Elements(s.steer) \cup {n + 1}
  <2>1. PICK x \in Nat : x = n + 1 OBVIOUS
  <2>2. PICK w \in Seq(Nat) : w = s.steer BY <1>0
  <2>3. Distinct(w) /\ x \notin Elements(w) BY <1>2, <2>1, <2>2 DEF Messages, Waiting, Holds
  <2>4. Append(w, x) \in Seq(Nat) /\ Distinct(Append(w, x)) /\ Elements(Append(w, x)) = Elements(w) \cup {x}
    BY <2>3, AppendedMessage
  <2> QED BY <2>1, <2>2, <2>4
<1>4. Holds(d) = Holds(s) \cup {n + 1} BY <1>3 DEF Holds
<1>5. Waiting(d, q, l)
  <2>1. Distinct(d.told) BY DEF Messages, Waiting
  <2>2. Apart(Elements(d.told), Elements(d.steer)) BY <1>2, <1>3 DEF Messages, Waiting, Apart, Holds
  <2>3. Apart(Holds(d), Elements(q)) /\ Apart(Holds(d), Elements(l)) BY <1>2, <1>4 DEF Messages, Waiting, Apart
  <2> QED BY <1>3, <2>1, <2>2, <2>3 DEF Waiting
<1>7. Holds(d) \cup Elements(q) \cup Elements(l) \cup lost = 1..(n + 1) BY <1>1, <1>4 DEF Messages
<1> QED BY <1>3, <1>5, <1>7 DEF Messages

-----------------------------------------------------------------------------
(* What a step of a drive leaves as it is.                                 *)

SameCalls(c, d) ==
  /\ d.calls = c.calls /\ d.done = c.done /\ d.approved = c.approved /\ d.counts = c.counts
  /\ d.seen = c.seen /\ d.log = c.log
SameRest(c, d) ==
  /\ d.steps = c.steps /\ d.models = c.models /\ d.extensions = c.extensions /\ d.told = c.told
  /\ d.pausedOn = c.pausedOn /\ d.resume = c.resume /\ d.answer = c.answer

\* A record with the same calls is as sound as the first.
LEMMA SameContent ==
  ASSUME NEW c, NEW d, NEW grants, SameCalls(c, d), Content(c, grants)
  PROVE  Content(d, grants)
<1>1. \A t : RanIds(d, t) = RanIds(c, t) BY DEF RanIds, Ran, SameCalls
<1>2. Paired(d) BY DEF Content, Paired, SameCalls
<1>3. Approved(d, grants) BY <1>1 DEF Content, Approved, SameCalls
<1>4. Remembered(d) BY DEF Content, Remembered, SameCalls
<1>5. Fresh(d) BY DEF Content, Fresh, SameCalls
<1>6. Within(d) BY <1>1 DEF Content, Within, SameCalls
<1> QED BY <1>2, <1>3, <1>4, <1>5, <1>6 DEF Content

\* A batch stays as sound for a record with the same calls.
LEMMA SameBatch ==
  ASSUME NEW c, NEW d, NEW b, NEW grants, SameCalls(c, d), BatchSound(c, b, 0, grants)
  PROVE  BatchSound(d, b, 0, grants)
<1>1. \A t : RanIds(d, t) = RanIds(c, t) BY DEF RanIds, Ran, SameCalls
<1>2. BatchItems(d, b, 0, grants) BY DEF BatchSound, BatchItems, SameCalls
<1>3. BatchLimits(d, b, 0) BY <1>1 DEF BatchSound, BatchLimits, SameCalls
<1> QED BY <1>2, <1>3 DEF BatchSound

\* An empty batch is sound.
LEMMA NoBatch ==
  ASSUME NEW c, NEW grants, Content(c, grants)
  PROVE  BatchSound(c, <<>>, 0, grants) /\ <<>> \in Seq(Items)
<1>1. Left(<<>>, 0) = {} /\ <<>> \in Seq(Items) BY DEF Left
<1>2. \A t : LeftIds(<<>>, 0, t) = {} BY <1>1 DEF LeftIds
<1>3. \A t : RanIds(c, t) \cup LeftIds(<<>>, 0, t) = RanIds(c, t) BY <1>2
<1>4. BatchLimits(c, <<>>, 0) BY <1>3 DEF BatchLimits, Content, Within
<1>5. BatchItems(c, <<>>, 0, grants) BY <1>1 DEF BatchItems
<1> QED BY <1>1, <1>4, <1>5 DEF BatchSound

\* The limits of a run (settings and the extensions it was given).
LEMMA LimitTypes ==
  ASSUME NEW c \in Copies
  PROVE  StepLimit(c) \in Nat /\ ModelCallLimit(c) \in Nat /\ c.steps \in Nat /\ c.models \in Nat /\ c.extensions \in Nat
<1>1. PICK x : x = c.extensions OBVIOUS
<1>2. x \in Nat /\ StepIncrement \in Nat /\ MaxSteps \in Nat /\ MaxModelCalls \in Nat
  BY <1>1, LoopAssumption DEF Copies, Extensions
<1>3. x * StepIncrement \in Nat BY <1>2
<1>4. c.steps \in Nat /\ c.models \in Nat BY DEF Copies
<1> QED BY <1>1, <1>2, <1>3, <1>4 DEF StepLimit, ModelCallLimit

\* The limits depend on the extensions alone (_step_limit).
LEMMA SameLimits ==
  ASSUME NEW c, NEW d, d.extensions = c.extensions
  PROVE  StepLimit(d) = StepLimit(c) /\ ModelCallLimit(d) = ModelCallLimit(c)
BY DEF StepLimit, ModelCallLimit

\* One more extension leaves room for what was used (_continue_or_pause).
LEMMA ExtendedLimits ==
  ASSUME NEW c \in Copies, NEW d, d.extensions = c.extensions + 1, d.steps = c.steps, d.models = c.models, BaseBudget(c)
  PROVE  BaseBudget(d)
<1>1. PICK x : x = c.extensions OBVIOUS
<1>2. x \in Nat /\ StepIncrement \in Nat /\ MaxSteps \in Nat /\ MaxModelCalls \in Nat
  BY <1>1, LoopAssumption DEF Copies, Extensions
<1>3. x * StepIncrement \in Nat /\ (x + 1) * StepIncrement = x * StepIncrement + StepIncrement BY <1>2
<1>4. StepLimit(d) = StepLimit(c) + StepIncrement /\ ModelCallLimit(d) = ModelCallLimit(c) + StepIncrement
  BY <1>1, <1>2, <1>3 DEF StepLimit, ModelCallLimit
<1>5. MaxAttempts \in Nat BY LoopAssumption
<1> QED BY <1>2, <1>4, <1>5, LimitTypes DEF BaseBudget
\* Between the calls of the model only the limit of the run counts.
LEMMA SameBudget ==
  ASSUME NEW c, NEW d, d.steps = c.steps, d.models = c.models, d.extensions = c.extensions, BaseBudget(c)
  PROVE  BaseBudget(d)
BY SameLimits DEF BaseBudget

\* Outside a model call nothing is owed to its retries (_model_with_retry).
LEMMA NoModelCall ==
  ASSUME NEW c, NEW tried, c.status \notin {"invoking_model", "retrying"}
  PROVE  StepBudget(c, tried)
BY DEF StepBudget

\* A checkpoint of the copy holds its messages.
LEMMA MessagesCopied ==
  ASSUME NEW c, NEW s, NEW q, NEW l, NEW n, NEW lost, Messages(c, s, q, l, n, lost)
  PROVE  Messages(c, c, q, l, n, lost)
BY DEF Messages

\* A record with another status and more steering.
RestatedAs(c, d, to, steer) ==
  d \in Copies /\ d.status = to /\ d.steer = steer /\ SameCalls(c, d) /\ SameRest(c, d)

\* The record after a change of status, with the steering of memory put behind.
LEMMA Restated ==
  ASSUME NEW c \in Copies, NEW to \in Statuses, NEW steer \in Seq(Nat), NEW d,
         d = [c EXCEPT !.status = to, !.steer = steer]
  PROVE  RestatedAs(c, d, to, steer)
<1>1. d \in Copies BY DEF Copies
<1>2. d.status = to /\ d.steer = steer BY DEF Copies
<1>3. SameCalls(c, d) BY DEF Copies, SameCalls
<1>4. SameRest(c, d) BY DEF Copies, SameRest
<1> QED BY <1>1, <1>2, <1>3, <1>4 DEF RestatedAs

\* _transition: the copy and the steering of memory are saved.
Moved(c, to) ==
  /\ copy' \in Copies /\ saved' = copy' /\ copy'.status = to /\ SameRest(c, copy') /\ SameCalls(c, copy')
  /\ inbox' = <<>> /\ Steered'

\* What _transition leaves.
LEMMA Transition ==
  ASSUME LoopTypes, Steered, NEW c \in Copies, c.told = copy.told, c.steer = copy.steer, NEW to \in Statuses,
         LoopTransition(c, to), late' = late, cut' = cut, accepted' = accepted
  PROVE  Moved(c, to)
<1>1. PICK kept : kept = [c EXCEPT !.status = to, !.steer = c.steer \o inbox] OBVIOUS
<1>2. copy' = kept /\ saved' = kept /\ inbox' = <<>> BY <1>1 DEF LoopTransition
<1>3. c.steer \in Seq(Nat) /\ inbox \in Seq(Nat) /\ late \in Seq(Nat) /\ copy \in Copies BY DEF Copies, LoopTypes
<1>4. PICK steer \in Seq(Nat) : steer = c.steer \o inbox
  <2>1. PICK u \in Seq(Nat), w \in Seq(Nat) : u = c.steer /\ w = inbox BY <1>3
  <2>2. u \o w \in Seq(Nat) OBVIOUS
  <2> QED BY <2>1, <2>2
<1>5. kept = [c EXCEPT !.status = to, !.steer = steer] BY <1>1, <1>4, Zenon
<1>6. kept \in Copies /\ kept.status = to /\ kept.steer = steer /\ SameCalls(c, kept) /\ SameRest(c, kept)
  <2>1. RestatedAs(c, kept, to, steer) BY <1>5, Restated
  <2> QED BY <2>1 DEF RestatedAs
<1>7. Messages(copy, copy, inbox, late, accepted, cut)
  <2>1. Messages(copy, saved, inbox, late, accepted, cut) BY DEF Steered
  <2> QED BY <2>1, MessagesCopied
<1>8. kept.told = copy.told /\ kept.steer = copy.steer \o inbox BY <1>4, <1>6 DEF SameRest
<1>9. Messages(kept, kept, <<>>, late, accepted, cut \cup (Holds(copy) \ Holds(copy)))
  BY ONLY <1>3, <1>7, <1>8, MessagesSaved
<1>10. cut \cup (Holds(copy) \ Holds(copy)) = cut OBVIOUS
<1>11. Messages(kept, kept, <<>>, late, accepted, cut) BY <1>9, <1>10
<1>12. Steered' BY <1>2, <1>11 DEF Steered
<1> QED BY <1>2, <1>6, <1>12 DEF Moved

-----------------------------------------------------------------------------
(* Each step keeps the invariant.                                          *)

\* A checkpoint that waits and was told as the copy accounts for the same messages.
LEMMA SameMessages ==
  ASSUME NEW c, NEW s, NEW d, NEW q, NEW l, NEW n, NEW lost, Messages(c, s, q, l, n, lost), d.told = c.told, d.steer = c.steer
  PROVE  Messages(d, d, q, l, n, lost)
<1>1. Holds(d) = Holds(c) BY DEF Holds
<1>2. Waiting(d, q, l) BY <1>1 DEF Messages, Waiting
<1> QED BY <1>1, <1>2 DEF Messages

\* What a drive has come to after a transition.
LEMMA DriveMoves ==
  ASSUME LoopInv, driving, place \in {"top", "plan"}, NEW c \in Copies, NEW to \in Statuses, Moved(c, to),
         Content(c, granted), BaseBudget(c), produced' = c.models, Asked(copy'), StepBudget(copy', attempt'),
         attempt' \in 0..MaxAttempts, batch' \in Seq(Items), BatchSound(c, batch', 0, granted),
         to # "invoking_tool" => batch' = <<>>, to \in {"invoking_model", "retrying"} => c.calls = <<>>,
         place' \in {"top", "end"}, to \in Working => place' = "top", driving' = driving,
         UNCHANGED <<late, accepted, cut, granted, crashes>>
  PROVE  LoopInv'
<1>1. /\ copy' \in Copies /\ saved' = copy' /\ copy'.status = to /\ SameRest(c, copy') /\ SameCalls(c, copy')
      /\ inbox' = <<>> /\ Steered'
  BY DEF Moved
<1>2. late' = late /\ accepted' = accepted /\ cut' = cut /\ granted' = granted /\ crashes' = crashes
  OBVIOUS
<1>3. PICK d : d = copy' OBVIOUS
<1>4. PICK b : b = batch' OBVIOUS
<1>5. Content(d, granted) /\ BatchSound(d, b, 0, granted)
  BY <1>1, <1>3, <1>4, SameContent, SameBatch
<1>6. BaseBudget(d) BY <1>1, <1>3, SameBudget DEF SameRest
<1>7. produced' = d.models /\ produced' \in Nat
  BY <1>1, <1>3 DEF SameRest, Copies
<1>8. LoopTypes'
  BY <1>1, <1>2, <1>7, NoMessages, LoopAssumption DEF LoopInv, LoopTypes
<1>9. Checkpointed'
  <2>1. copy' = [copy' EXCEPT !.steer = copy'.steer, !.told = copy'.told] BY <1>1 DEF Copies
  <2> QED BY <1>1, <2>1 DEF Checkpointed
<1>10. Placed'
  <2>1. late = <<>> BY DEF LoopInv, Placed
  <2>2. copy'.calls = c.calls BY <1>1 DEF SameCalls
  <2> QED BY <1>1, <1>2, <2>1, <2>2 DEF Placed, Working
<1>11. Budgeted' BY <1>1, <1>3, <1>6, <1>7 DEF Budgeted, Charged
<1>12. Content(copy', granted') /\ Asked(copy') /\ BatchSound(copy', batch', 0, granted')
  BY <1>2, <1>3, <1>4, <1>5
<1> QED BY <1>1, <1>8, <1>9, <1>10, <1>11, <1>12 DEF LoopInv

\* What is known of a drive between two steps.
DriveFacts ==
  /\ copy \in Copies /\ Content(copy, granted) /\ BaseBudget(copy) /\ late = <<>>
  /\ produced = copy.models /\ attempt \in 0..MaxAttempts /\ LoopTypes /\ Steered
  /\ place \in {"top", "plan"} /\ (copy.status # "invoking_tool" => batch = <<>>)
  /\ BatchSound(copy, batch, 0, granted) /\ batch \in Seq(Items)

\* Inside a drive, up to its end.
LEMMA Driving ==
  ASSUME LoopInv, driving, place \in {"top", "plan"}, copy.status # "failed"
  PROVE  DriveFacts
<1>1. copy \in Copies /\ attempt \in 0..MaxAttempts /\ batch \in Seq(Items) BY DEF LoopInv, LoopTypes
<1>2. Content(copy, granted) /\ BatchSound(copy, batch, 0, granted) /\ LoopTypes /\ Steered BY DEF LoopInv
<1>3. BaseBudget(copy) BY DEF LoopInv, Budgeted
<1>4. late = <<>> /\ (copy.status # "invoking_tool" => batch = <<>>) BY DEF LoopInv, Placed
<1>5. produced = copy.models
  <2>1. saved.models = copy.models /\ saved.status = copy.status
    <3>1. PICK s, u : s = saved.steer /\ u = saved.told OBVIOUS
    <3>2. saved = [copy EXCEPT !.steer = s, !.told = u] BY <3>1 DEF LoopInv, Checkpointed
    <3> QED BY <1>1, <3>2 DEF Copies
  <2>2. Charged(saved, produced) BY DEF LoopInv, Budgeted
  <2> QED BY <2>1, <2>2 DEF Charged
<1> QED BY <1>1, <1>2, <1>3, <1>4, <1>5 DEF DriveFacts

\* _transition to a status between the steps, with a copy whose calls are as they were.
LEMMA BuildContextKeeps ==
  ASSUME LoopInv, BuildContext
  PROVE  LoopInv'
<1>1. /\ driving /\ place = "top" /\ copy.status = "building_context" /\ LoopTransition(copy, "planning")
      /\ driving' = driving /\ place' = place /\ attempt' = attempt /\ batch' = batch /\ late' = late /\ accepted' = accepted
      /\ cut' = cut /\ granted' = granted /\ produced' = produced /\ crashes' = crashes
  BY DEF BuildContext, Drives
<1>2. DriveFacts BY <1>1, Driving
<1>3. copy \in Copies /\ LoopTypes /\ Steered BY <1>2 DEF DriveFacts
<1>4. "planning" \in Statuses BY DEF Statuses
<1>5. Moved(copy, "planning") BY <1>1, <1>3, <1>4, Transition
<1>6. copy'.status = "planning" BY <1>5 DEF Moved
<1>7. Asked(copy') BY <1>6 DEF Asked
<1>8. StepBudget(copy', attempt') BY <1>6, NoModelCall
<1>9. batch' = <<>> /\ batch' \in Seq(Items) /\ BatchSound(copy, batch', 0, granted)
  BY <1>1, <1>2 DEF DriveFacts
<1>10. Content(copy, granted) /\ BaseBudget(copy) /\ produced' = copy.models /\ attempt' \in 0..MaxAttempts
  BY <1>1, <1>2 DEF DriveFacts
<1>11. place' \in {"top", "end"} /\ place \in {"top", "plan"} BY <1>1
<1> QED BY <1>1, <1>3, <1>4, <1>5, <1>7, <1>8, <1>9, <1>10, <1>11, DriveMoves DEF Working

\* _continue_or_pause.
LEMMA ExtendOrAskKeeps ==
  ASSUME LoopInv, ExtendOrAsk
  PROVE  LoopInv'
<1>1. /\ driving /\ place = "top" /\ copy.status \in {"building_context", "planning"}
      /\ driving' = driving /\ attempt' = attempt /\ batch' = batch /\ late' = late /\ accepted' = accepted
      /\ cut' = cut /\ granted' = granted /\ produced' = produced /\ crashes' = crashes
  BY DEF ExtendOrAsk, Drives
<1>2. DriveFacts BY <1>1, Driving
<1>3. copy \in Copies /\ LoopTypes /\ Steered /\ batch = <<>> /\ Content(copy, granted) /\ BaseBudget(copy)
      /\ BatchSound(copy, batch, 0, granted)
  BY <1>1, <1>2 DEF DriveFacts
<1>4. CASE /\ copy.extensions < AutoExtensions /\ copy' = [copy EXCEPT !.extensions = @ + 1] /\ saved' = copy'
           /\ inbox' = inbox /\ place' = place
  <2>1. PICK d : d = copy' OBVIOUS
  <2>2. PICK x : x = copy.extensions + 1 OBVIOUS
  <2>3. x \in Extensions
    <3>1. copy.extensions \in 0..(AutoExtensions + MaxExtensions) BY <1>3 DEF Copies, Extensions
    <3> QED BY <1>4, <2>2, <3>1, LoopAssumption DEF Extensions
  <2>4. d = [copy EXCEPT !.extensions = x] BY <1>4, <2>1, <2>2
  <2>5. d \in Copies BY <1>3, <2>3, <2>4 DEF Copies
  <2>6. /\ d.extensions = x /\ d.status = copy.status /\ d.steps = copy.steps /\ d.models = copy.models
        /\ d.told = copy.told /\ d.steer = copy.steer
    BY <1>3, <2>4 DEF Copies
  <2>7. SameCalls(copy, d) BY <1>3, <2>4 DEF Copies, SameCalls
  <2>8. Content(d, granted) /\ BatchSound(d, batch, 0, granted) BY <1>3, <2>7, SameContent, SameBatch
  <2>9. BaseBudget(d) BY <1>3, <2>2, <2>6, ExtendedLimits
  <2>10. StepBudget(d, attempt) BY <1>1, <2>6, NoModelCall
  <2>11. Messages(d, d, inbox, late, accepted, cut)
    <3>1. Messages(copy, saved, inbox, late, accepted, cut) BY <1>3 DEF Steered
    <3> QED BY <2>6, <3>1, SameMessages
  <2>12. Steered' BY <1>1, <1>4, <2>1, <2>11 DEF Steered
  <2>13. LoopTypes' BY <1>1, <1>3, <1>4, <2>1, <2>5 DEF LoopTypes
  <2>14. Checkpointed'
    <3>1. copy' = [copy' EXCEPT !.steer = copy'.steer, !.told = copy'.told] BY <2>1, <2>5 DEF Copies
    <3> QED BY <1>4, <3>1 DEF Checkpointed
  <2>15. Placed' BY <1>1, <1>2, <1>3, <1>4, <2>1, <2>6 DEF Placed, Working, DriveFacts
  <2>16. Budgeted'
    <3>1. produced = d.models BY <1>2, <2>6 DEF DriveFacts
    <3> QED BY <1>1, <1>4, <2>1, <2>9, <2>10, <3>1 DEF Budgeted, Charged
  <2>17. Asked(d) BY <1>1, <2>6 DEF Asked
  <2>18. Content(copy', granted') /\ Asked(copy') /\ BatchSound(copy', batch', 0, granted')
    BY <1>1, <2>1, <2>8, <2>17
  <2> QED BY <2>12, <2>13, <2>14, <2>15, <2>16, <2>18 DEF LoopInv
<1>5. CASE LoopTransition([copy EXCEPT !.pausedOn = 0, !.resume = copy.status], "awaiting_approval") /\ place' = "end"
  <2>1. PICK c : c = [copy EXCEPT !.pausedOn = 0, !.resume = copy.status] OBVIOUS
  <2>2. c \in Copies
    <3>1. PICK r : r = copy.status OBVIOUS
    <3>2. r \in {"building_context", "planning"} /\ c = [copy EXCEPT !.pausedOn = 0, !.resume = r] BY <1>1, <2>1, <3>1
    <3>3. 0 \in 0..MaxCallId BY LoopAssumption
    <3>4. copy \in Copies BY <1>3
    <3> QED BY ONLY <3>2, <3>3, <3>4 DEF Copies
  <2>3. /\ c.told = copy.told /\ c.steer = copy.steer /\ c.steps = copy.steps /\ c.models = copy.models
        /\ c.extensions = copy.extensions /\ c.pausedOn = 0
    BY <1>3, <2>1 DEF Copies
  <2>4. SameCalls(copy, c) BY <1>3, <2>1 DEF Copies, SameCalls
  <2>5. "awaiting_approval" \in Statuses BY DEF Statuses, LoopPaused
  <2>6. LoopTransition(c, "awaiting_approval") BY <1>5, <2>1
  <2>7. Moved(c, "awaiting_approval") BY <1>1, <1>3, <2>2, <2>3, <2>5, <2>6, Transition
  <2>8. copy'.status = "awaiting_approval" /\ copy'.pausedOn = 0 BY <2>3, <2>7 DEF Moved, SameRest
  <2>9. Asked(copy') BY <2>8 DEF Asked
  <2>10. StepBudget(copy', attempt') BY <2>8, NoModelCall
  <2>11. Content(c, granted) /\ BatchSound(c, batch, 0, granted) BY <1>3, <2>4, SameContent, SameBatch
  <2>12. BaseBudget(c) BY <1>3, <2>3, SameBudget
  <2>13. produced' = c.models /\ attempt' \in 0..MaxAttempts /\ batch' \in Seq(Items) /\ batch' = <<>>
         /\ BatchSound(c, batch', 0, granted)
    BY <1>1, <1>2, <1>3, <2>3, <2>11 DEF DriveFacts
  <2>14. place' \in {"top", "end"} /\ place \in {"top", "plan"} BY <1>1, <1>5
  <2> QED BY <1>1, <2>2, <2>5, <2>7, <2>9, <2>10, <2>11, <2>12, <2>13, <2>14, DriveMoves DEF Working
<1> QED BY <1>4, <1>5 DEF ExtendOrAsk

\* Where the drive plans, the limits leave room for a step.
LEMMA Planning ==
  ASSUME LoopInv, place = "plan"
  PROVE  /\ driving /\ copy.status = "planning" /\ copy.steps < StepLimit(copy) /\ copy.models < ModelCallLimit(copy)
         /\ DriveFacts
<1>1. driving /\ copy.status = "planning" /\ ~LimitReason(copy) BY DEF LoopInv, Placed
<1>2. DriveFacts BY <1>1, Driving
<1>3. copy \in Copies BY <1>2 DEF DriveFacts
<1> QED BY <1>1, <1>2, <1>3, LimitTypes DEF LimitReason

\* _execute_model begins.
LEMMA InvokeModelKeeps ==
  ASSUME LoopInv, InvokeModel
  PROVE  LoopInv'
<1>1. /\ driving /\ place = "plan" /\ copy.calls = <<>> /\ LoopTransition([copy EXCEPT !.steps = @ + 1], "invoking_model")
      /\ attempt' = 1 /\ place' = "top"
      /\ driving' = driving /\ batch' = batch /\ late' = late /\ accepted' = accepted
      /\ cut' = cut /\ granted' = granted /\ produced' = produced /\ crashes' = crashes
  BY DEF InvokeModel, Drives
<1>2. /\ copy.status = "planning" /\ copy.steps < StepLimit(copy) /\ copy.models < ModelCallLimit(copy) /\ DriveFacts
  BY <1>1, Planning
<1>3. copy \in Copies /\ LoopTypes /\ Steered /\ batch = <<>> /\ Content(copy, granted) /\ BaseBudget(copy)
      /\ BatchSound(copy, batch, 0, granted)
  BY <1>2 DEF DriveFacts
<1>4. PICK c : c = [copy EXCEPT !.steps = copy.steps + 1] OBVIOUS
<1>5. c \in Copies
  <2>1. copy.steps + 1 \in Nat BY <1>3 DEF Copies
  <2> QED BY <1>3, <1>4, <2>1 DEF Copies
<1>6. /\ c.told = copy.told /\ c.steer = copy.steer /\ c.steps = copy.steps + 1 /\ c.models = copy.models
      /\ c.extensions = copy.extensions
  BY <1>3, <1>4 DEF Copies
<1>7. SameCalls(copy, c) BY <1>3, <1>4 DEF Copies, SameCalls
<1>8. "invoking_model" \in Statuses BY DEF Statuses, Working
<1>9. LoopTransition(c, "invoking_model") BY <1>1, <1>4
<1>10. Moved(c, "invoking_model") BY <1>1, <1>3, <1>5, <1>6, <1>8, <1>9, Transition
<1>11. copy'.status = "invoking_model" /\ copy'.models = c.models /\ copy'.extensions = c.extensions
  BY <1>10 DEF Moved, SameRest
<1>12. Asked(copy') BY <1>11 DEF Asked
<1>13. BaseBudget(c) /\ c.models + 1 <= ModelCallLimit(c)
  <2>1. StepLimit(c) = StepLimit(copy) /\ ModelCallLimit(c) = ModelCallLimit(copy) BY <1>6, SameLimits
  <2>2. StepLimit(copy) \in Nat /\ ModelCallLimit(copy) \in Nat /\ copy.steps \in Nat /\ copy.models \in Nat BY <1>3, LimitTypes
  <2> QED BY <1>2, <1>3, <1>6, <2>1, <2>2 DEF BaseBudget
<1>14. StepBudget(copy', attempt')
  <2>1. ModelCallLimit(copy') = ModelCallLimit(c) BY <1>11, SameLimits
  <2>2. ModelCallLimit(c) \in Nat BY <1>5, LimitTypes
  <2> QED BY <1>1, <1>11, <1>13, <2>1, <2>2 DEF StepBudget
<1>15. Content(c, granted) /\ BatchSound(c, batch, 0, granted) BY <1>3, <1>7, SameContent, SameBatch
<1>16. produced' = c.models /\ batch' \in Seq(Items) /\ batch' = <<>> /\ BatchSound(c, batch', 0, granted)
  BY <1>1, <1>2, <1>3, <1>6, <1>15 DEF DriveFacts
<1>17. attempt' \in 0..MaxAttempts BY <1>1, LoopAssumption
<1>18. c.calls = <<>> BY <1>1, <1>7 DEF SameCalls
<1> QED BY <1>1, <1>5, <1>8, <1>10, <1>12, <1>13, <1>14, <1>15, <1>16, <1>17, <1>18, DriveMoves DEF Working

\* Verification passed and the run completes.
LEMMA CompleteRunKeeps ==
  ASSUME LoopInv, CompleteRun
  PROVE  LoopInv'
<1>1. /\ driving /\ place = "plan" /\ LoopTransition([copy EXCEPT !.steps = @ + 1], "completed") /\ place' = "end"
      /\ driving' = driving /\ attempt' = attempt /\ batch' = batch /\ late' = late /\ accepted' = accepted
      /\ cut' = cut /\ granted' = granted /\ produced' = produced /\ crashes' = crashes
  BY DEF CompleteRun, Drives
<1>2. /\ copy.status = "planning" /\ copy.steps < StepLimit(copy) /\ DriveFacts
  BY <1>1, Planning
<1>3. copy \in Copies /\ LoopTypes /\ Steered /\ batch = <<>> /\ Content(copy, granted) /\ BaseBudget(copy)
      /\ BatchSound(copy, batch, 0, granted)
  BY <1>2 DEF DriveFacts
<1>4. PICK c : c = [copy EXCEPT !.steps = copy.steps + 1] OBVIOUS
<1>5. c \in Copies
  <2>1. copy.steps + 1 \in Nat BY <1>3 DEF Copies
  <2> QED BY <1>3, <1>4, <2>1 DEF Copies
<1>6. /\ c.told = copy.told /\ c.steer = copy.steer /\ c.steps = copy.steps + 1 /\ c.models = copy.models
      /\ c.extensions = copy.extensions
  BY <1>3, <1>4 DEF Copies
<1>7. SameCalls(copy, c) BY <1>3, <1>4 DEF Copies, SameCalls
<1>8. "completed" \in Statuses BY DEF Statuses, LoopEnded
<1>9. LoopTransition(c, "completed") BY <1>1, <1>4
<1>10. Moved(c, "completed") BY <1>1, <1>3, <1>5, <1>6, <1>8, <1>9, Transition
<1>11. copy'.status = "completed" BY <1>10 DEF Moved
<1>12. Asked(copy') BY <1>11 DEF Asked
<1>13. BaseBudget(c)
  <2>1. StepLimit(c) = StepLimit(copy) /\ ModelCallLimit(c) = ModelCallLimit(copy) BY <1>6, SameLimits
  <2>2. StepLimit(copy) \in Nat /\ copy.steps \in Nat BY <1>3, LimitTypes
  <2> QED BY <1>2, <1>3, <1>6, <2>1, <2>2 DEF BaseBudget
<1>14. StepBudget(copy', attempt') BY <1>11, NoModelCall
<1>15. Content(c, granted) /\ BatchSound(c, batch, 0, granted) BY <1>3, <1>7, SameContent, SameBatch
<1>16. /\ produced' = c.models /\ batch' \in Seq(Items) /\ batch' = <<>> /\ BatchSound(c, batch', 0, granted)
       /\ attempt' \in 0..MaxAttempts
  BY <1>1, <1>2, <1>3, <1>6, <1>15 DEF DriveFacts
<1>17. place' \in {"top", "end"} /\ place \in {"top", "plan"} BY <1>1
<1> QED BY <1>1, <1>5, <1>8, <1>10, <1>12, <1>13, <1>14, <1>15, <1>16, <1>17, DriveMoves DEF Working

\* A reply of the model takes the place of the calls that were answered.
LEMMA NewCalls ==
  ASSUME NEW c \in Copies, c.calls = <<>>, NEW grants, Content(c, grants), NEW d, d.calls \in Seq(Calls),
         d.done = c.done, d.approved = c.approved, d.counts = c.counts, d.seen = c.seen, d.log = c.log,
         \A i \in DOMAIN d.calls : d.calls[i].id \notin c.done,
         \A i, j \in DOMAIN d.calls : d.calls[i].id = d.calls[j].id => i = j
  PROVE  Content(d, grants)
<1>1. \A t : RanIds(d, t) = RanIds(c, t) BY DEF RanIds, Ran
<1>2. Paired(d) BY DEF Content, Paired
<1>3. c.approved \subseteq c.done
  <2>1. DOMAIN c.calls = {} OBVIOUS
  <2> QED BY <2>1 DEF Content, Approved
<1>4. Approved(d, grants) BY <1>3 DEF Approved
<1>5. Remembered(d) /\ Fresh(d) BY DEF Content, Remembered, Fresh
<1>6. Within(d) BY <1>1 DEF Content, Within
<1> QED BY <1>2, <1>4, <1>5, <1>6 DEF Content

\* A call of the model goes on: what its record says of the step.
LEMMA Invoking ==
  ASSUME LoopInv, driving, copy.status \in {"invoking_model", "retrying"}
  PROVE  /\ place = "top" /\ copy.calls = <<>> /\ batch = <<>> /\ DriveFacts
         /\ copy.status = "invoking_model" => copy.models + 1 <= ModelCallLimit(copy) + attempt - 1
         /\ copy.status = "retrying" => copy.models <= ModelCallLimit(copy) + attempt - 1 /\ attempt < MaxAttempts
<1>1. place = "top" /\ copy.calls = <<>> /\ batch = <<>> BY DEF LoopInv, Placed, Working
<1>2. DriveFacts BY <1>1, Driving
<1>3. StepBudget(copy, attempt) BY DEF LoopInv, Budgeted
<1> QED BY <1>1, <1>2, <1>3 DEF StepBudget

\* _execute_model ends with a completed reply.
LEMMA ModelRepliesKeeps ==
  ASSUME LoopInv, ModelReplies
  PROVE  LoopInv'
<1>1. /\ driving /\ copy.status = "invoking_model" /\ \A r \in Replies : Len(r) < Cardinality(CallIds \ copy.done)
      /\ driving' = driving /\ place' = place /\ attempt' = attempt /\ batch' = batch /\ late' = late /\ accepted' = accepted
      /\ cut' = cut /\ granted' = granted /\ produced' = produced + 1 /\ crashes' = crashes
  BY DEF ModelReplies
<1>2. PICK reply \in Replies, text \in BOOLEAN, id \in ModelIds(copy) :
        LoopTransition([copy EXCEPT !.models = @ + 1, !.answer = text, !.calls = FreshIds(copy, CallsOfReply(reply, id))], "planning")
  BY DEF ModelReplies
<1>3. /\ place = "top" /\ copy.calls = <<>> /\ batch = <<>> /\ DriveFacts
      /\ copy.models + 1 <= ModelCallLimit(copy) + attempt - 1
  BY <1>1, Invoking
<1>4. copy \in Copies /\ LoopTypes /\ Steered /\ Content(copy, granted) /\ BaseBudget(copy) /\ attempt \in 0..MaxAttempts
      /\ produced = copy.models
  BY <1>3 DEF DriveFacts
<1>5. PICK calls : calls = FreshIds(copy, CallsOfReply(reply, id)) OBVIOUS
<1>6. /\ calls \in Seq(Calls) /\ \A i \in DOMAIN calls : calls[i].id \notin copy.done
      /\ \A i, j \in DOMAIN calls : calls[i].id = calls[j].id => i = j
  BY <1>1, <1>4, <1>5, FreshCalls
<1>7. PICK c : c = [copy EXCEPT !.models = copy.models + 1, !.answer = text, !.calls = calls] OBVIOUS
<1>8. c \in Copies
  <2>1. copy.models + 1 \in Nat BY <1>4 DEF Copies
  <2> QED BY <1>4, <1>6, <1>7, <2>1 DEF Copies
<1>9. /\ c.told = copy.told /\ c.steer = copy.steer /\ c.steps = copy.steps /\ c.models = copy.models + 1
      /\ c.extensions = copy.extensions
  BY <1>4, <1>7 DEF Copies
<1>10. /\ c.calls = calls /\ c.done = copy.done /\ c.approved = copy.approved /\ c.counts = copy.counts
       /\ c.seen = copy.seen /\ c.log = copy.log
  BY <1>4, <1>7 DEF Copies
<1>11. Content(c, granted) /\ BatchSound(c, <<>>, 0, granted) /\ <<>> \in Seq(Items)
  BY <1>3, <1>4, <1>6, <1>10, NewCalls, NoBatch
<1>12. "planning" \in Statuses BY DEF Statuses
<1>13. LoopTransition(c, "planning") BY <1>2, <1>5, <1>7
<1>14. Moved(c, "planning") BY <1>1, <1>4, <1>8, <1>9, <1>12, <1>13, Transition
<1>15. copy'.status = "planning" BY <1>14 DEF Moved
<1>16. Asked(copy') BY <1>15 DEF Asked
<1>17. StepBudget(copy', attempt') BY <1>15, NoModelCall
<1>18. BaseBudget(c)
  <2>1. StepLimit(c) = StepLimit(copy) /\ ModelCallLimit(c) = ModelCallLimit(copy) BY <1>9, SameLimits
  <2>2. ModelCallLimit(copy) \in Nat /\ copy.models \in Nat BY <1>4, LimitTypes
  <2>3. MaxAttempts \in Nat BY LoopAssumption
  <2> QED BY <1>3, <1>4, <1>9, <2>1, <2>2, <2>3 DEF BaseBudget
<1>19. produced' = c.models /\ batch' \in Seq(Items) /\ batch' = <<>> /\ BatchSound(c, batch', 0, granted) /\ attempt' \in 0..MaxAttempts
  BY <1>1, <1>3, <1>4, <1>9, <1>11
<1>20. place' \in {"top", "end"} /\ place \in {"top", "plan"} BY <1>1, <1>3
<1> QED BY <1>1, <1>8, <1>11, <1>12, <1>14, <1>16, <1>17, <1>18, <1>19, <1>20, DriveMoves DEF Working

\* _model_with_retry tries again.
LEMMA InvokeAgainKeeps ==
  ASSUME LoopInv, InvokeAgain
  PROVE  LoopInv'
<1>1. /\ driving /\ copy.status = "retrying" /\ LoopTransition(copy, "invoking_model") /\ attempt' = attempt + 1
      /\ driving' = driving /\ place' = place /\ batch' = batch /\ late' = late /\ accepted' = accepted
      /\ cut' = cut /\ granted' = granted /\ produced' = produced /\ crashes' = crashes
  BY DEF InvokeAgain
<1>2. /\ place = "top" /\ copy.calls = <<>> /\ batch = <<>> /\ DriveFacts
      /\ copy.models <= ModelCallLimit(copy) + attempt - 1 /\ attempt < MaxAttempts
  BY <1>1, Invoking
<1>3. copy \in Copies /\ LoopTypes /\ Steered /\ Content(copy, granted) /\ BaseBudget(copy) /\ attempt \in 0..MaxAttempts
      /\ produced = copy.models /\ BatchSound(copy, batch, 0, granted) /\ batch \in Seq(Items)
  BY <1>2 DEF DriveFacts
<1>4. "invoking_model" \in Statuses BY DEF Statuses, Working
<1>5. Moved(copy, "invoking_model") BY <1>1, <1>3, <1>4, Transition
<1>6. copy'.status = "invoking_model" /\ copy'.models = copy.models /\ copy'.extensions = copy.extensions
  BY <1>5 DEF Moved, SameRest
<1>7. Asked(copy') BY <1>6 DEF Asked
<1>8. StepBudget(copy', attempt')
  <2>1. ModelCallLimit(copy') = ModelCallLimit(copy) BY <1>6, SameLimits
  <2>2. ModelCallLimit(copy) \in Nat /\ copy.models \in Nat BY <1>3, LimitTypes
  <2> QED BY <1>1, <1>2, <1>3, <1>6, <2>1, <2>2 DEF StepBudget
<1>9. attempt' \in 0..MaxAttempts BY <1>1, <1>2, <1>3, LoopAssumption
<1>10. place' \in {"top", "end"} /\ place \in {"top", "plan"} /\ place' = "top" BY <1>1, <1>2
<1>11. produced' = copy.models /\ batch' = <<>> /\ batch' \in Seq(Items) /\ BatchSound(copy, batch', 0, granted) BY <1>1, <1>2, <1>3
<1> QED BY <1>1, <1>2, <1>3, <1>4, <1>5, <1>7, <1>8, <1>9, <1>10, <1>11, DriveMoves DEF Working

\* The checkpoint has what the copy has, but for steering.
CheckpointFacts ==
  /\ saved \in Copies /\ SameCalls(copy, saved) /\ saved.status = copy.status /\ saved.steps = copy.steps
  /\ saved.models = copy.models /\ saved.extensions = copy.extensions /\ saved.pausedOn = copy.pausedOn
  /\ Content(saved, granted) /\ BaseBudget(saved) /\ Asked(saved) /\ Charged(saved, produced)
  /\ Messages(copy, saved, inbox, late, accepted, cut) /\ copy \in Copies /\ LoopTypes
  /\ saved.resume \in {"building_context", "planning"} /\ inbox \in Seq(Nat) /\ late \in Seq(Nat) /\ accepted \in Nat

\* Every checkpoint that a restart or another handler reads is sound.
LEMMA CheckpointHolds ==
  ASSUME LoopInv
  PROVE  CheckpointFacts
<1>1. /\ saved \in Copies /\ copy \in Copies /\ LoopTypes /\ inbox \in Seq(Nat) /\ late \in Seq(Nat) /\ accepted \in Nat
  BY DEF LoopInv, LoopTypes
<1>2. PICK s, u : s = saved.steer /\ u = saved.told OBVIOUS
<1>3. saved = [copy EXCEPT !.steer = s, !.told = u] BY <1>2 DEF LoopInv, Checkpointed
<1>4. SameCalls(copy, saved) BY <1>1, <1>3 DEF Copies, SameCalls
<1>5. /\ saved.status = copy.status /\ saved.steps = copy.steps /\ saved.models = copy.models
      /\ saved.extensions = copy.extensions /\ saved.pausedOn = copy.pausedOn
  BY <1>1, <1>3 DEF Copies
<1>6. Content(saved, granted)
  <2>1. Content(copy, granted) BY DEF LoopInv
  <2> QED BY <1>4, <2>1, SameContent
<1>7. BaseBudget(saved) /\ Charged(saved, produced)
  <2>1. BaseBudget(copy) /\ Charged(saved, produced) BY DEF LoopInv, Budgeted
  <2> QED BY <1>5, <2>1, SameBudget
<1>8. Asked(saved)
  <2>1. Asked(copy) BY DEF LoopInv
  <2>2. \A t : RanIds(saved, t) = RanIds(copy, t) BY <1>4 DEF SameCalls, RanIds, Ran
  <2> QED BY <1>4, <1>5, <2>1, <2>2 DEF Asked, SameCalls
<1>9. Messages(copy, saved, inbox, late, accepted, cut) BY DEF LoopInv, Steered
<1>10. saved.resume \in {"building_context", "planning"} BY <1>1 DEF Copies
<1> QED BY <1>1, <1>4, <1>5, <1>6, <1>7, <1>8, <1>9, <1>10 DEF CheckpointFacts

\* A step that reads the checkpoint again and writes it.
LEMMA Rewrites ==
  ASSUME LoopInv, NEW d \in Copies, copy' = d, saved' = d, d.status \notin Working, Content(d, granted'),
         BaseBudget(d), Charged(d, produced'), Asked(d), Messages(d, d, inbox', <<>>, accepted', cut'),
         late' = <<>>, batch' = <<>>, place' \in {"top", "end"}, driving' \in BOOLEAN, ~driving' => place' = "top",
         attempt' = attempt, accepted' \in 0..MaxSteering, produced' \in Nat, crashes' \in 0..LoopRestarts,
         inbox' \in Seq(Nat), Len(inbox') <= MaxPending
  PROVE  LoopInv'
<1>1. cut' \subseteq Nat
  <2>1. cut' \subseteq 1..accepted' BY DEF Messages
  <2> QED BY <2>1
<1>2. BatchSound(d, <<>>, 0, granted') /\ <<>> \in Seq(Items) BY NoBatch
<1>3. attempt' \in 0..MaxAttempts BY DEF LoopInv, LoopTypes
<1>4. LoopTypes' BY <1>1, <1>2, <1>3, NoMessages DEF LoopTypes
<1>5. Checkpointed'
  <2>1. d = [d EXCEPT !.steer = d.steer, !.told = d.told] BY DEF Copies
  <2> QED BY <2>1 DEF Checkpointed
<1>6. Placed' BY DEF Placed, Working
<1>7. StepBudget(d, attempt') BY NoModelCall DEF Working
<1>8. Budgeted' BY <1>7 DEF Budgeted
<1>9. Steered' BY DEF Steered
<1>10. Content(copy', granted') /\ Asked(copy') /\ BatchSound(copy', batch', 0, granted') BY <1>2
<1> QED BY <1>4, <1>5, <1>6, <1>8, <1>9, <1>10 DEF LoopInv

\* An exception fails the run as it was saved.
LEMMA FailsKeeps ==
  ASSUME LoopInv, LoopFails, driving, place \in {"top", "plan"}, driving' = driving, batch' = <<>>,
         UNCHANGED <<attempt, late, accepted, granted, crashes>>,
         produced' = saved.models \/ produced' = saved.models + 1
  PROVE  LoopInv'
<1>1. CheckpointFacts BY CheckpointHolds
<1>2. /\ saved \in Copies /\ inbox \in Seq(Nat) /\ late \in Seq(Nat) /\ copy \in Copies /\ LoopTypes
      /\ Messages(copy, saved, inbox, late, accepted, cut) /\ Content(saved, granted) /\ BaseBudget(saved)
  BY <1>1 DEF CheckpointFacts
<1>3. late = <<>> BY DEF LoopInv, Placed
<1>4. PICK u \in Seq(Nat), w \in Seq(Nat) : u = saved.steer /\ w = inbox BY <1>2 DEF Copies
<1>5. PICK steer \in Seq(Nat) : steer = u \o w
  <2>1. u \o w \in Seq(Nat) OBVIOUS
  <2> QED BY <2>1
<1>6. PICK d : d = [saved EXCEPT !.status = "failed", !.steer = steer] OBVIOUS
<1>7. /\ saved' = d /\ copy' = d /\ inbox' = <<>> /\ place' = "end" /\ cut' = cut \cup (Holds(copy) \ Holds(saved))
  BY <1>4, <1>5, <1>6 DEF LoopFails
<1>8. "failed" \in Statuses BY DEF Statuses, LoopEnded
<1>9. RestatedAs(saved, d, "failed", steer) BY <1>2, <1>6, <1>8, Restated
<1>10. d \in Copies /\ d.status = "failed" /\ d.steer = steer /\ SameCalls(saved, d) /\ SameRest(saved, d) BY <1>9 DEF RestatedAs
<1>11. Content(d, granted) BY <1>2, <1>10, SameContent
<1>12. BaseBudget(d) /\ d.models = saved.models /\ d.told = saved.told /\ d.steer = saved.steer \o inbox
  BY <1>2, <1>4, <1>5, <1>10, SameBudget DEF SameRest
<1>13. Messages(d, d, <<>>, late, accepted, cut \cup (Holds(copy) \ Holds(saved))) BY <1>2, <1>12, MessagesSaved
<1>14. Messages(d, d, inbox', <<>>, accepted', cut') BY <1>3, <1>7, <1>13
<1>15. Charged(d, produced') /\ Asked(d) /\ d.status \notin Working
  BY <1>10, <1>12 DEF Charged, Asked, Working
<1>16. produced' \in Nat
  <2>1. saved.models \in Nat BY <1>2 DEF Copies
  <2> QED BY <2>1
<1>17. /\ accepted' \in 0..MaxSteering /\ crashes' \in 0..LoopRestarts /\ inbox' \in Seq(Nat) /\ Len(inbox') <= MaxPending
       /\ driving' \in BOOLEAN /\ driving'
  BY <1>2, <1>7, NoMessages, LoopAssumption DEF LoopTypes
<1>18. Content(d, granted') /\ late' = <<>> /\ place' \in {"top", "end"} /\ attempt' = attempt BY <1>3, <1>7, <1>11
<1> QED BY <1>7, <1>10, <1>12, <1>14, <1>15, <1>16, <1>17, <1>18, Rewrites

\* An exception anywhere in a step (_tool_call_failed).
LEMMA LoopRaisesKeeps ==
  ASSUME LoopInv, LoopRaises
  PROVE  LoopInv'
<1>1. /\ driving /\ place \in {"top", "plan"} /\ LoopFails /\ batch' = <<>>
      /\ UNCHANGED <<driving, attempt, late, accepted, granted, produced, crashes>>
  BY DEF LoopRaises
<1>2. produced = saved.models \/ produced = saved.models + 1 BY DEF LoopInv, Budgeted, Charged
<1>3. produced' = saved.models \/ produced' = saved.models + 1 BY <1>1, <1>2
<1>4. driving' = driving /\ UNCHANGED <<attempt, late, accepted, granted, crashes>> BY <1>1
<1> QED BY <1>1, <1>3, <1>4, FailsKeeps

\* _model_with_retry: a completion that is rejected, or none.
LEMMA ModelRetryKeeps ==
  ASSUME LoopInv, NEW charged \in BOOLEAN, ModelRetry(charged)
  PROVE  LoopInv'
<1>1. /\ driving /\ copy.status = "invoking_model" /\ produced' = (IF charged THEN produced + 1 ELSE produced)
      /\ driving' = driving /\ attempt' = attempt /\ batch' = batch /\ late' = late /\ accepted' = accepted
      /\ granted' = granted /\ crashes' = crashes
  BY DEF ModelRetry
<1>2. /\ place = "top" /\ copy.calls = <<>> /\ batch = <<>> /\ DriveFacts
      /\ copy.models + 1 <= ModelCallLimit(copy) + attempt - 1
  BY <1>1, Invoking
<1>3. copy \in Copies /\ LoopTypes /\ Steered /\ Content(copy, granted) /\ BaseBudget(copy) /\ attempt \in 0..MaxAttempts
      /\ produced = copy.models /\ BatchSound(copy, batch, 0, granted) /\ batch \in Seq(Items)
  BY <1>2 DEF DriveFacts
<1>4. CASE attempt < MaxAttempts
  <2>1. LoopTransition(IF charged THEN Rejected(copy) ELSE copy, "retrying") /\ place' = place /\ cut' = cut
    BY <1>4 DEF ModelRetry
  <2>2. PICK c : c = IF charged THEN Rejected(copy) ELSE copy OBVIOUS
  <2>3. /\ c \in Copies /\ c.models = produced' /\ c.steps = copy.steps /\ c.extensions = copy.extensions
        /\ c.told = copy.told /\ c.steer = copy.steer /\ SameCalls(copy, c) /\ c.models <= copy.models + 1
    <3>1. CASE charged
      <4>1. c = [copy EXCEPT !.models = copy.models + 1] BY <2>2, <3>1 DEF Rejected
      <4>2. copy.models + 1 \in Nat BY <1>3 DEF Copies
      <4>3. c \in Copies BY <1>3, <4>1, <4>2 DEF Copies
      <4>4. /\ c.models = copy.models + 1 /\ c.steps = copy.steps /\ c.extensions = copy.extensions
            /\ c.told = copy.told /\ c.steer = copy.steer
        BY <1>3, <4>1 DEF Copies
      <4>5. SameCalls(copy, c) BY <1>3, <4>1 DEF Copies, SameCalls
      <4> QED BY <1>1, <1>3, <3>1, <4>2, <4>3, <4>4, <4>5
    <3>2. CASE ~charged
      <4>1. c = copy BY <2>2, <3>2
      <4>2. copy.models \in Nat BY <1>3 DEF Copies
      <4>3. SameCalls(copy, copy) BY DEF SameCalls
      <4> QED BY <1>1, <1>3, <3>2, <4>1, <4>2, <4>3
    <3> QED BY <3>1, <3>2
  <2>4. "retrying" \in Statuses BY DEF Statuses, Working
  <2>5. LoopTransition(c, "retrying") BY <2>1, <2>2
  <2>6. Moved(c, "retrying") BY <1>1, <1>3, <2>1, <2>3, <2>4, <2>5, Transition
  <2>7. copy'.status = "retrying" /\ copy'.models = c.models /\ copy'.extensions = c.extensions
    BY <2>6 DEF Moved, SameRest
  <2>8. Asked(copy') BY <2>7 DEF Asked
  <2>9. StepBudget(copy', attempt') /\ BaseBudget(c)
    <3>1. ModelCallLimit(copy') = ModelCallLimit(copy) /\ ModelCallLimit(c) = ModelCallLimit(copy) /\ StepLimit(c) = StepLimit(copy)
      BY <2>3, <2>7, SameLimits
    <3>2. ModelCallLimit(copy) \in Nat /\ copy.models \in Nat /\ c.models \in Nat BY <1>3, <2>3, LimitTypes
    <3>3. MaxAttempts \in Nat BY LoopAssumption
    <3>4. StepBudget(copy', attempt') BY <1>1, <1>2, <1>3, <1>4, <2>3, <2>7, <3>1, <3>2, <3>3 DEF StepBudget
    <3>5. BaseBudget(c) BY <1>2, <1>3, <2>3, <3>1, <3>2, <3>3 DEF BaseBudget
    <3> QED BY <3>4, <3>5
  <2>10. Content(c, granted) /\ BatchSound(c, batch, 0, granted) BY <1>3, <2>3, SameContent, SameBatch
  <2>11. /\ attempt' \in 0..MaxAttempts /\ batch' \in Seq(Items) /\ batch' = <<>> /\ BatchSound(c, batch', 0, granted)
         /\ c.calls = <<>> /\ place' = "top"
    BY <1>1, <1>2, <1>3, <2>1, <2>3, <2>10 DEF SameCalls
  <2> QED BY <1>1, <1>2, <2>1, <2>3, <2>4, <2>6, <2>8, <2>9, <2>10, <2>11, DriveMoves DEF Working
<1>5. CASE ~(attempt < MaxAttempts)
  <2>1. LoopFails BY <1>5 DEF ModelRetry
  <2>2. saved.models = copy.models
    <3>1. CheckpointFacts BY CheckpointHolds
    <3> QED BY <3>1 DEF CheckpointFacts
  <2>3. produced' = saved.models \/ produced' = saved.models + 1 BY <1>1, <1>3, <2>2
  <2>4. UNCHANGED <<attempt, late, accepted, granted, crashes>> BY <1>1
  <2> QED BY <1>1, <1>2, <2>1, <2>3, <2>4, FailsKeeps
<1> QED BY <1>4, <1>5

\* _admit_tool_call and the first half of _execute_tool_batch: the calls of a batch are under way.
LEMMA AdmitToolsKeeps ==
  ASSUME LoopInv, AdmitTools
  PROVE  LoopInv'
<1>1. PICK calls : calls = Together(copy) OBVIOUS
<1>2. PICK a : a = Admitted(copy, calls) OBVIOUS
<1>3. /\ driving /\ place = "plan" /\ copy.calls # <<>> /\ place' = "top"
      /\ driving' = driving /\ attempt' = attempt /\ late' = late /\ accepted' = accepted
      /\ cut' = cut /\ granted' = granted /\ produced' = produced /\ crashes' = crashes
  BY DEF AdmitTools, Drives
<1>4. /\ ~(Len(calls) = 1 /\ NeedsApproval(copy, calls[1]) /\ a.fates[1][2] = "run")
      /\ LoopTransition([a.c EXCEPT !.steps = @ + Len(calls)], "invoking_tool") /\ batch' = a.fates
  BY <1>1, <1>2 DEF AdmitTools
<1>5. copy.steps < StepLimit(copy) /\ DriveFacts BY <1>3, Planning
<1>6. copy \in Copies /\ LoopTypes /\ Steered /\ Content(copy, granted) /\ BaseBudget(copy) /\ attempt \in 0..MaxAttempts
      /\ produced = copy.models
  BY <1>5 DEF DriveFacts
<1>7. NoneSingled(copy, calls) /\ Len(calls) >= 1 /\ Len(calls) \in Nat /\ copy.steps + Len(calls) <= StepLimit(copy)
  BY <1>1, <1>3, <1>5, <1>6, TogetherSound
<1>8. /\ a.c = [copy EXCEPT !.counts = a.c.counts] /\ a.c.counts \in Counts /\ a.c \in Copies
      /\ a.fates \in Seq(Items) /\ Content(a.c, granted) /\ BatchSound(a.c, a.fates, 0, granted)
  BY <1>2, <1>4, <1>6, <1>7, AdmittedBatch
<1>9. PICK e \in Copies : e = a.c BY <1>8
<1>10. /\ e.steps = copy.steps /\ e.models = copy.models /\ e.extensions = copy.extensions /\ e.told = copy.told /\ e.steer = copy.steer
  BY <1>6, <1>8, <1>9 DEF Copies
<1>11. PICK c : c = [e EXCEPT !.steps = e.steps + Len(calls)] OBVIOUS
<1>12. c \in Copies
  <2>1. e.steps + Len(calls) \in Nat BY <1>7, <1>9 DEF Copies
  <2> QED BY <1>9, <1>11, <2>1 DEF Copies
<1>13. /\ c.steps = copy.steps + Len(calls) /\ c.models = copy.models /\ c.extensions = copy.extensions
       /\ c.told = copy.told /\ c.steer = copy.steer
  BY <1>9, <1>10, <1>11 DEF Copies
<1>14. SameCalls(e, c) BY <1>9, <1>11 DEF Copies, SameCalls
<1>15. Content(c, granted) /\ BatchSound(c, a.fates, 0, granted) BY <1>8, <1>9, <1>14, SameContent, SameBatch
<1>16. "invoking_tool" \in Statuses BY DEF Statuses, Working
<1>17. LoopTransition(c, "invoking_tool") BY <1>4, <1>9, <1>11
<1>18. Moved(c, "invoking_tool") BY <1>3, <1>6, <1>12, <1>13, <1>16, <1>17, Transition
<1>19. copy'.status = "invoking_tool" BY <1>18 DEF Moved
<1>20. Asked(copy') BY <1>19 DEF Asked
<1>21. StepBudget(copy', attempt') BY <1>19, NoModelCall
<1>22. BaseBudget(c)
  <2>1. StepLimit(c) = StepLimit(copy) /\ ModelCallLimit(c) = ModelCallLimit(copy) BY <1>13, SameLimits
  <2> QED BY <1>6, <1>7, <1>13, <2>1 DEF BaseBudget
<1>23. produced' = c.models /\ batch' \in Seq(Items) /\ BatchSound(c, batch', 0, granted) /\ attempt' \in 0..MaxAttempts
  BY <1>3, <1>4, <1>6, <1>8, <1>13, <1>15
<1>24. place' \in {"top", "end"} /\ place \in {"top", "plan"} BY <1>3
<1> QED BY <1>3, <1>12, <1>15, <1>16, <1>18, <1>20, <1>21, <1>22, <1>23, <1>24, DriveMoves

\* The guards of a call that waits for its approval: it may run.
LEMMA MayRun ==
  ASSUME NEW c \in Copies, NEW grants, Content(c, grants), NEW call \in Calls, Enabled(call), Guard(c, call, {}) = "run"
  PROVE  call.tool \in Limited => Cardinality(RanIds(c, call.tool)) < CallLimit[call.tool]
<1> SUFFICES ASSUME call.tool \in Limited PROVE Cardinality(RanIds(c, call.tool)) < CallLimit[call.tool] OBVIOUS
<1>1. PICK t : t = call.tool OBVIOUS
<1>2. t \in DOMAIN CallLimit /\ t \in Limited BY <1>1 DEF Limited
<1>3. ~(c.counts[t] >= CallLimit[t]) BY <1>1, <1>2 DEF Guard
<1>4. c.counts[t] \in Nat BY <1>2 DEF Copies, Counts
<1>5. CallLimit[t] \in Nat BY <1>2, LoopAssumption
<1>6. Cardinality(RanIds(c, t)) \in Nat BY RanFinite
<1>7. Cardinality(RanIds(c, t)) <= c.counts[t] BY <1>2 DEF Content, Within
<1> QED BY ONLY <1>1, <1>3, <1>4, <1>5, <1>6, <1>7

\* _admit_tool_call pauses the run for an approval.
LEMMA AskApprovalKeeps ==
  ASSUME LoopInv, AskApproval
  PROVE  LoopInv'
<1>1. PICK call : call = Head(copy.calls) OBVIOUS
<1>2. /\ driving /\ place = "plan" /\ copy.calls # <<>> /\ place' = "end"
      /\ NeedsApproval(copy, call) /\ Enabled(call) /\ Guard(copy, call, {}) = "run"
      /\ LoopTransition([copy EXCEPT !.steps = @ + 1, !.pausedOn = call.id], "awaiting_approval")
      /\ driving' = driving /\ attempt' = attempt /\ batch' = batch /\ late' = late /\ accepted' = accepted
      /\ cut' = cut /\ granted' = granted /\ produced' = produced /\ crashes' = crashes
  BY <1>1 DEF AskApproval, Drives
<1>3. copy.steps < StepLimit(copy) /\ copy.status = "planning" /\ DriveFacts BY <1>2, Planning
<1>4. copy \in Copies /\ LoopTypes /\ Steered /\ Content(copy, granted) /\ BaseBudget(copy) /\ attempt \in 0..MaxAttempts
      /\ produced = copy.models /\ BatchSound(copy, batch, 0, granted) /\ batch \in Seq(Items) /\ batch = <<>>
  BY <1>3 DEF DriveFacts
<1>5. copy.calls \in Seq(Calls) BY <1>4 DEF Copies
<1>6. call = copy.calls[1] /\ call \in Calls BY <1>1, <1>2, <1>5
<1>7. call.id \in 0..MaxCallId BY <1>6 DEF Calls, CallIds
<1>8. PICK c : c = [copy EXCEPT !.steps = copy.steps + 1, !.pausedOn = call.id] OBVIOUS
<1>9. c \in Copies
  <2>1. copy.steps + 1 \in Nat BY <1>4 DEF Copies
  <2> QED BY <1>4, <1>7, <1>8, <2>1 DEF Copies
<1>10. /\ c.steps = copy.steps + 1 /\ c.models = copy.models /\ c.extensions = copy.extensions
       /\ c.told = copy.told /\ c.steer = copy.steer /\ c.pausedOn = call.id
  BY <1>4, <1>8 DEF Copies
<1>11. SameCalls(copy, c) BY <1>4, <1>8 DEF Copies, SameCalls
<1>12. "awaiting_approval" \in Statuses BY DEF Statuses, LoopPaused
<1>13. LoopTransition(c, "awaiting_approval") BY <1>2, <1>8
<1>14. Moved(c, "awaiting_approval") BY <1>2, <1>4, <1>9, <1>10, <1>12, <1>13, Transition
<1>15. copy'.status = "awaiting_approval" BY <1>14 DEF Moved
<1>16. Asked(copy')
  <2>1. SameCalls(c, copy') /\ copy'.pausedOn = call.id BY <1>10, <1>14 DEF Moved, SameRest
  <2>2. copy'.calls = copy.calls /\ copy'.log = copy.log BY <1>11, <2>1 DEF SameCalls
  <2>3. RanIds(copy', call.tool) = RanIds(copy, call.tool) BY <2>2 DEF RanIds, Ran
  <2>4. call.tool \in Limited => Cardinality(RanIds(copy, call.tool)) < CallLimit[call.tool] BY <1>2, <1>4, <1>6, MayRun
  <2>5. call.tool \in ApprovalTools BY <1>2 DEF NeedsApproval
  <2> QED BY <1>2, <1>6, <2>1, <2>2, <2>3, <2>4, <2>5 DEF Asked
<1>17. StepBudget(copy', attempt') BY <1>15, NoModelCall
<1>18. BaseBudget(c)
  <2>1. StepLimit(c) = StepLimit(copy) /\ ModelCallLimit(c) = ModelCallLimit(copy) BY <1>10, SameLimits
  <2>2. StepLimit(copy) \in Nat /\ copy.steps \in Nat BY <1>4, LimitTypes
  <2> QED BY <1>3, <1>4, <1>10, <2>1, <2>2 DEF BaseBudget
<1>19. Content(c, granted) /\ BatchSound(c, batch, 0, granted) BY <1>4, <1>11, SameContent, SameBatch
<1>20. produced' = c.models /\ batch' = <<>> /\ batch' \in Seq(Items) /\ BatchSound(c, batch', 0, granted) /\ attempt' \in 0..MaxAttempts
  BY <1>2, <1>4, <1>10, <1>19
<1>21. place' \in {"top", "end"} /\ place \in {"top", "plan"} BY <1>2
<1> QED BY <1>2, <1>9, <1>12, <1>14, <1>16, <1>17, <1>18, <1>19, <1>20, <1>21, DriveMoves DEF Working

\* The second half of _execute_tool_batch, and _execute_tool.
LEMMA SettleToolsKeeps ==
  ASSUME LoopInv, SettleTools
  PROVE  LoopInv'
<1>1. /\ driving /\ copy.status = "invoking_tool" /\ batch' = <<>>
      /\ driving' = driving /\ attempt' = attempt /\ late' = late /\ accepted' = accepted
      /\ cut' = cut /\ granted' = granted /\ produced' = produced /\ crashes' = crashes
  BY DEF SettleTools
<1>2. PICK outcome :
        /\ \A i \in DOMAIN batch : IF batch[i][2] = "run" THEN outcome[i] \in OutcomesOf(batch[i][1]) ELSE outcome[i] = "held"
        /\ LET to == IF \E i \in DOMAIN batch : outcome[i] = "unknown"
                         THEN "awaiting_reconciliation" ELSE "building_context"
           IN  LoopTransition(Settled(copy, batch, outcome), to) /\ place' = Pausing(to)
  BY DEF SettleTools
<1>22. PICK to : to = IF \E i \in DOMAIN batch : outcome[i] = "unknown" THEN "awaiting_reconciliation" ELSE "building_context"
  OBVIOUS
<1>23. LoopTransition(Settled(copy, batch, outcome), to) /\ place' = Pausing(to) BY <1>2, <1>22
<1>24. to \in {"awaiting_reconciliation", "building_context"} BY <1>22
<1>3. place = "top" BY <1>1 DEF LoopInv, Placed, Working
<1>4. DriveFacts BY <1>1, <1>3, Driving
<1>5. copy \in Copies /\ LoopTypes /\ Steered /\ Content(copy, granted) /\ BaseBudget(copy) /\ attempt \in 0..MaxAttempts
      /\ produced = copy.models /\ BatchSound(copy, batch, 0, granted) /\ batch \in Seq(Items)
  BY <1>4 DEF DriveFacts
<1>6. PICK d : d = Settled(copy, batch, outcome) OBVIOUS
<1>7. \A i \in DOMAIN batch : LegalOutcome(batch[i], outcome[i]) BY <1>2 DEF LegalOutcome
<1>8. d \in Copies /\ SameBut(copy, d) /\ Content(d, granted) BY <1>5, <1>6, <1>7, SettledSound
<1>9. to \in Statuses BY <1>24 DEF Statuses, LoopPaused
<1>10. LoopTransition(d, to) BY <1>23, <1>6
<1>11. d.told = copy.told /\ d.steer = copy.steer /\ d.models = copy.models BY <1>8 DEF SameBut
<1>12. Moved(d, to) BY <1>1, <1>5, <1>8, <1>9, <1>10, <1>11, Transition
<1>13. copy'.status = to BY <1>12 DEF Moved
<1>14. Asked(copy') BY <1>13, <1>24 DEF Asked
<1>15. StepBudget(copy', attempt') BY <1>13, <1>24, NoModelCall
<1>16. BaseBudget(d) BY <1>5, <1>8, SameBudget DEF SameBut
<1>17. BatchSound(d, <<>>, 0, granted) /\ <<>> \in Seq(Items) BY <1>8, NoBatch
<1>18. place' \in {"top", "end"} BY <1>23, <1>24 DEF Pausing
<1>19. produced' = d.models /\ batch' \in Seq(Items) /\ BatchSound(d, batch', 0, granted) /\ attempt' \in 0..MaxAttempts
  BY <1>1, <1>5, <1>11, <1>17
<1>20. to \notin Working /\ to # "invoking_tool" BY <1>24 DEF Working
<1> QED BY <1>1, <1>3, <1>8, <1>9, <1>12, <1>14, <1>15, <1>16, <1>18, <1>19, <1>20, DriveMoves DEF Working

\* _deliver_steering: what waits is given to the model, but not between a call and its result.
LEMMA DeliverSteeringKeeps ==
  ASSUME LoopInv, DeliverSteering
  PROVE  LoopInv'
<1>1. /\ driving /\ place = "top" /\ copy.status = "planning" /\ ~LimitReason(copy) /\ inbox' = <<>> /\ place' = "plan"
      /\ copy' = Delivered([copy EXCEPT !.steer = @ \o inbox])
      /\ saved' = saved /\ driving' = driving /\ attempt' = attempt /\ batch' = batch /\ late' = late /\ accepted' = accepted
      /\ cut' = cut /\ granted' = granted /\ produced' = produced /\ crashes' = crashes
  BY DEF DeliverSteering, Drives
<1>2. DriveFacts BY <1>1, Driving
<1>3. copy \in Copies /\ LoopTypes /\ Steered /\ Content(copy, granted) /\ BaseBudget(copy) /\ late = <<>>
      /\ BatchSound(copy, batch, 0, granted) /\ batch \in Seq(Items) /\ batch = <<>>
  BY <1>1, <1>2 DEF DriveFacts
<1>4. saved = copy BY <1>1 DEF LoopInv, Checkpointed
<1>5. inbox \in Seq(Nat) /\ late \in Seq(Nat) BY <1>3 DEF LoopTypes
<1>6. PICK u \in Seq(Nat), w \in Seq(Nat), t \in Seq(Nat) : u = copy.steer /\ w = inbox /\ t = copy.told BY <1>3, <1>5 DEF Copies
<1>7. PICK q \in Seq(Nat) : q = u \o w
  <2>1. u \o w \in Seq(Nat) OBVIOUS
  <2> QED BY <2>1
<1>8. PICK e : e = [copy EXCEPT !.steer = q] OBVIOUS
<1>9. e \in Copies /\ e.steer = q /\ e.told = t /\ SameCalls(copy, e)
      /\ e.status = copy.status /\ e.steps = copy.steps /\ e.models = copy.models /\ e.extensions = copy.extensions
      /\ e.pausedOn = copy.pausedOn
  BY <1>3, <1>6, <1>8 DEF Copies, SameCalls
<1>10. PICK told \in Seq(Nat), steer \in Seq(Nat) :
         /\ copy' = [e EXCEPT !.steer = steer, !.told = told]
         /\ \/ told = t /\ steer = q
            \/ told = t \o q /\ steer = <<>>
  <2>1. copy' = Delivered(e) BY <1>1, <1>6, <1>7, <1>8
  <2>2. t \o q \in Seq(Nat) /\ <<>> \in Seq(Nat) OBVIOUS
  <2>3. CASE e.answer \/ e.calls # <<>>
    <3>1. copy' = e BY <2>1, <2>3 DEF Delivered
    <3>2. e = [e EXCEPT !.steer = q, !.told = t] BY <1>9 DEF Copies
    <3> QED BY <3>1, <3>2
  <2>4. CASE ~(e.answer \/ e.calls # <<>>)
    <3>1. copy' = [e EXCEPT !.steer = <<>>, !.told = t \o q] BY <1>9, <2>1, <2>4 DEF Delivered
    <3> QED BY <2>2, <3>1
  <2> QED BY <2>3, <2>4
<1>11. /\ copy' \in Copies /\ copy'.steer = steer /\ copy'.told = told
       /\ copy'.status = copy.status /\ copy'.steps = copy.steps /\ copy'.models = copy.models
       /\ copy'.extensions = copy.extensions /\ copy'.pausedOn = copy.pausedOn
  BY <1>9, <1>10 DEF Copies
<1>12. SameCalls(copy, copy')
  <2>1. SameCalls(e, copy') BY <1>9, <1>10 DEF Copies, SameCalls
  <2> QED BY <1>9, <2>1 DEF SameCalls
<1>13. Steered'
  <2>1. Messages(copy, copy, inbox, late, accepted, cut) BY <1>3, <1>4 DEF Steered
  <2>2. \/ copy'.told = copy.told /\ copy'.steer = copy.steer \o inbox
        \/ copy'.told = copy.told \o (copy.steer \o inbox) /\ copy'.steer = <<>>
    BY <1>6, <1>7, <1>10, <1>11
  <2>3. Messages(copy', copy, <<>>, late, accepted, cut) BY <1>3, <1>5, <2>1, <2>2, MessagesDelivered
  <2> QED BY <1>1, <1>4, <2>3 DEF Steered
<1>14. LoopTypes' BY <1>1, <1>3, <1>11, NoMessages, LoopAssumption DEF LoopTypes
<1>15. Checkpointed'
  <2>1. copy = [copy' EXCEPT !.steer = copy.steer, !.told = copy.told]
    <3>1. copy' = [copy EXCEPT !.steer = steer, !.told = told] BY <1>3, <1>8, <1>10 DEF Copies
    <3> QED BY <1>3, <3>1 DEF Copies
  <2> QED BY <1>1, <1>4, <2>1 DEF Checkpointed
<1>16. Placed'
  <2>1. ~LimitReason(copy')
    <3>1. StepLimit(copy') = StepLimit(copy) /\ ModelCallLimit(copy') = ModelCallLimit(copy) BY <1>11, SameLimits
    <3> QED BY <1>1, <1>11, <3>1 DEF LimitReason
  <2> QED BY <1>1, <1>3, <1>11, <2>1 DEF Placed, Working
<1>17. Budgeted'
  <2>1. BaseBudget(copy') BY <1>3, <1>11, SameBudget
  <2>2. StepBudget(copy', attempt') BY <1>1, <1>11, NoModelCall
  <2>3. Charged(saved', produced') BY <1>1 DEF LoopInv, Budgeted
  <2> QED BY <2>1, <2>2, <2>3 DEF Budgeted
<1>18. Content(copy', granted') /\ BatchSound(copy', batch', 0, granted') BY <1>1, <1>3, <1>12, SameContent, SameBatch
<1>19. Asked(copy') BY <1>1, <1>11 DEF Asked
<1> QED BY <1>13, <1>14, <1>15, <1>16, <1>17, <1>18, <1>19 DEF LoopInv

\* The end of a drive takes the messages that came too late out of memory.
LEMMA EndDriveKeeps ==
  ASSUME LoopInv, EndDrive
  PROVE  LoopInv'
<1>1. /\ driving /\ place = "end" /\ late' = inbox /\ inbox' = <<>>
      /\ (inbox = <<>> /\ driving' = FALSE /\ place' = "top") \/ (inbox # <<>> /\ driving' = driving /\ place' = "late")
      /\ copy' = copy /\ saved' = saved /\ attempt' = attempt /\ batch' = batch /\ accepted' = accepted
      /\ cut' = cut /\ granted' = granted /\ produced' = produced /\ crashes' = crashes
  BY DEF EndDrive, TakeLate
<1>2. late = <<>> /\ copy.status \notin Working /\ batch = <<>> BY <1>1 DEF LoopInv, Placed, Working
<1>3. LoopTypes'
  <2>1. LoopTypes BY DEF LoopInv
  <2>2. driving \in BOOLEAN BY <2>1 DEF LoopTypes
  <2>3. driving' \in BOOLEAN /\ place' \in {"top", "plan", "end", "late"} BY <1>1, <2>2
  <2>4. MaxPending \in Nat BY LoopAssumption
  <2> QED BY <1>1, <2>1, <2>3, <2>4, NoMessages DEF LoopTypes
<1>4. Checkpointed'
  <2>1. saved = [copy EXCEPT !.steer = saved.steer, !.told = saved.told] /\ saved = copy BY <1>1 DEF LoopInv, Checkpointed
  <2> QED BY <1>1, <2>1 DEF Checkpointed
<1>5. Placed' BY <1>1, <1>2 DEF LoopInv, Placed, Working
<1>6. Budgeted' BY <1>1 DEF LoopInv, Budgeted
<1>7. Steered'
  <2>1. Messages(copy, saved, inbox, <<>>, accepted, cut) BY <1>2 DEF LoopInv, Steered
  <2>2. Messages(copy, saved, <<>>, inbox, accepted, cut) BY <2>1, MessagesTaken
  <2> QED BY <1>1, <2>2 DEF Steered
<1>8. Content(copy', granted') /\ Asked(copy') /\ BatchSound(copy', batch', 0, granted') BY <1>1 DEF LoopInv
<1> QED BY <1>3, <1>4, <1>5, <1>6, <1>7, <1>8 DEF LoopInv

\* The checkpoint is written again with the calls it has, outside a step of the run.
LEMMA Rewritten ==
  ASSUME LoopInv, NEW d \in Copies, copy' = d, saved' = d, SameCalls(saved, d), d.steps <= saved.steps,
         d.models = saved.models, d.extensions = saved.extensions, d.status \notin Working,
         d.status = "awaiting_approval" => saved.status = "awaiting_approval" /\ d.pausedOn = saved.pausedOn,
         saved.status = "failed" => d.status = "failed", granted' = granted, produced' = produced,
         Messages(d, d, inbox', <<>>, accepted', cut'),
         late' = <<>>, batch' = <<>>, place' = "top", driving' \in BOOLEAN,
         attempt' = attempt, accepted' \in 0..MaxSteering, crashes' \in 0..LoopRestarts,
         inbox' \in Seq(Nat), Len(inbox') <= MaxPending
  PROVE  LoopInv'
<1>1. CheckpointFacts BY CheckpointHolds
<1>2. saved \in Copies /\ Content(saved, granted) /\ BaseBudget(saved) /\ Asked(saved) /\ Charged(saved, produced) /\ LoopTypes
  BY <1>1 DEF CheckpointFacts
<1>3. Content(d, granted') BY <1>2, SameContent
<1>4. BaseBudget(d)
  <2>1. StepLimit(d) = StepLimit(saved) /\ ModelCallLimit(d) = ModelCallLimit(saved) BY SameLimits
  <2>2. StepLimit(saved) \in Nat /\ saved.steps \in Nat /\ d.steps \in Nat BY <1>2, LimitTypes
  <2> QED BY <1>2, <2>1, <2>2 DEF BaseBudget
<1>5. Charged(d, produced') BY <1>2 DEF Charged
<1>6. Asked(d)
  <2>1. \A t : RanIds(d, t) = RanIds(saved, t) BY DEF SameCalls, RanIds, Ran
  <2> QED BY <1>2, <2>1 DEF Asked, SameCalls
<1>7. produced' \in Nat BY <1>2 DEF LoopTypes
<1>8. place' \in {"top", "end"} OBVIOUS
<1> QED BY <1>3, <1>4, <1>5, <1>6, <1>7, <1>8, Rewrites

\* _keep_late_steering saves them.
LEMMA KeepLateKeeps ==
  ASSUME LoopInv, KeepLate
  PROVE  LoopInv'
<1>1. /\ place = "late" /\ saved' = [saved EXCEPT !.steer = @ \o late] /\ copy' = saved' /\ late' = <<>>
      /\ driving' = FALSE /\ place' = "top" /\ attempt' = attempt /\ batch' = batch /\ inbox' = inbox
      /\ accepted' = accepted /\ cut' = cut /\ granted' = granted /\ produced' = produced /\ crashes' = crashes
  BY DEF KeepLate
<1>2. CheckpointFacts BY CheckpointHolds
<1>3. saved \in Copies /\ LoopTypes /\ inbox \in Seq(Nat) /\ late \in Seq(Nat) /\ saved.status = copy.status
      /\ Messages(copy, saved, inbox, late, accepted, cut)
  BY <1>2 DEF CheckpointFacts
<1>4. copy.status \notin Working /\ batch = <<>> /\ saved = copy BY <1>1 DEF LoopInv, Placed, Working, Checkpointed
<1>5. PICK u \in Seq(Nat), w \in Seq(Nat) : u = saved.steer /\ w = late BY <1>3 DEF Copies
<1>6. PICK steer \in Seq(Nat) : steer = u \o w
  <2>1. u \o w \in Seq(Nat) OBVIOUS
  <2> QED BY <2>1
<1>7. PICK to \in Statuses : to = saved.status BY <1>3 DEF Copies
<1>8. PICK d : d = [saved EXCEPT !.status = to, !.steer = steer] OBVIOUS
<1>9. saved' = d /\ copy' = d
  <2>1. [saved EXCEPT !.steer = steer] = [saved EXCEPT !.status = to, !.steer = steer] BY <1>3, <1>7 DEF Copies
  <2> QED BY <1>1, <1>5, <1>6, <1>8, <2>1
<1>10. RestatedAs(saved, d, to, steer) BY <1>3, <1>8, Restated
<1>11. d \in Copies /\ d.status = to /\ d.steer = steer /\ SameCalls(saved, d) /\ SameRest(saved, d) BY <1>10 DEF RestatedAs
<1>12. d.models = saved.models /\ d.extensions = saved.extensions /\ d.pausedOn = saved.pausedOn /\ d.told = saved.told
       /\ d.steps = saved.steps /\ saved.steps \in Nat
  BY <1>3, <1>11 DEF SameRest, Copies
<1>13. Messages(saved, saved, inbox, late, accepted, cut) BY <1>3, <1>4
<1>14. d.steer = saved.steer \o late BY <1>5, <1>6, <1>11
<1>15. Messages(d, d, inbox, <<>>, accepted, cut) BY <1>3, <1>12, <1>13, <1>14, MessagesKept
<1>16. /\ accepted' \in 0..MaxSteering /\ crashes' \in 0..LoopRestarts /\ inbox' \in Seq(Nat) /\ Len(inbox') <= MaxPending
  BY <1>1, <1>3 DEF LoopTypes
<1>17. Messages(d, d, inbox', <<>>, accepted', cut') BY <1>1, <1>15
<1>18. d.steps <= saved.steps BY <1>12
<1>19. driving' \in BOOLEAN /\ batch' = <<>> /\ d.status \notin Working BY <1>1, <1>3, <1>4, <1>7, <1>11
<1> QED BY <1>1, <1>7, <1>9, <1>11, <1>12, <1>16, <1>17, <1>18, <1>19, Rewritten

\* steer: a message is put in memory beside a drive, or into the checkpoint of a paused run.
LEMMA SteerRunKeeps ==
  ASSUME LoopInv, SteerRun
  PROVE  LoopInv'
<1>1. /\ accepted < MaxSteering /\ Len(saved.steer) + Len(inbox) < MaxPending /\ accepted' = accepted + 1
      /\ driving' = driving /\ place' = place /\ attempt' = attempt /\ batch' = batch /\ late' = late
      /\ cut' = cut /\ granted' = granted /\ produced' = produced /\ crashes' = crashes
  BY DEF SteerRun
<1>2. CheckpointFacts BY CheckpointHolds
<1>3. saved \in Copies /\ LoopTypes /\ inbox \in Seq(Nat) /\ late \in Seq(Nat) /\ saved.status = copy.status
      /\ Messages(copy, saved, inbox, late, accepted, cut) /\ accepted \in Nat
  BY <1>2 DEF CheckpointFacts
<1>4. Len(saved.steer) \in Nat /\ Len(inbox) \in Nat BY <1>3 DEF Copies
<1>5. accepted' \in 0..MaxSteering BY <1>1, <1>3, LoopAssumption
<1>6. CASE driving /\ inbox' = Append(inbox, accepted + 1) /\ UNCHANGED <<saved, copy>>
  <2>1. inbox' = Append(inbox, accepted + 1) /\ saved' = saved /\ copy' = copy BY <1>6
  <2>2. Messages(copy, saved, Append(inbox, accepted + 1), late, accepted + 1, cut) BY <1>3, MessageAccepted
  <2>3. Steered' BY <1>1, <2>1, <2>2 DEF Steered
  <2>4. inbox' \in Seq(Nat) /\ Len(inbox') <= MaxPending
    <3>1. accepted + 1 \in Nat BY <1>3
    <3>2. Append(inbox, accepted + 1) \in Seq(Nat) /\ Len(Append(inbox, accepted + 1)) = Len(inbox) + 1 BY <1>3, <3>1
    <3>3. Len(inbox) + 1 <= MaxPending BY <1>1, <1>4, LoopAssumption
    <3> QED BY <2>1, <3>2, <3>3
  <2>5. LoopTypes' BY <1>1, <1>3, <1>5, <2>1, <2>4 DEF LoopTypes
  <2>6. Checkpointed' BY <1>1, <2>1 DEF LoopInv, Checkpointed
  <2>7. Placed'
    <3>1. Placed BY DEF LoopInv
    <3>2. LimitReason(copy') = LimitReason(copy) BY <2>1
    <3> QED BY <1>1, <2>1, <3>1, <3>2 DEF Placed
  <2>8. Budgeted' BY <1>1, <2>1 DEF LoopInv, Budgeted
  <2>9. Content(copy', granted') /\ Asked(copy') /\ BatchSound(copy', batch', 0, granted') BY <1>1, <2>1 DEF LoopInv
  <2> QED BY <2>3, <2>5, <2>6, <2>7, <2>8, <2>9 DEF LoopInv
<1>7. CASE /\ ~driving /\ saved.status \in LoopPaused
           /\ saved' = [saved EXCEPT !.steer = Append(@, accepted + 1)] /\ copy' = saved' /\ inbox' = inbox
  <2>1. place = "top" /\ late = <<>> /\ batch = <<>> /\ saved = copy
    BY <1>3, <1>7 DEF LoopInv, Placed, LoopPaused, Checkpointed
  <2>2. PICK u \in Seq(Nat) : u = saved.steer BY <1>3 DEF Copies
  <2>3. PICK steer \in Seq(Nat) : steer = Append(u, accepted + 1)
    <3>1. accepted + 1 \in Nat BY <1>3
    <3>2. Append(u, accepted + 1) \in Seq(Nat) BY <3>1
    <3> QED BY <3>2
  <2>4. PICK to \in Statuses : to = saved.status BY <1>3 DEF Copies
  <2>5. PICK d : d = [saved EXCEPT !.status = to, !.steer = steer] OBVIOUS
  <2>6. saved' = d /\ copy' = d
    <3>1. [saved EXCEPT !.steer = steer] = [saved EXCEPT !.status = to, !.steer = steer] BY <1>3, <2>4 DEF Copies
    <3> QED BY <1>7, <2>2, <2>3, <2>5, <3>1
  <2>7. RestatedAs(saved, d, to, steer) BY <1>3, <2>5, Restated
  <2>8. d \in Copies /\ d.status = to /\ d.steer = steer /\ SameCalls(saved, d) /\ SameRest(saved, d) BY <2>7 DEF RestatedAs
  <2>9. d.models = saved.models /\ d.extensions = saved.extensions /\ d.pausedOn = saved.pausedOn /\ d.told = saved.told
        /\ d.steps = saved.steps /\ saved.steps \in Nat
    BY <1>3, <2>8 DEF SameRest, Copies
  <2>10. Messages(saved, saved, inbox, late, accepted, cut) BY <1>3, <2>1
  <2>11. d.steer = Append(saved.steer, accepted + 1) BY <2>2, <2>3, <2>8
  <2>12. Messages(d, d, inbox, late, accepted + 1, cut) BY <1>3, <2>9, <2>10, <2>11, MessageStored
  <2>13. /\ crashes' \in 0..LoopRestarts /\ inbox' \in Seq(Nat) /\ Len(inbox') <= MaxPending /\ driving' \in BOOLEAN
    BY <1>1, <1>3, <1>7 DEF LoopTypes
  <2>14. Messages(d, d, inbox', <<>>, accepted', cut') BY <1>1, <1>7, <2>1, <2>12
  <2>15. d.steps <= saved.steps /\ d.status \notin Working BY <1>7, <2>4, <2>8, <2>9 DEF Working, LoopPaused
  <2>16. late' = <<>> /\ batch' = <<>> /\ place' = "top" BY <1>1, <2>1
  <2> QED BY <1>1, <1>5, <2>4, <2>6, <2>8, <2>9, <2>13, <2>14, <2>15, <2>16, Rewritten
<1> QED BY <1>6, <1>7 DEF SteerRun

\* cancel: the stored run is ended, and the drive loses what it had taken.
LEMMA CancelDrivenKeeps ==
  ASSUME LoopInv, CancelDriven
  PROVE  LoopInv'
<1>1. /\ saved.status \notin LoopEnded
      /\ saved' = [saved EXCEPT !.status = "cancelled", !.steer = @ \o inbox] /\ copy' = saved'
      /\ cut' = cut \cup (Holds(copy) \ Holds(saved)) \cup Elements(late)
      /\ inbox' = <<>> /\ late' = <<>> /\ driving' = FALSE /\ place' = "top" /\ batch' = <<>>
      /\ attempt' = attempt /\ accepted' = accepted /\ granted' = granted /\ produced' = produced /\ crashes' = crashes
  BY DEF CancelDriven
<1>2. CheckpointFacts BY CheckpointHolds
<1>3. saved \in Copies /\ copy \in Copies /\ LoopTypes /\ inbox \in Seq(Nat) /\ late \in Seq(Nat)
      /\ Messages(copy, saved, inbox, late, accepted, cut)
  BY <1>2 DEF CheckpointFacts
<1>4. PICK u \in Seq(Nat), w \in Seq(Nat) : u = saved.steer /\ w = inbox BY <1>3 DEF Copies
<1>5. PICK steer \in Seq(Nat) : steer = u \o w
  <2>1. u \o w \in Seq(Nat) OBVIOUS
  <2> QED BY <2>1
<1>6. PICK d : d = [saved EXCEPT !.status = "cancelled", !.steer = steer] OBVIOUS
<1>7. saved' = d /\ copy' = d BY <1>1, <1>4, <1>5, <1>6
<1>8. "cancelled" \in Statuses BY DEF Statuses, LoopEnded
<1>9. RestatedAs(saved, d, "cancelled", steer) BY <1>3, <1>6, <1>8, Restated
<1>10. d \in Copies /\ d.status = "cancelled" /\ d.steer = steer /\ SameCalls(saved, d) /\ SameRest(saved, d) BY <1>9 DEF RestatedAs
<1>11. d.models = saved.models /\ d.extensions = saved.extensions /\ d.told = saved.told
       /\ d.steps = saved.steps /\ saved.steps \in Nat
  BY <1>3, <1>10 DEF SameRest, Copies
<1>12. d.steer = saved.steer \o inbox BY <1>4, <1>5, <1>10
<1>13. Messages(d, d, <<>>, late, accepted, cut \cup (Holds(copy) \ Holds(saved))) BY <1>3, <1>11, <1>12, MessagesSaved
<1>14. Messages(d, d, <<>>, <<>>, accepted, (cut \cup (Holds(copy) \ Holds(saved))) \cup Elements(late)) BY <1>3, <1>13, LateLost
<1>15. Messages(d, d, inbox', <<>>, accepted', cut') BY <1>1, <1>14
<1>16. /\ accepted' \in 0..MaxSteering /\ crashes' \in 0..LoopRestarts /\ inbox' \in Seq(Nat) /\ Len(inbox') <= MaxPending
       /\ driving' \in BOOLEAN
  <2>1. accepted \in 0..MaxSteering /\ crashes \in 0..LoopRestarts BY <1>3 DEF LoopTypes
  <2>2. MaxPending \in Nat BY LoopAssumption
  <2>3. inbox' \in Seq(Nat) /\ Len(inbox') <= MaxPending BY <1>1, <2>2, NoMessages
  <2> QED BY <1>1, <2>1, <2>3
<1>17. d.steps <= saved.steps BY <1>11
<1>18. d.status \notin Working /\ d.status # "awaiting_approval" /\ saved.status # "failed" BY <1>1, <1>10 DEF Working, LoopEnded
<1> QED BY <1>1, <1>7, <1>10, <1>11, <1>15, <1>16, <1>17, <1>18, Rewritten

\* _rewind_for_recovery, by what it changes.
LEMMA RewoundFields ==
  ASSUME NEW c \in Copies, NEW d, d = Rewound(c)
  PROVE  /\ d \in Copies /\ SameCalls(c, d) /\ d.steps <= c.steps /\ d.models = c.models /\ d.extensions = c.extensions
         /\ d.told = c.told /\ d.steer = c.steer /\ d.pausedOn = c.pausedOn /\ d.status \notin Working
         /\ c.status \in {"awaiting_approval", "failed"} => d.status = c.status
         /\ d.status = "awaiting_approval" => c.status = "awaiting_approval"
<1>1. PICK to \in Statuses : to = IF c.status \in {"invoking_model", "invoking_tool", "retrying"} THEN "planning" ELSE c.status
  BY DEF Copies, Statuses
<1>2. PICK steps \in Nat : steps = IF c.status \in {"invoking_model", "invoking_tool"} /\ c.steps > 0 THEN c.steps - 1 ELSE c.steps
  <2>1. c.steps \in Nat BY DEF Copies
  <2>2. c.steps > 0 => c.steps - 1 \in Nat BY <2>1
  <2> QED BY <2>1, <2>2
<1>3. d = [c EXCEPT !.status = to, !.steps = steps] BY <1>1, <1>2 DEF Rewound
<1>4. d \in Copies BY <1>1, <1>2, <1>3 DEF Copies
<1>5. SameCalls(c, d) BY <1>3 DEF Copies, SameCalls
<1>6. /\ d.models = c.models /\ d.extensions = c.extensions /\ d.told = c.told /\ d.steer = c.steer /\ d.pausedOn = c.pausedOn
      /\ d.status = to /\ d.steps = steps
  BY <1>3 DEF Copies
<1>7. steps <= c.steps
  <2>1. c.steps \in Nat BY DEF Copies
  <2> QED BY <1>2, <2>1
<1>8. /\ to \notin Working
      /\ c.status \in {"awaiting_approval", "failed"} => to = c.status
      /\ to = "awaiting_approval" => c.status = "awaiting_approval"
  BY <1>1 DEF Working
<1> QED BY <1>4, <1>5, <1>6, <1>7, <1>8

\* The process dies: its memory and the copy are gone, and recover drives the checkpoint again.
LEMMA CrashAndRecoverKeeps ==
  ASSUME LoopInv, CrashAndRecover
  PROVE  LoopInv'
<1>1. PICK d : d = Rewound(saved) OBVIOUS
<1>2. /\ crashes < LoopRestarts /\ crashes' = crashes + 1 /\ saved' = d /\ copy' = d
      /\ cut' = cut \cup (Holds(copy) \ Holds(saved)) \cup Elements(inbox) \cup Elements(late)
      /\ inbox' = <<>> /\ late' = <<>> /\ batch' = <<>> /\ place' = "top"
      /\ driving' = (saved.status \notin LoopPaused \cup LoopEnded)
      /\ attempt' = attempt /\ accepted' = accepted /\ granted' = granted /\ produced' = produced
  BY <1>1 DEF CrashAndRecover
<1>3. CheckpointFacts BY CheckpointHolds
<1>4. saved \in Copies /\ copy \in Copies /\ LoopTypes /\ inbox \in Seq(Nat) /\ late \in Seq(Nat)
      /\ Messages(copy, saved, inbox, late, accepted, cut)
  BY <1>3 DEF CheckpointFacts
<1>5. /\ d \in Copies /\ SameCalls(saved, d) /\ d.steps <= saved.steps /\ d.models = saved.models /\ d.extensions = saved.extensions
      /\ d.told = saved.told /\ d.steer = saved.steer /\ d.pausedOn = saved.pausedOn /\ d.status \notin Working
      /\ saved.status \in {"awaiting_approval", "failed"} => d.status = saved.status
      /\ d.status = "awaiting_approval" => saved.status = "awaiting_approval"
  BY <1>1, <1>4, RewoundFields
<1>6. Messages(d, d, <<>>, <<>>, accepted, cut \cup (Holds(copy) \ Holds(saved)) \cup Elements(inbox) \cup Elements(late))
  BY <1>4, <1>5, MessagesLost
<1>7. Messages(d, d, inbox', <<>>, accepted', cut') BY <1>2, <1>6
<1>8. crashes' \in 0..LoopRestarts
  <2>1. crashes \in 0..LoopRestarts /\ LoopRestarts \in Nat BY <1>4, LoopAssumption DEF LoopTypes
  <2> QED BY <1>2, <2>1
<1>9. accepted' \in 0..MaxSteering /\ inbox' \in Seq(Nat) /\ Len(inbox') <= MaxPending
  BY <1>2, <1>4, NoMessages, LoopAssumption DEF LoopTypes
<1>10. driving' \in BOOLEAN BY <1>2
<1>11. d.status = "awaiting_approval" => saved.status = "awaiting_approval" /\ d.pausedOn = saved.pausedOn BY <1>5
<1>12. saved.status = "failed" => d.status = "failed" BY <1>5
<1> QED BY <1>2, <1>5, <1>7, <1>8, <1>9, <1>10, <1>11, <1>12, Rewritten

\* resume and the operator's settlement: a paused run goes on from its checkpoint.
LEMMA Resuming ==
  ASSUME LoopInv, ~driving, saved.status \in LoopPaused, NEW c \in Copies, c.steer = saved.steer, c.told = saved.told,
         c.models = saved.models, BaseBudget(c), NEW to \in {"building_context", "planning", "failed"},
         Resumed(c, to), Content(c, granted'),
         UNCHANGED <<place, attempt, batch, late, accepted, cut, produced, crashes>>
  PROVE  LoopInv'
<1>1. CheckpointFacts BY CheckpointHolds
<1>2. saved \in Copies /\ LoopTypes /\ inbox \in Seq(Nat) /\ late \in Seq(Nat) /\ saved.status = copy.status
      /\ Messages(copy, saved, inbox, late, accepted, cut) /\ Charged(saved, produced) /\ produced \in Nat
  BY <1>1 DEF CheckpointFacts, LoopTypes
<1>3. place = "top" /\ late = <<>> /\ batch = <<>> /\ saved = copy
  BY <1>2 DEF LoopInv, Placed, LoopPaused, Checkpointed
<1>4. PICK u \in Seq(Nat), w \in Seq(Nat) : u = c.steer /\ w = inbox BY <1>2 DEF Copies
<1>5. PICK steer \in Seq(Nat) : steer = u \o w
  <2>1. u \o w \in Seq(Nat) OBVIOUS
  <2> QED BY <2>1
<1>6. PICK e : e = [c EXCEPT !.pausedOn = 0] OBVIOUS
<1>7. e \in Copies
  <2>1. 0 \in 0..MaxCallId BY LoopAssumption
  <2> QED BY <1>6, <2>1 DEF Copies
<1>8. SameCalls(c, e) BY <1>6 DEF Copies, SameCalls
<1>9. e.told = c.told /\ e.models = c.models /\ e.steps = c.steps /\ e.extensions = c.extensions BY <1>6 DEF Copies
<1>10. PICK d : d = [e EXCEPT !.status = to, !.steer = steer] OBVIOUS
<1>11. /\ saved' = d /\ copy' = d /\ inbox' = <<>> /\ driving' = (to \notin LoopEnded)
  <2>1. saved' = [c EXCEPT !.status = to, !.pausedOn = 0, !.steer = steer] BY <1>4, <1>5 DEF Resumed
  <2>2. [c EXCEPT !.status = to, !.pausedOn = 0, !.steer = steer] = d BY <1>6, <1>10 DEF Copies
  <2> QED BY <2>1, <2>2 DEF Resumed
<1>12. to \in Statuses BY DEF Statuses, LoopEnded
<1>13. RestatedAs(e, d, to, steer) BY <1>7, <1>10, <1>12, Restated
<1>14. d \in Copies /\ d.status = to /\ d.steer = steer /\ SameCalls(e, d) /\ SameRest(e, d) BY <1>13 DEF RestatedAs
<1>15. /\ d.told = saved.told /\ d.steer = saved.steer \o inbox /\ d.models = c.models /\ d.steps = c.steps
       /\ d.extensions = c.extensions
  BY <1>4, <1>5, <1>9, <1>14 DEF SameRest
<1>16. Content(d, granted')
  <2>1. Content(e, granted') BY <1>8, SameContent
  <2> QED BY <1>14, <2>1, SameContent
<1>17. BaseBudget(d) BY <1>15, SameBudget
<1>18. Charged(d, produced') BY <1>2, <1>15 DEF Charged, LoopPaused
<1>19. Asked(d) /\ d.status \notin Working BY <1>14 DEF Asked, Working
<1>20. Messages(d, d, inbox', <<>>, accepted', cut')
  <2>1. Messages(copy, copy, inbox, <<>>, accepted, cut) /\ copy \in Copies BY <1>2, <1>3
  <2>2. <<>> \in Seq(Nat) BY NoMessages
  <2>3. d.told = copy.told /\ d.steer = copy.steer \o inbox BY <1>3, <1>15
  <2>4. Messages(d, d, <<>>, <<>>, accepted, cut \cup (Holds(copy) \ Holds(copy))) BY <1>2, <2>1, <2>2, <2>3, MessagesSaved
  <2> QED BY <1>11, <2>4
<1>21. /\ accepted' \in 0..MaxSteering /\ crashes' \in 0..LoopRestarts /\ inbox' \in Seq(Nat) /\ Len(inbox') <= MaxPending
       /\ produced' \in Nat
  BY <1>2, <1>11, NoMessages, LoopAssumption DEF LoopTypes
<1>22. /\ late' = <<>> /\ batch' = <<>> /\ place' = "top" /\ place' \in {"top", "end"} /\ attempt' = attempt /\ driving' \in BOOLEAN
  BY <1>3, <1>11
<1> QED BY <1>11, <1>14, <1>16, <1>17, <1>18, <1>19, <1>20, <1>21, <1>22, Rewrites

\* What is known of a paused run.
LEMMA PausedFacts ==
  ASSUME LoopInv, ~driving, saved.status \in LoopPaused
  PROVE  saved \in Copies /\ Content(saved, granted) /\ BaseBudget(saved) /\ Asked(saved)
<1>1. CheckpointFacts BY CheckpointHolds
<1> QED BY <1>1 DEF CheckpointFacts

\* The first pending call has an answer of a person instead of a run of its own.
LEMMA AnsweredByPerson ==
  ASSUME saved \in Copies, Content(saved, granted), BaseBudget(saved), saved.calls # <<>>,
         NEW call, call = saved.calls[1], NEW outcome \in {"declined", "settled"}, NEW c, c = Answered(saved, call, outcome)
  PROVE  /\ c \in Copies /\ Content(c, granted) /\ BaseBudget(c)
         /\ c.steer = saved.steer /\ c.told = saved.told /\ c.models = saved.models
<1>1. saved.calls \in Seq(Calls) /\ 1 \in DOMAIN saved.calls /\ call \in Calls
  <2>1. saved.calls \in Seq(Calls) BY DEF Copies
  <2> QED BY <2>1
<1>2. outcome \in Outcomes BY DEF Outcomes
<1>3. \A i, j \in DOMAIN saved.calls : saved.calls[i].id = saved.calls[j].id => i = j BY DEF Content, Paired
<1>4. WithoutCall(saved.calls, call.id) \in Seq(Calls) BY <1>1, <1>3, RestKeepsOrder
<1>5. c = RecordCall(saved, call, outcome) BY <1>1, HeldIsRecorded
<1>6. c \in Copies /\ SameBut(saved, c) /\ Answer(saved, c, call, outcome) BY <1>1, <1>2, <1>4, <1>5, RecordFields
<1>7. RanAsAllowed(saved, call, outcome) /\ HadRoom(saved, call, outcome) /\ WasFresh(saved, call, outcome)
  BY DEF RanAsAllowed, HadRoom, WasFresh
<1>8. Content(c, granted) BY <1>1, <1>2, <1>6, <1>7, AnswerKeepsContent
<1>9. c.steer = saved.steer /\ c.told = saved.told /\ c.models = saved.models /\ c.steps = saved.steps
      /\ c.extensions = saved.extensions
  BY <1>6 DEF SameBut
<1>10. BaseBudget(c) BY <1>9, SameBudget
<1> QED BY <1>6, <1>8, <1>9, <1>10

\* The operator's settlement of a call in doubt answers it and lets the run go on.
LEMMA CallSettledKeeps ==
  ASSUME LoopInv, CallSettled
  PROVE  LoopInv'
<1>1. PICK c : c = Answered(saved, saved.calls[1], "settled") OBVIOUS
<1>2. saved.status \in LoopPaused /\ ~driving /\ granted' = granted /\ saved.calls # <<>>
      /\ UNCHANGED <<place, attempt, batch, late, accepted, cut, produced, crashes>>
  BY DEF CallSettled, LoopPaused
<1>3. saved \in Copies /\ Content(saved, granted) /\ BaseBudget(saved) BY <1>2, PausedFacts
<1>4. Resumed(c, "building_context") BY <1>1 DEF CallSettled
<1>5. /\ c \in Copies /\ Content(c, granted) /\ BaseBudget(c)
      /\ c.steer = saved.steer /\ c.told = saved.told /\ c.models = saved.models
  BY <1>1, <1>2, <1>3, AnsweredByPerson
<1>6. Content(c, granted') BY <1>2, <1>5
<1>7. "building_context" \in {"building_context", "planning", "failed"} OBVIOUS
<1> QED BY <1>2, <1>4, <1>5, <1>6, <1>7, Resuming

\* The answer to a request for more steps (_continue_or_pause and resume).
LEMMA DecideExtensionKeeps ==
  ASSUME LoopInv, NEW decision, DecideExtension(decision)
  PROVE  LoopInv'
<1>1. /\ ~driving /\ saved.status \in LoopPaused /\ granted' = granted
      /\ UNCHANGED <<place, attempt, batch, late, accepted, cut, produced, crashes>>
  BY DEF DecideExtension, LoopPaused
<1>2. saved \in Copies /\ Content(saved, granted) /\ BaseBudget(saved) BY <1>1, PausedFacts
<1>3. Content(saved, granted') BY <1>1, <1>2
<1>4. CASE saved.extensions < MaxExtensions /\ Resumed([saved EXCEPT !.extensions = @ + 1], saved.resume)
  <2>1. PICK c : c = [saved EXCEPT !.extensions = saved.extensions + 1] OBVIOUS
  <2>2. Resumed(c, saved.resume) BY <1>4, <2>1
  <2>3. saved.extensions + 1 \in Extensions
    <3>1. AutoExtensions \in Nat /\ MaxExtensions \in Nat BY LoopAssumption
    <3>2. saved.extensions \in 0..(AutoExtensions + MaxExtensions) BY <1>2 DEF Copies, Extensions
    <3> QED BY <1>4, <3>1, <3>2 DEF Extensions
  <2>4. c \in Copies BY <1>2, <2>1, <2>3 DEF Copies
  <2>5. c.steer = saved.steer /\ c.told = saved.told /\ c.models = saved.models /\ c.steps = saved.steps
        /\ c.extensions = saved.extensions + 1
    BY <1>2, <2>1 DEF Copies
  <2>6. SameCalls(saved, c) BY <1>2, <2>1 DEF Copies, SameCalls
  <2>7. Content(c, granted') BY <1>3, <2>6, SameContent
  <2>8. BaseBudget(c) BY <1>2, <2>5, ExtendedLimits
  <2>9. PICK to \in {"building_context", "planning", "failed"} : to = saved.resume BY <1>2 DEF Copies
  <2>10. Resumed(c, to) BY <2>2, <2>9
  <2> QED BY <1>1, <2>4, <2>5, <2>7, <2>8, <2>10, Resuming
<1>5. CASE Resumed(saved, "failed")
  <2>1. "failed" \in {"building_context", "planning", "failed"} OBVIOUS
  <2> QED BY <1>1, <1>2, <1>3, <1>5, <2>1, Resuming
<1> QED BY <1>4, <1>5 DEF DecideExtension

\* An approval is given to the call the run waits for, as it stands or with other arguments.
Permitted(c, d, given) ==
  /\ d.approved = c.approved \cup {given.id} /\ d.done = c.done /\ d.counts = c.counts /\ d.seen = c.seen /\ d.log = c.log
  /\ d.calls = [i \in DOMAIN c.calls |-> IF c.calls[i].id = given.id THEN given ELSE c.calls[i]]

\* resume with an approval: only the call that was asked for is changed and allowed.
LEMMA ApprovalKeepsContent ==
  ASSUME NEW c \in Copies, NEW grants, Content(c, grants), NEW given \in Calls, c.calls # <<>>,
         given.id = c.calls[1].id, given.tool = c.calls[1].tool, given.tool \in ApprovalTools,
         given.tool \in Limited => Cardinality(RanIds(c, given.tool)) < CallLimit[given.tool],
         NEW d, Permitted(c, d, given)
  PROVE  Content(d, grants \cup {Triple(given)})
<1>1. c.calls \in Seq(Calls) BY DEF Copies
<1>2. 1 \in DOMAIN c.calls BY <1>1
<1>3. Paired(c) /\ Approved(c, grants) /\ Remembered(c) /\ Fresh(c) /\ Within(c) BY DEF Content
<1>4. /\ d.approved = c.approved \cup {given.id} /\ d.done = c.done /\ d.counts = c.counts /\ d.seen = c.seen /\ d.log = c.log
      /\ d.calls = [i \in DOMAIN c.calls |-> IF c.calls[i].id = given.id THEN given ELSE c.calls[i]]
  BY DEF Permitted
<1>5. DOMAIN d.calls = DOMAIN c.calls /\ \A i \in DOMAIN c.calls : d.calls[i].id = c.calls[i].id BY <1>4
<1>6. \A i \in DOMAIN c.calls : i # 1 => d.calls[i] = c.calls[i] /\ d.calls[i].id # given.id
  <2>1. \A i \in DOMAIN c.calls : c.calls[i].id = c.calls[1].id => i = 1 BY <1>2, <1>3 DEF Paired
  <2> QED BY <1>4, <1>5, <2>1
<1>7. d.calls[1] = given BY <1>2, <1>4
<1>8. Paired(d) BY <1>3, <1>4, <1>5 DEF Paired
<1>9. \A t : RanIds(d, t) = RanIds(c, t) BY <1>4 DEF RanIds, Ran
<1>10. Approved(d, grants \cup {Triple(given)})
  <2>1. d.approved \subseteq d.done \cup {d.calls[i].id : i \in DOMAIN d.calls}
    <3>1. c.approved \subseteq c.done \cup {c.calls[i].id : i \in DOMAIN c.calls} BY <1>3 DEF Approved
    <3>2. given.id = d.calls[1].id BY <1>7
    <3>3. \A i \in DOMAIN c.calls : c.calls[i].id \in {d.calls[k].id : k \in DOMAIN d.calls}
      <4>1. TAKE i \in DOMAIN c.calls
      <4>2. i \in DOMAIN d.calls /\ c.calls[i].id = d.calls[i].id BY <1>5
      <4> QED BY <4>2
    <3>4. given.id \in {d.calls[k].id : k \in DOMAIN d.calls} BY <1>2, <1>5, <3>2
    <3>5. d.approved = c.approved \cup {given.id} /\ d.done = c.done BY <1>4
    <3> QED BY <3>1, <3>3, <3>4, <3>5
  <2>2. ASSUME NEW i \in DOMAIN d.calls, d.calls[i].id \in d.approved
        PROVE  i = 1
    <3>1. CASE d.calls[i].id \in c.approved BY <1>3, <1>5, <3>1 DEF Approved
    <3>2. CASE d.calls[i].id = given.id BY <1>5, <1>6, <3>2
    <3> QED BY <1>4, <2>2, <3>1, <3>2
  <2>3. given.tool \in Limited => Cardinality(RanIds(d, given.tool)) < CallLimit[given.tool] BY <1>9
  <2>4. Triple(given) \in grants \cup {Triple(given)} OBVIOUS
  <2> QED BY <1>7, <2>1, <2>2, <2>3, <2>4 DEF Approved
<1>11. Remembered(d) BY <1>3, <1>4 DEF Remembered
<1>12. Fresh(d) BY <1>3, <1>4 DEF Fresh
<1>13. Within(d) BY <1>3, <1>4, <1>9 DEF Within
<1> QED BY <1>8, <1>10, <1>11, <1>12, <1>13 DEF Content

\* The answer to a request for an approval: the call may run as it was approved, or is declined.
LEMMA DecideCallKeeps ==
  ASSUME LoopInv, NEW decision, NEW arg \in Arguments, DecideCall(decision, arg)
  PROVE  LoopInv'
<1>1. PICK id : id = saved.pausedOn OBVIOUS
<1>2. PICK call : call = CHOOSE k \in Elements(saved.calls) : k.id = id OBVIOUS
<1>3. PICK given : given = [call EXCEPT !.arg = IF decision = "modified" THEN arg ELSE @] OBVIOUS
<1>4. /\ ~driving /\ saved.status = "awaiting_approval" /\ saved.status \in LoopPaused /\ saved.pausedOn # 0
      /\ UNCHANGED <<place, attempt, batch, late, accepted, cut, produced, crashes>>
  BY DEF DecideCall, LoopPaused
<1>5. \/ /\ granted' = granted \cup {<<id, given.tool, given.arg>>}
         /\ Resumed([saved EXCEPT !.approved = @ \cup {id},
                                  !.calls = [i \in DOMAIN @ |-> IF @[i].id = id THEN given ELSE @[i]]], "planning")
      \/ /\ granted' = granted
         /\ Resumed(Answered(saved, call, "declined"), "planning") \/ Resumed(saved, "failed")
  BY <1>1, <1>2, <1>3 DEF DecideCall
<1>6. saved \in Copies /\ Content(saved, granted) /\ BaseBudget(saved) /\ Asked(saved) BY <1>4, PausedFacts
<1>7. /\ saved.calls # <<>> /\ saved.calls[1].id = id /\ saved.calls[1].tool \in ApprovalTools
      /\ saved.calls[1].tool \in Limited =>
           Cardinality(RanIds(saved, saved.calls[1].tool)) < CallLimit[saved.calls[1].tool]
  BY <1>1, <1>4, <1>6 DEF Asked
<1>8. saved.calls \in Seq(Calls) /\ 1 \in DOMAIN saved.calls /\ saved.calls[1] \in Calls
  <2>1. saved.calls \in Seq(Calls) BY <1>6 DEF Copies
  <2> QED BY <1>7, <2>1
<1>9. call = saved.calls[1]
  <2>1. \A k \in Elements(saved.calls) : k.id = id => k = saved.calls[1]
    <3>1. \A i \in DOMAIN saved.calls : saved.calls[i].id = saved.calls[1].id => i = 1 BY <1>6, <1>8 DEF Content, Paired
    <3> QED BY <1>7, <3>1 DEF Elements
  <2>2. saved.calls[1] \in Elements(saved.calls) BY <1>8 DEF Elements
  <2> QED BY <1>2, <1>7, <2>1, <2>2
<1>10. "planning" \in {"building_context", "planning", "failed"} /\ "failed" \in {"building_context", "planning", "failed"} OBVIOUS
<1>11. CASE /\ granted' = granted \cup {<<id, given.tool, given.arg>>}
            /\ Resumed([saved EXCEPT !.approved = @ \cup {id},
                                     !.calls = [i \in DOMAIN @ |-> IF @[i].id = id THEN given ELSE @[i]]], "planning")
  <2>1. PICK a : a = IF decision = "modified" THEN arg ELSE call.arg OBVIOUS
  <2>2. call \in Calls /\ call.arg \in Args /\ a \in Args
    <3>1. call \in Calls BY <1>8, <1>9
    <3>2. call.arg \in Args BY <3>1, CallParts
    <3>3. arg \in Args BY DEF Args
    <3> QED BY <2>1, <3>1, <3>2, <3>3
  <2>3. given = [call EXCEPT !.arg = a] BY <1>3, <2>1, <2>2 DEF Calls
  <2>4. given \in Calls /\ given.id = id /\ given.tool = call.tool BY <1>7, <1>9, <2>2, <2>3 DEF Calls
  <2>5. PICK calls : calls = [i \in DOMAIN saved.calls |-> IF saved.calls[i].id = given.id THEN given ELSE saved.calls[i]] OBVIOUS
  <2>6. calls \in Seq(Calls)
    <3>1. Len(saved.calls) \in Nat /\ DOMAIN saved.calls = 1..Len(saved.calls) BY <1>8
    <3>2. \A i \in 1..Len(saved.calls) : saved.calls[i] \in Calls BY <1>8
    <3>3. calls \in [1..Len(saved.calls) -> Calls] BY <2>4, <2>5, <3>1, <3>2
    <3> QED BY <3>1, <3>3
  <2>7. PICK approved \in SUBSET CallIds : approved = saved.approved \cup {given.id}
    <3>1. given.id \in CallIds BY <2>4, CallParts
    <3>2. saved.approved \subseteq CallIds BY <1>6 DEF Copies
    <3> QED BY <3>1, <3>2
  <2>8. PICK c : c = [saved EXCEPT !.approved = approved, !.calls = calls] OBVIOUS
  <2>9. Resumed(c, "planning") BY <1>11, <2>4, <2>5, <2>7, <2>8
  <2>10. c \in Copies BY <1>6, <2>6, <2>7, <2>8 DEF Copies
  <2>11. /\ c.steer = saved.steer /\ c.told = saved.told /\ c.models = saved.models /\ c.steps = saved.steps
         /\ c.extensions = saved.extensions
    BY <1>6, <2>8 DEF Copies
  <2>12. /\ c.approved = approved /\ c.done = saved.done /\ c.counts = saved.counts /\ c.seen = saved.seen
         /\ c.log = saved.log /\ c.calls = calls
    BY <1>6, <2>8 DEF Copies
  <2>13. Permitted(saved, c, given) BY <2>5, <2>7, <2>12 DEF Permitted
  <2>14. Content(c, granted \cup {Triple(given)})
    BY <1>6, <1>7, <1>9, <2>4, <2>13, ApprovalKeepsContent
  <2>15. Content(c, granted') BY <1>11, <2>4, <2>14 DEF Triple
  <2>16. BaseBudget(c) BY <1>6, <2>11, SameBudget
  <2> QED BY <1>4, <1>10, <2>9, <2>10, <2>11, <2>15, <2>16, Resuming
<1>12. CASE granted' = granted /\ Resumed(Answered(saved, call, "declined"), "planning")
  <2>1. PICK c : c = Answered(saved, call, "declined") OBVIOUS
  <2>2. /\ c \in Copies /\ Content(c, granted) /\ BaseBudget(c)
        /\ c.steer = saved.steer /\ c.told = saved.told /\ c.models = saved.models
    BY <1>6, <1>7, <1>9, <2>1, AnsweredByPerson
  <2>3. Content(c, granted') BY <1>12, <2>2
  <2>4. Resumed(c, "planning") BY <1>12, <2>1
  <2> QED BY <1>4, <1>10, <2>2, <2>3, <2>4, Resuming
<1>13. CASE granted' = granted /\ Resumed(saved, "failed")
  <2>1. Content(saved, granted') BY <1>6, <1>13
  <2> QED BY <1>4, <1>6, <1>10, <1>13, <2>1, Resuming
<1> QED BY <1>5, <1>11, <1>12, <1>13

\* Every step keeps the invariant.
LEMMA LoopInvKept ==
  ASSUME LoopInv, [LoopNext]_loopVars
  PROVE  LoopInv'
<1>1. CASE UNCHANGED loopVars
  <2>1. /\ copy' = copy /\ saved' = saved /\ driving' = driving /\ place' = place /\ attempt' = attempt
        /\ batch' = batch /\ inbox' = inbox /\ late' = late /\ accepted' = accepted /\ cut' = cut
        /\ granted' = granted /\ produced' = produced /\ crashes' = crashes
    BY <1>1 DEF loopVars
  <2>2. LoopTypes' /\ Checkpointed' BY <2>1 DEF LoopInv, LoopTypes, Checkpointed
  <2>3. Placed'
    <3>1. LimitReason(copy') = LimitReason(copy) BY <2>1
    <3> QED BY <2>1, <3>1 DEF LoopInv, Placed
  <2>4. Budgeted' /\ Steered' BY <2>1 DEF LoopInv, Budgeted, Steered
  <2>5. Content(copy', granted') /\ Asked(copy') /\ BatchSound(copy', batch', 0, granted') BY <2>1 DEF LoopInv
  <2> QED BY <2>2, <2>3, <2>4, <2>5 DEF LoopInv
<1>2. CASE LoopNext
  <2>1. CASE ExtendOrAsk BY <2>1, ExtendOrAskKeeps
  <2>2. CASE BuildContext BY <2>2, BuildContextKeeps
  <2>3. CASE DeliverSteering BY <2>3, DeliverSteeringKeeps
  <2>4. CASE InvokeModel BY <2>4, InvokeModelKeeps
  <2>5. CASE ModelReplies BY <2>5, ModelRepliesKeeps
  <2>6. ASSUME NEW charged \in BOOLEAN, ModelRetry(charged) PROVE LoopInv' BY <2>6, ModelRetryKeeps
  <2>7. CASE InvokeAgain BY <2>7, InvokeAgainKeeps
  <2>8. CASE AdmitTools BY <2>8, AdmitToolsKeeps
  <2>9. CASE AskApproval BY <2>9, AskApprovalKeeps
  <2>10. CASE SettleTools BY <2>10, SettleToolsKeeps
  <2>11. CASE LoopRaises BY <2>11, LoopRaisesKeeps
  <2>12. CASE CompleteRun BY <2>12, CompleteRunKeeps
  <2>13. CASE EndDrive BY <2>13, EndDriveKeeps
  <2>14. CASE KeepLate BY <2>14, KeepLateKeeps
  <2>15. CASE SteerRun BY <2>15, SteerRunKeeps
  <2>16. CASE CallSettled BY <2>16, CallSettledKeeps
  <2>17. CASE CancelDriven BY <2>17, CancelDrivenKeeps
  <2>18. CASE CrashAndRecover BY <2>18, CrashAndRecoverKeeps
  <2>19. ASSUME NEW d, DecideExtension(d) PROVE LoopInv' BY <2>19, DecideExtensionKeeps
  <2>20. ASSUME NEW d, NEW arg \in Arguments, DecideCall(d, arg) PROVE LoopInv' BY <2>20, DecideCallKeeps
  <2> QED BY <1>2, <2>1, <2>2, <2>3, <2>4, <2>5, <2>6, <2>7, <2>8, <2>9, <2>10, <2>11, <2>12, <2>13, <2>14, <2>15, <2>16, <2>17,
             <2>18, <2>19, <2>20 DEF LoopNext
<1> QED BY <1>1, <1>2

\* A run that has just been created.
LEMMA LoopBegins ==
  ASSUME LoopInit
  PROVE  LoopInv
<1>1. /\ copy = FirstCopy /\ saved = FirstCopy /\ driving = TRUE /\ place = "top"
      /\ attempt = 0 /\ batch = <<>> /\ inbox = <<>> /\ late = <<>> /\ accepted = 0
      /\ cut = {} /\ granted = {} /\ produced = 0 /\ crashes = 0
  BY DEF LoopInit
<1>2. PICK c : c = FirstCopy OBVIOUS
<1>3. NoCounts \in Counts BY DEF NoCounts, Counts
<1>4. c \in Copies
  <2>1. "building_context" \in Statuses BY DEF Statuses
  <2>2. 0 \in Extensions /\ 0 \in 0..MaxCallId BY LoopAssumption DEF Extensions
  <2> QED BY <1>2, <1>3, <2>1, <2>2 DEF FirstCopy, Copies
<1>5. /\ c.status = "building_context" /\ c.steps = 0 /\ c.models = 0 /\ c.extensions = 0 /\ c.calls = <<>> /\ c.done = {}
      /\ c.approved = {} /\ c.log = <<>> /\ c.steer = <<>> /\ c.told = <<>> /\ c.pausedOn = 0 /\ c.counts = NoCounts
  BY <1>2 DEF FirstCopy
<1>6. DOMAIN c.log = {} /\ DOMAIN c.calls = {} BY <1>5
<1>7. Paired(c) /\ Approved(c, {}) /\ Remembered(c) /\ Fresh(c)
  BY <1>5, <1>6 DEF Paired, Approved, Remembered, Fresh
<1>8. Within(c)
  <2>1. \A t : RanIds(c, t) = {} BY <1>6 DEF RanIds, Ran
  <2>2. Cardinality({}) = 0 BY FS_EmptySet
  <2>3. \A t \in Limited : CallLimit[t] \in Nat /\ c.counts[t] = 0 BY <1>5, LoopAssumption DEF Limited, NoCounts
  <2> QED BY <2>1, <2>2, <2>3 DEF Within
<1>9. Content(c, {}) BY <1>7, <1>8 DEF Content
<1>10. BatchSound(c, <<>>, 0, {}) /\ <<>> \in Seq(Items) BY <1>9, NoBatch
<1>11. BaseBudget(c) /\ StepBudget(c, 0) /\ Charged(c, 0)
  <2>1. StepLimit(c) \in Nat /\ ModelCallLimit(c) \in Nat BY <1>4, LimitTypes
  <2>2. MaxAttempts \in Nat \ {0} BY LoopAssumption
  <2> QED BY <1>5, <2>1, <2>2 DEF BaseBudget, StepBudget, Charged
<1>12. Messages(c, c, <<>>, <<>>, 0, {})
  <2>1. Holds(c) = {} /\ Distinct(c.told) /\ Distinct(c.steer) /\ Apart(Elements(c.told), Elements(c.steer))
    BY <1>5, NoMessages DEF Holds, Apart
  <2>2. 1..0 = {} OBVIOUS
  <2>3. Waiting(c, <<>>, <<>>) BY <2>1, NoMessages DEF Waiting, Apart
  <2> QED BY <2>1, <2>2, <2>3, NoMessages DEF Messages, Apart
<1>13. LoopTypes BY <1>1, <1>2, <1>4, <1>10, NoMessages, LoopAssumption DEF LoopTypes
<1>14. Checkpointed
  <2>1. c = [c EXCEPT !.steer = c.steer, !.told = c.told] BY <1>4 DEF Copies
  <2> QED BY <1>1, <1>2, <2>1 DEF Checkpointed
<1>15. Placed BY <1>1, <1>2, <1>5 DEF Placed, Working
<1>16. Budgeted BY <1>1, <1>2, <1>11 DEF Budgeted
<1>17. Steered BY <1>1, <1>2, <1>12 DEF Steered
<1>18. Asked(c) BY <1>5 DEF Asked
<1> QED BY <1>1, <1>2, <1>9, <1>10, <1>13, <1>14, <1>15, <1>16, <1>17, <1>18 DEF LoopInv

-----------------------------------------------------------------------------
(* What the invariant gives.                                               *)

\* A tool with a limit runs no more often: its answers are of calls of their own.
LEMMA LimitsOfTools ==
  ASSUME LoopInv
  PROVE  CallLimitHolds
<1>1. copy \in Copies /\ Paired(copy) /\ Within(copy) BY DEF LoopInv, LoopTypes, Content
<1>2. SUFFICES ASSUME NEW t \in DOMAIN CallLimit
      PROVE  Cardinality({i \in DOMAIN copy.log : copy.log[i].call.tool = t /\ copy.log[i].outcome \in {"ok", "failed"}
                                                  /\ t \in EnabledTools}) <= CallLimit[t]
  BY DEF CallLimitHolds
<1>3. PICK S : S = {i \in DOMAIN copy.log : copy.log[i].call.tool = t /\ copy.log[i].outcome \in {"ok", "failed"}
                                            /\ t \in EnabledTools}
  OBVIOUS
<1>4. CallLimit[t] \in Nat BY LoopAssumption
<1>5. CASE t \notin EnabledTools
  <2>1. S = {} BY <1>3, <1>5
  <2>2. Cardinality(S) = 0 BY <2>1, FS_EmptySet
  <2> QED BY <1>3, <1>4, <2>2
<1>6. CASE t \in EnabledTools
  <2>1. t \in Limited BY <1>6 DEF Limited
  <2>2. Cardinality(RanIds(copy, t)) <= CallLimit[t] BY <1>1, <2>1 DEF Within
  <2>3. IsFiniteSet(RanIds(copy, t)) /\ Cardinality(RanIds(copy, t)) \in Nat BY <1>1, RanFinite
  <2>4. PICK f : f = [i \in S |-> copy.log[i].call.id] OBVIOUS
  <2>5. f \in [S -> RanIds(copy, t)] BY <1>3, <2>4 DEF RanIds, Ran
  <2>6. \A i, j \in S : f[i] = f[j] => i = j BY <1>1, <1>3, <2>4 DEF Paired
  <2>7. f \in Injection(S, RanIds(copy, t)) BY <2>5, <2>6 DEF Injection, IsInjective
  <2>8. IsFiniteSet(S) /\ Cardinality(S) <= Cardinality(RanIds(copy, t)) BY <2>3, <2>7, FS_Injection
  <2>9. Cardinality(S) \in Nat BY <2>8, FS_CardinalityType
  <2> QED BY <1>3, <1>4, <2>2, <2>3, <2>8, <2>9
<1> QED BY <1>5, <1>6

\* A read is in the transcript again only after a change.
LEMMA ReadsAreFresh ==
  ASSUME LoopInv
  PROVE  NoStaleRepeat
<1>1. copy \in Copies /\ Fresh(copy) BY DEF LoopInv, LoopTypes, Content
<1>2. SUFFICES ASSUME NEW i \in DOMAIN copy.log, NEW j \in DOMAIN copy.log, i < j, Reads(copy.log[i].call),
                      copy.log[j].call.id \notin copy.approved, Key(copy.log[i].call) = Key(copy.log[j].call),
                      copy.log[i].outcome = "ok", copy.log[j].outcome = "ok"
      PROVE  \E k \in i..j : copy.log[k].outcome = "ok" /\ ~Reads(copy.log[k].call)
  BY DEF NoStaleRepeat
<1>3. DOMAIN copy.log \subseteq Nat
  <2>1. copy.log \in Seq(Entries) BY <1>1 DEF Copies
  <2>2. DOMAIN copy.log = 1..Len(copy.log) BY <2>1
  <2> QED BY <2>2
<1>4. copy.log[i].call.tool = copy.log[j].call.tool BY <1>2 DEF Key
<1>5. ReadOk(copy.log[i]) /\ ReadOk(copy.log[j]) BY <1>2, <1>4 DEF ReadOk, Reads
<1>6. PICK k \in DOMAIN copy.log : i < k /\ k < j /\ ChangeOk(copy.log[k]) BY <1>1, <1>2, <1>5 DEF Fresh
<1>7. k \in i..j BY <1>3, <1>6
<1> QED BY <1>6, <1>7 DEF ChangeOk

\* A call that needs an approval runs as it was approved.
LEMMA RunsAsApproved ==
  ASSUME LoopInv
  PROVE  ApprovedAsAsked
<1>1. BatchItems(copy, batch, 0, granted) /\ batch \in Seq(Items) BY DEF LoopInv, LoopTypes, BatchSound
<1>2. \A i \in DOMAIN batch : i \in Left(batch, 0)
  <2>1. DOMAIN batch = 1..Len(batch) /\ Len(batch) \in Nat BY <1>1
  <2> QED BY <2>1 DEF Left
<1> QED BY <1>1, <1>2 DEF BatchItems, ApprovedAsAsked, Triple

\* What is used is in the checkpoint, but for the completion under way.
LEMMA UsageIsKept ==
  ASSUME LoopInv
  PROVE  LimitsHold /\ UsageKept
<1>1. BaseBudget(copy) /\ Charged(saved, produced) /\ saved \in Copies /\ crashes \in Nat
  BY DEF LoopInv, LoopTypes, Budgeted
<1>2. saved.models \in Nat BY <1>1 DEF Copies
<1> QED BY <1>1, <1>2 DEF BaseBudget, Charged, LimitsHold, UsageKept

\* Accepted messages are in one place, and delivered once.
LEMMA MessagesAccounted ==
  ASSUME LoopInv
  PROVE  SteeringAccounted
<1>1. Messages(copy, saved, inbox, late, accepted, cut) /\ copy \in Copies /\ inbox \in Seq(Nat)
  BY DEF LoopInv, Steered, LoopTypes
<1>2. Waiting(copy, inbox, late) /\ Distinct(inbox) /\ Holds(saved) \subseteq Holds(copy)
      /\ Holds(copy) \cup Elements(inbox) \cup Elements(late) \cup cut = 1..accepted
  BY <1>1 DEF Messages
<1>3. Distinct(copy.told) /\ Distinct(copy.steer) /\ Apart(Elements(copy.told), Elements(copy.steer)) /\ Apart(Holds(copy), Elements(inbox))
  BY <1>2 DEF Waiting
<1>4. Holds(copy) \cup Holds(saved) \cup Elements(inbox) \cup Elements(late) \cup cut = 1..accepted BY <1>2
<1>5. PICK t \in Seq(Nat), u \in Seq(Nat), w \in Seq(Nat) : t = copy.told /\ u = copy.steer /\ w = inbox BY <1>1 DEF Copies
<1>6. Distinct(t \o u) /\ Elements(t \o u) = Elements(t) \cup Elements(u) BY <1>3, <1>5, JoinedElements, JoinedDistinct
<1>7. PICK q \in Seq(Nat) : q = t \o u
  <2>1. t \o u \in Seq(Nat) OBVIOUS
  <2> QED BY <2>1
<1>8. Apart(Elements(q), Elements(w)) BY <1>3, <1>5, <1>6, <1>7 DEF Apart, Holds
<1>9. Distinct(w) BY <1>2, <1>5
<1>10. Distinct(q \o w) BY <1>6, <1>7, <1>8, <1>9, JoinedDistinct
<1>11. Distinct(copy.told \o copy.steer \o inbox) BY <1>5, <1>7, <1>10
<1>12. \A i, j \in DOMAIN (copy.told \o copy.steer \o inbox) :
         i # j => (copy.told \o copy.steer \o inbox)[i] # (copy.told \o copy.steer \o inbox)[j]
  BY <1>11 DEF Distinct
<1> QED BY <1>4, <1>12 DEF SteeringAccounted

\* The transcript is what a provider accepts.
LEMMA TranscriptIsPaired ==
  ASSUME LoopInv
  PROVE  TranscriptPaired
<1>1. Paired(copy) /\ Placed BY DEF LoopInv, Content
<1> QED BY <1>1 DEF Paired, Placed, TranscriptPaired, Elements

\* Statuses, places, attempts and limits keep their types.
LEMMA LoopTypeIsCorrect ==
  ASSUME LoopInv
  PROVE  LoopTypeOK
<1>1. LoopTypes BY DEF LoopInv
<1>2. PICK c \in Copies : c = copy BY <1>1 DEF LoopTypes
<1>3. /\ c.status \in Statuses /\ c.done \subseteq CallIds /\ c.approved \subseteq CallIds
      /\ c.extensions \in 0..(AutoExtensions + MaxExtensions)
  BY <1>2 DEF Copies, Extensions
<1>4. Statuses = {"building_context", "planning", "invoking_model", "retrying", "invoking_tool"} \cup LoopPaused \cup LoopEnded
  BY DEF Statuses, Working
<1> QED BY <1>1, <1>2, <1>3, <1>4 DEF LoopTypes, LoopTypeOK

\* What a run tells the model is sound over replies, pauses, extensions, steering, exceptions, cancels and
\* crashes (AgentRuntime in runtime/runtime.py): calls are answered once, run as they were approved, are not
\* repeated while stale and stay within the limits, and what was used and said is accounted for.
THEOREM LoopIsSafe == LoopSpec => []LoopSafe
<1>1. LoopInit => LoopInv BY LoopBegins
<1>2. LoopInv /\ [LoopNext]_loopVars => LoopInv' BY LoopInvKept
<1>3. LoopInv => LoopSafe
  BY LimitsOfTools, ReadsAreFresh, RunsAsApproved, UsageIsKept, MessagesAccounted, TranscriptIsPaired, LoopTypeIsCorrect DEF LoopSafe
<1> QED BY <1>1, <1>2, <1>3, PTL DEF LoopSpec

-----------------------------------------------------------------------------
(* RunLifecycle. *)

USE LifecycleAssumption

(***************************************************************************)
(* Types: the variables of every kind stay in their sets, whatever drive,  *)
(* handler, crash or outage takes the step.                                *)
(***************************************************************************)
LEMMA StepTypes ==
    ASSUME NEW s, NEW t, Step(s, t)
    PROVE  s \in Active /\ t \in RunStatus
BY DEF Step, LoopStep, LimitStep, ActionStep, ModelStep, ToolStep, VerifyStep, Active, RunStatus, Paused, Terminal

\* Recovery sends a run to a status it can start from (_recovery_status).
LEMMA RecoveryTypes ==
    ASSUME NEW s \in Somewhere
    PROVE  RecoveryStatus(s) \in Somewhere
BY DEF RecoveryStatus, Somewhere, RunStatus, Active, Paused, Terminal

\* The statuses the runtime names are statuses.
LEMMA NamedStatuses ==
    /\ "none" \in Somewhere /\ "received" \in Somewhere /\ "planning" \in Somewhere
    /\ "building_context" \in Somewhere /\ "cancelled" \in Somewhere
    /\ "failed" \in Somewhere /\ "timed_out" \in Somewhere
    /\ \A s \in RunStatus : s \in Somewhere
BY DEF Somewhere, RunStatus, Active, Paused, Terminal

\* TypeOK is an invariant of the lifecycle.
THEOREM TypeCorrect == Spec => []TypeOK
<1> USE NamedStatuses
    DEF vars, details, copies, drive, process, handler, Writers
<1>1. Init => TypeOK
  <2> SUFFICES ASSUME Init PROVE TypeOK
    OBVIOUS
  <2>1. settled \in BOOLEAN
    BY Zenon DEF Init
  <2>2. held \in [Writers -> Somewhere]
    BY DEF Init
  <2> QED BY <2>1, <2>2 DEF Init, TypeOK
<1>2. TypeOK /\ [Next]_vars => TypeOK'
  <2> SUFFICES ASSUME TypeOK, [Next]_vars PROVE TypeOK'
    OBVIOUS
  <2> USE DEF TypeOK, Read, Save, Discard, Leaves, DriveEnds, Except, Enter, Request, Finish
  <2>1. ASSUME NEW n \in Nodes, DriveReads(n) PROVE TypeOK'
    BY <2>1 DEF DriveReads
  <2>2. ASSUME NEW n \in Nodes, Checkpoint(n) PROVE TypeOK'
    <3>1. PICK t \in RunStatus :
            /\ Step(held[n], t)
            /\ \/ Save(n, t) /\ PausesFor(held[n], t) /\ UNCHANGED drive
               \/ Leaves(n) /\ DriveEnds(n) /\ UNCHANGED <<details, handler>>
      BY <2>2 DEF Checkpoint
    <3>2. UNCHANGED process
      BY <2>2 DEF Checkpoint
    <3>3. CASE Save(n, t) /\ PausesFor(held[n], t) /\ UNCHANGED drive
      <4>1. kind' \in {"none", "tool", "planning", "building_context"}
        BY <3>1, <3>3 DEF PausesFor, Step, LoopStep, LimitStep, ActionStep, ModelStep, ToolStep, VerifyStep
      <4>2. /\ approval' \in {"none", "pending", "approved", "rejected", "expired"}
            /\ asked' \subseteq Handlers
            /\ settled' \in BOOLEAN
            /\ UNCHANGED <<deadline, hpc, hkind, hnode, hgoal>>
        BY <3>3 DEF PausesFor
      <4> QED BY <3>2, <3>3, <4>1, <4>2
    <3>4. CASE Leaves(n) /\ DriveEnds(n) /\ UNCHANGED <<details, handler>>
      BY <3>2, <3>4
    <3> QED BY <3>1, <3>3, <3>4
  <2>3. ASSUME NEW n \in Nodes, Returns(n) \/ Raises(n) \/ TimesOut(n) PROVE TypeOK'
    BY <2>3 DEF Returns, Raises, TimesOut
  <2>4. ASSUME NEW n \in Nodes, ExceptReads(n) PROVE TypeOK'
    BY <2>4 DEF ExceptReads
  <2>5. ASSUME NEW n \in Nodes, pc[n] = "writing", ExceptMaySave(n)
        PROVE  ExceptTarget(n) \in Somewhere
    BY <2>5, RecoveryTypes DEF ExceptTarget, ExceptMaySave, Legal
  <2>6. ASSUME NEW n \in Nodes, ExceptWrites(n) PROVE TypeOK'
    BY <2>5, <2>6 DEF ExceptWrites
  <2>7. ASSUME NEW n \in Nodes, DriveOutage(n) PROVE TypeOK'
    <3>1. /\ DriveEnds(n) /\ UNCHANGED mode
          /\ outage' = IF mode[n] = "up" THEN outage \cup {n} ELSE outage
      BY <2>7 DEF DriveOutage
    <3>2. outage' \subseteq Nodes
      BY <3>1
    <3>3. CASE Leaves(n) /\ UNCHANGED <<details, handler>>
      BY <3>1, <3>2, <3>3
    <3>4. CASE /\ \E t \in RunStatus :
                     Step(held[n], t) /\ status' = t /\ PausesFor(held[n], t)
               /\ fresh' = {}
               /\ held' = [held EXCEPT ![n] = "none"]
      <4>1. PICK t \in RunStatus : Step(held[n], t) /\ status' = t /\ PausesFor(held[n], t)
        BY <3>4
      <4>2. kind' \in {"none", "tool", "planning", "building_context"}
        BY <4>1 DEF PausesFor, Step, LoopStep, LimitStep, ActionStep, ModelStep, ToolStep, VerifyStep
      <4>3. /\ approval' \in {"none", "pending", "approved", "rejected", "expired"}
            /\ asked' \subseteq Handlers
            /\ settled' \in BOOLEAN
            /\ UNCHANGED <<deadline, hpc, hkind, hnode, hgoal>>
        BY <4>1 DEF PausesFor
      <4> QED BY <3>1, <3>2, <3>4, <4>1, <4>2, <4>3
    <3>5. CASE /\ pc[n] = "writing" /\ ExceptMaySave(n)
               /\ status' = ExceptTarget(n)
               /\ fresh' = {}
               /\ held' = [held EXCEPT ![n] = "none"]
               /\ UNCHANGED <<details, handler>>
      BY <2>5, <3>1, <3>2, <3>5
    <3> QED BY <2>7, <3>3, <3>4, <3>5 DEF DriveOutage
  <2>8. ASSUME NEW h \in Handlers, NEW n \in Nodes,
               Start(h, n) \/ Cancel(h, n) \/ Resume(h, n) \/ SteerPaused(h, n)
                 \/ Expire(h, n) \/ Continue(h, n)
        PROVE  TypeOK'
    BY <2>8 DEF Start, Cancel, Resume, SteerPaused, Expire, Continue
  <2>9. ASSUME NEW h \in Handlers, NEW n \in Nodes, Recover(h, n) \/ Retry(h, n) PROVE TypeOK'
    BY <2>9, RecoveryTypes DEF Recover, Retry
  <2>10. ASSUME NEW h \in Handlers, CancelTask(h) PROVE TypeOK'
    BY <2>10 DEF CancelTask, Interrupt, Running
  <2>11. ASSUME NEW h \in Handlers, Decide(h) PROVE TypeOK'
    BY <2>11 DEF Decide, Accept
  <2>12. ASSUME NEW h \in Handlers, ExpireChecks(h) \/ Answers(h) \/ Schedule(h) PROVE TypeOK'
    BY <2>12 DEF ExpireChecks, Answers, Schedule
  <2>13. ASSUME NEW h \in Handlers, HandlerSaves(h) PROVE TypeOK'
    BY <2>13 DEF HandlerSaves, Restored
  <2>14. ASSUME NEW h \in Handlers, HandlerOutage(h) PROVE TypeOK'
    <3>1. /\ Finish(h) /\ UNCHANGED <<drive, outage>>
          /\ mode' = IF hkind[h] = "recover" THEN [mode EXCEPT ![hnode[h]] = "down"] ELSE mode
      BY <2>14 DEF HandlerOutage
    <3>2. CASE Discard(h) /\ UNCHANGED details
      BY <3>1, <3>2
    <3>3. CASE /\ approval' \in {"approved", "rejected"} /\ Discard(h)
               /\ UNCHANGED <<deadline, kind, settled>>
      BY <3>1, <3>3
    <3>4. CASE /\ status' = hgoal[h] /\ fresh' = {} /\ held' = [held EXCEPT ![h] = "none"]
               /\ deadline' = Restored(h) /\ UNCHANGED <<approval, kind, settled>>
      BY <3>1, <3>4 DEF Restored
    <3> QED BY <2>14, <3>2, <3>3, <3>4 DEF HandlerOutage
  <2>15. ASSUME NEW n \in Nodes, Process(n) PROVE TypeOK'
    <3>1. CASE Crash(n)
      BY <3>1 DEF Crash
    <3>2. CASE Restart(n) \/ Shutdown(n) \/ ShutdownCancels(n)
      BY <3>2 DEF Restart, Shutdown, ShutdownCancels
    <3> QED BY <2>15, <3>1, <3>2 DEF Process
  <2>16. CASE DeadlinePasses \/ ApprovalExpires \/ OperatorSettles
    BY <2>16 DEF DeadlinePasses, ApprovalExpires, OperatorSettles
  <2>17. CASE UNCHANGED vars
    BY <2>17
  <2> HIDE DEF TypeOK
  <2> QED
    BY <2>1, <2>2, <2>3, <2>4, <2>6, <2>7, <2>8, <2>9, <2>10, <2>11, <2>12, <2>13, <2>14,
       <2>15, <2>16, <2>17
    DEF Next, Drive, Begin, Handle
<1> QED BY <1>1, <1>2, PTL DEF Spec

-----------------------------------------------------------------------------
(***************************************************************************)
(* The inductive invariant.  A current held shows the stored status, so a  *)
(* write that passes the version check acts on the run as it is; OnCourse  *)
(* says what a handler is about to write and why, and that the decision it *)
(* acts on still stands while its held is current.                         *)
(***************************************************************************)
AboutToSave(h) ==
    \/ hkind[h] = "cancel" /\ hgoal[h] = "cancelled"
    \/ hkind[h] = "expire" /\ hgoal[h] = "timed_out"
    \/ hkind[h] = "steer" /\ hgoal[h] = held[h]
    \/ hkind[h] = "continue" /\ held[h] = "awaiting_reconciliation"
    \/ hkind[h] = "recover" /\ held[h] \in Active
         /\ (hgoal[h] = "timed_out" \/ hgoal[h] = RecoveryStatus(held[h]))
    \/ hkind[h] = "retry" /\ held[h] \in Active /\ hgoal[h] = RecoveryStatus(held[h])
    \/ hkind[h] = "resume" /\ held[h] = "awaiting_clarification"
    \/ hkind[h] = "resume" /\ held[h] = "awaiting_approval"
         /\ (hgoal[h] = "failed" \/ (h \in fresh => approval = "approved"))
    \/ hkind[h] = "declined" /\ held[h] = "awaiting_approval"
         /\ OnRejection = "continue"
         /\ (h \in fresh => approval = "rejected" /\ kind = "tool")

OnCourse(h) ==
    /\ hpc[h] = "cancelling" => hkind[h] = "cancel" /\ hgoal[h] = "cancelled"
    /\ hpc[h] = "checking" => hkind[h] = "expire" /\ hgoal[h] = "timed_out"
    /\ hpc[h] = "deciding" => hkind[h] = "resume" /\ held[h] = "awaiting_approval"
    /\ hpc[h] = "saving" => AboutToSave(h)

LifecycleInv == CopiesCoherent /\ \A h \in Handlers : OnCourse(h)

\* What a drive saves next is a legal transition from what it read (TRANSITIONS).
LEMMA StepIsLegal ==
    ASSUME NEW s, NEW t, Step(s, t)
    PROVE  s = t \/ Legal(s, t)
BY DEF Step, LoopStep, LimitStep, ActionStep, ModelStep, ToolStep, VerifyStep, Legal

\* The invariant the properties below follow from holds in every reachable state.
LEMMA LifecycleInvHolds == Spec => [](TypeOK /\ LifecycleInv)
<1> USE DEF vars, details, copies, drive, process, handler, Writers
<1>1. Init => LifecycleInv
  BY DEF Init, LifecycleInv, CopiesCoherent, OnCourse
<1>2. TypeOK /\ LifecycleInv /\ [Next]_vars => LifecycleInv'
  <2> SUFFICES ASSUME TypeOK, LifecycleInv, [Next]_vars PROVE LifecycleInv'
    OBVIOUS
  <2> USE DEF TypeOK, LifecycleInv, CopiesCoherent, OnCourse, AboutToSave,
              Read, Save, Discard, Leaves, DriveEnds, Except, Enter, Request, Finish
  <2>1. ASSUME NEW n \in Nodes,
               DriveReads(n) \/ Returns(n) \/ Raises(n) \/ TimesOut(n) \/ ExceptReads(n)
                 \/ ExceptWrites(n)
        PROVE  LifecycleInv'
    BY <2>1 DEF DriveReads, Returns, Raises, TimesOut, ExceptReads, ExceptWrites
  <2>2. ASSUME NEW n \in Nodes, Checkpoint(n) PROVE LifecycleInv'
    <3>1. PICK t \in RunStatus :
            \/ Save(n, t) /\ PausesFor(held[n], t)
            \/ Leaves(n) /\ UNCHANGED <<details, handler>>
      BY <2>2 DEF Checkpoint
    <3>2. CASE Save(n, t) /\ PausesFor(held[n], t)
      BY <3>2 DEF PausesFor
    <3>3. CASE Leaves(n) /\ UNCHANGED <<details, handler>>
      BY <3>3
    <3> QED BY <3>1, <3>2, <3>3
  <2>3. ASSUME NEW n \in Nodes, DriveOutage(n) PROVE LifecycleInv'
    <3>1. CASE Leaves(n) /\ UNCHANGED <<details, handler>>
      BY <3>1
    <3>2. CASE /\ fresh' = {} /\ held' = [held EXCEPT ![n] = "none"]
               /\ UNCHANGED <<hpc, hkind, hgoal>>
      BY <3>2
    <3> QED BY <2>3, <3>1, <3>2 DEF DriveOutage, PausesFor
  <2>4. ASSUME NEW h \in Handlers, NEW n \in Nodes,
               Start(h, n) \/ Cancel(h, n) \/ Resume(h, n) \/ SteerPaused(h, n)
                 \/ Expire(h, n) \/ Continue(h, n)
        PROVE  LifecycleInv'
    <3>1. CASE Start(h, n)
      BY <3>1 DEF Start
    <3>2. CASE Cancel(h, n) \/ SteerPaused(h, n) \/ Continue(h, n)
      BY <3>2 DEF Cancel, SteerPaused, Continue
    <3>3. CASE Resume(h, n)
      BY <3>3 DEF Resume
    <3>4. CASE Expire(h, n)
      BY <3>4 DEF Expire
    <3> QED BY <2>4, <3>1, <3>2, <3>3, <3>4
  <2>5. ASSUME NEW h \in Handlers, NEW n \in Nodes, Recover(h, n) \/ Retry(h, n)
        PROVE  LifecycleInv'
    <3>1. CASE Recover(h, n)
      BY <3>1 DEF Recover
    <3>2. CASE Retry(h, n)
      BY <3>2 DEF Retry
    <3> QED BY <2>5, <3>1, <3>2
  <2>6. ASSUME NEW h \in Handlers, CancelTask(h) PROVE LifecycleInv'
    <3>1. CASE DriveEnds(hnode[h]) /\ Leaves(hnode[h])
      BY <2>6, <3>1 DEF CancelTask
    <3>2. CASE UNCHANGED copies
      BY <2>6, <3>2 DEF CancelTask
    <3> QED BY <2>6, <3>1, <3>2 DEF CancelTask, Interrupt
  <2>7. ASSUME NEW h \in Handlers, Decide(h) PROVE LifecycleInv'
    BY <2>7 DEF Decide, Decidable, Accept
  <2>8. ASSUME NEW h \in Handlers, ExpireChecks(h) \/ Answers(h) \/ Schedule(h)
        PROVE  LifecycleInv'
    BY <2>8 DEF ExpireChecks, Answers, Schedule
  <2>9. ASSUME NEW h \in Handlers, HandlerSaves(h) PROVE LifecycleInv'
    BY <2>9 DEF HandlerSaves
  <2>10. ASSUME NEW h \in Handlers, HandlerOutage(h) PROVE LifecycleInv'
    BY <2>10 DEF HandlerOutage, Decidable
  <2>11. ASSUME NEW n \in Nodes, Process(n) PROVE LifecycleInv'
    BY <2>11 DEF Process, Crash, Restart, Shutdown, ShutdownCancels
  <2>12. CASE DeadlinePasses \/ ApprovalExpires \/ OperatorSettles
    BY <2>12 DEF DeadlinePasses, ApprovalExpires, OperatorSettles
  <2>13. CASE UNCHANGED vars
    BY <2>13
  <2> HIDE DEF LifecycleInv
  <2> QED
    BY <2>1, <2>2, <2>3, <2>4, <2>5, <2>6, <2>7, <2>8, <2>9, <2>10, <2>11, <2>12, <2>13
    DEF Next, Drive, Begin, Handle
<1> QED BY <1>1, <1>2, TypeCorrect, PTL DEF Spec

\* A held that passes the version check shows the stored status.
THEOREM Coherent == Spec => []CopiesCoherent
BY LifecycleInvHolds, PTL DEF LifecycleInv

-----------------------------------------------------------------------------
(***************************************************************************)
(* What a step may do to the stored status.  MayBecome is the step of      *)
(* HistoryIsLegal, FollowsApproval that of RunFollowsDecision.             *)
(***************************************************************************)
MayBecome(s, t) ==
    \/ t = s \/ s = "none"
    \/ Legal(s, t)
    \/ t = RecoveryStatus(s)
    \/ s \in Active /\ t = "timed_out"

FollowsApproval(s, t) ==
    s = "awaiting_approval" /\ t \in Active =>
        \/ approval = "approved"
        \/ approval = "rejected" /\ OnRejection = "continue" /\ kind = "tool"

\* A drive's save that passes the version check is legal from the stored status and follows the decision.
LEMMA DriveWrites ==
    ASSUME TypeOK, LifecycleInv, NEW n \in Nodes, VersionMatches(n), NEW t, Step(held[n], t)
    PROVE  MayBecome(status, t) /\ FollowsApproval(status, t)
<1>1. held[n] = status
  BY DEF LifecycleInv, CopiesCoherent, VersionMatches
<1>2. MayBecome(status, t)
  BY <1>1, StepIsLegal DEF MayBecome
<1>3. FollowsApproval(status, t)
  BY <1>1, StepTypes DEF FollowsApproval, Active
<1> QED BY <1>2, <1>3

\* So is the save of the clause that ends a run on an exception or its deadline.
LEMMA ExceptClauseWrites ==
    ASSUME TypeOK, LifecycleInv, NEW n \in Nodes, ExceptMaySave(n)
    PROVE  MayBecome(status, ExceptTarget(n)) /\ FollowsApproval(status, ExceptTarget(n))
<1>1. held[n] = status
  BY DEF LifecycleInv, CopiesCoherent, VersionMatches, ExceptMaySave
<1>2. MayBecome(status, ExceptTarget(n))
  BY <1>1 DEF MayBecome, ExceptMaySave, ExceptTarget
<1>3. FollowsApproval(status, ExceptTarget(n))
  BY <1>1 DEF FollowsApproval, ExceptTarget, Active, RecoveryStatus, TypeOK
<1> QED BY <1>2, <1>3

\* So is a handler's save.
LEMMA HandlerWrites ==
    ASSUME TypeOK, LifecycleInv, NEW h \in Handlers, hpc[h] = "saving", MaySave(h)
    PROVE  MayBecome(status, hgoal[h]) /\ FollowsApproval(status, hgoal[h])
<1>1. held[h] = status /\ h \in fresh
  BY DEF LifecycleInv, CopiesCoherent, VersionMatches, MaySave
<1>2. AboutToSave(h)
  BY DEF LifecycleInv, OnCourse
<1>3. MayBecome(status, hgoal[h])
  BY <1>1, <1>2 DEF MayBecome, MaySave, AboutToSave
<1>4. FollowsApproval(status, hgoal[h])
  BY <1>1, <1>2 DEF FollowsApproval, AboutToSave, Active
<1> QED BY <1>3, <1>4

\* Every change of the stored status is one of these saves.
LEMMA StatusMoves ==
    ASSUME TypeOK, LifecycleInv, [Next]_vars
    PROVE  MayBecome(status, status') /\ FollowsApproval(status, status')
<1> DEFINE Allowed == MayBecome(status, status') /\ FollowsApproval(status, status')
<1> USE DEF vars, details, copies
<1>1. CASE UNCHANGED status
  BY <1>1 DEF MayBecome, FollowsApproval, Active
<1>2. ASSUME NEW n \in Nodes, Checkpoint(n) PROVE Allowed
  BY <1>1, <1>2, DriveWrites DEF Checkpoint, Save, Discard, Leaves
<1>3. ASSUME NEW n \in Nodes, ExceptWrites(n) PROVE Allowed
  BY <1>1, <1>3, ExceptClauseWrites DEF ExceptWrites, Discard, Leaves
<1>4. ASSUME NEW n \in Nodes, DriveOutage(n) PROVE Allowed
  BY <1>1, <1>4, DriveWrites, ExceptClauseWrites DEF DriveOutage, Discard, Leaves
<1>5. ASSUME NEW h \in Handlers, NEW n \in Nodes, Start(h, n) PROVE Allowed
  BY <1>5 DEF Start, MayBecome, FollowsApproval
<1>6. ASSUME NEW h \in Handlers, HandlerSaves(h) PROVE Allowed
  BY <1>1, <1>6, HandlerWrites DEF HandlerSaves, Save, Discard, Leaves
<1>7. ASSUME NEW h \in Handlers, HandlerOutage(h) PROVE Allowed
  BY <1>1, <1>7, HandlerWrites DEF HandlerOutage, Discard, Leaves
<1>8. ASSUME NEW n \in Nodes,
             DriveReads(n) \/ Returns(n) \/ Raises(n) \/ TimesOut(n) \/ ExceptReads(n)
      PROVE  UNCHANGED status
  BY <1>8 DEF DriveReads, Returns, Raises, TimesOut, ExceptReads, Read, Discard, Leaves
<1>9. ASSUME NEW h \in Handlers, NEW n \in Nodes, Begin(h, n), ~Start(h, n) PROVE UNCHANGED status
  BY <1>9 DEF Begin, Cancel, Resume, SteerPaused, Expire, Continue, Recover, Retry, Request, Read
<1>10. ASSUME NEW h \in Handlers,
              CancelTask(h) \/ Decide(h) \/ ExpireChecks(h) \/ Answers(h) \/ Schedule(h)
       PROVE  UNCHANGED status
  BY <1>10 DEF CancelTask, Interrupt, Decide, ExpireChecks, Answers, Schedule, Discard, Leaves
<1>11. ASSUME NEW n \in Nodes, Process(n) PROVE UNCHANGED status
  BY <1>11 DEF Process, Crash, Restart, Shutdown, ShutdownCancels, Discard, Leaves
<1>12. CASE DeadlinePasses \/ ApprovalExpires \/ OperatorSettles
  BY <1>1, <1>12 DEF DeadlinePasses, ApprovalExpires, OperatorSettles
<1> QED
  BY <1>1, <1>2, <1>3, <1>4, <1>5, <1>6, <1>7, <1>8, <1>9, <1>10, <1>11, <1>12
  DEF Next, Drive, Handle

\* The stored status moves only along the transition table, back to a step's start when
\* an interrupted run is taken up again, or to timed_out.
THEOREM LegalHistory == Spec => HistoryIsLegal
<1>1. TypeOK /\ LifecycleInv /\ [Next]_vars =>
        [\/ status' = status \/ status = "none"
         \/ Legal(status, status')
         \/ status' = RecoveryStatus(status)
         \/ status \in Active /\ status' = "timed_out"]_vars
  BY StatusMoves DEF MayBecome
<1> QED BY <1>1, LifecycleInvHolds, PTL DEF Spec, HistoryIsLegal

\* A run that ended stays as it ended.
THEOREM TerminalRunStays == Spec => TerminalIsFinal
<1>1. TypeOK /\ LifecycleInv /\ [Next]_vars =>
        [(status \in Terminal) => status' = status]_vars
  BY StatusMoves DEF MayBecome, Terminal, Legal, RecoveryStatus, Active
<1> QED BY <1>1, LifecycleInvHolds, PTL DEF Spec, TerminalIsFinal

\* A run waiting for approval goes on only as the stored decision says.
THEOREM FollowsDecision == Spec => RunFollowsDecision
<1>1. TypeOK /\ LifecycleInv /\ [Next]_vars =>
        [status = "awaiting_approval" /\ status' \in Active =>
           \/ approval = "approved"
           \/ approval = "rejected" /\ OnRejection = "continue" /\ kind = "tool"]_vars
  BY StatusMoves DEF FollowsApproval
<1> QED BY <1>1, LifecycleInvHolds, PTL DEF Spec, RunFollowsDecision

-----------------------------------------------------------------------------
(***************************************************************************)
(* Decisions and deadlines.                                                *)
(***************************************************************************)

\* A decision on an approval request is never changed by a later one, by its expiry or by
\* an outage; only a new request takes its place (decide, AwaitApproval).
THEOREM DecisionIsKept == Spec => DecisionStands
<1> DEFINE Stands == (approval \in {"approved", "rejected", "expired"}) /\ approval' # approval
                       => approval' = "pending" /\ status' = "awaiting_approval"
<1>1. [Next]_vars => [Stands]_vars
  <2> SUFFICES ASSUME Next PROVE Stands
    OBVIOUS
  <2> USE DEF vars, details, copies
  <2>1. ASSUME NEW n \in Nodes, Checkpoint(n) PROVE Stands
    BY <2>1 DEF Checkpoint, PausesFor, Save
  <2>2. ASSUME NEW n \in Nodes, DriveOutage(n) PROVE Stands
    BY <2>2 DEF DriveOutage, PausesFor
  <2>3. ASSUME NEW h \in Handlers, Decide(h) \/ HandlerOutage(h) PROVE Stands
    BY <2>3 DEF Decide, Decidable, Accept, HandlerOutage
  <2>4. ASSUME NEW n \in Nodes,
               DriveReads(n) \/ Returns(n) \/ Raises(n) \/ TimesOut(n) \/ ExceptReads(n)
                 \/ ExceptWrites(n) \/ Process(n)
        PROVE  UNCHANGED approval
    BY <2>4 DEF DriveReads, Returns, Raises, TimesOut, ExceptReads, ExceptWrites,
                Process, Crash, Restart, Shutdown, ShutdownCancels
  <2>5. ASSUME NEW h \in Handlers, NEW n \in Nodes, Begin(h, n) PROVE UNCHANGED approval
    BY <2>5 DEF Begin, Start, Cancel, Resume, SteerPaused, Expire, Continue, Recover, Retry,
                Request, Enter
  <2>6. ASSUME NEW h \in Handlers,
               CancelTask(h) \/ ExpireChecks(h) \/ HandlerSaves(h) \/ Answers(h) \/ Schedule(h)
        PROVE  UNCHANGED approval
    BY <2>6 DEF CancelTask, ExpireChecks, HandlerSaves, Answers, Schedule
  <2>7. CASE DeadlinePasses \/ ApprovalExpires \/ OperatorSettles
    BY <2>7 DEF DeadlinePasses, ApprovalExpires, OperatorSettles
  <2> QED
    BY <2>1, <2>2, <2>3, <2>4, <2>5, <2>6, <2>7 DEF Next, Drive, Handle
<1> QED BY <1>1, PTL DEF Spec, DecisionStands

\* A deadline that passed during a pause belongs to a run that is paused or over.
PauseInv == deadline = "paused" => status \in Paused \cup Terminal

\* Time spent waiting for a person is not charged to the run: whatever wakes a paused run, its
\* deadline is moved first (_restore_deadline_after_pause).  An agent that goes on after a
\* refusal does not get it moved, hence the assumption.
THEOREM PauseIsFree ==
    ASSUME OnRejection = "fail"
    PROVE  Spec => []WaitIsFree
<1> USE DEF vars, details, copies
<1>1. Init => PauseInv
  BY DEF Init, PauseInv
<1>2. TypeOK /\ LifecycleInv /\ PauseInv /\ [Next]_vars => PauseInv'
  <2> SUFFICES ASSUME TypeOK, LifecycleInv, PauseInv, [Next]_vars PROVE PauseInv'
    OBVIOUS
  <2>1. CASE UNCHANGED <<status, deadline>>
    BY <2>1 DEF PauseInv, Paused, Terminal
  <2>2. ASSUME NEW w, w \in fresh, NEW t, Step(held[w], t) PROVE status \in Active
    BY <2>2, StepTypes DEF LifecycleInv, CopiesCoherent
  <2>3. ASSUME status \in Active, UNCHANGED deadline PROVE PauseInv'
    BY <2>3 DEF PauseInv, Active, Paused, Terminal
  <2>4. ASSUME NEW n \in Nodes, Checkpoint(n) PROVE PauseInv'
    BY <2>1, <2>2, <2>3, <2>4 DEF Checkpoint, VersionMatches, PausesFor, Leaves, Discard
  <2>5. ASSUME NEW n \in Nodes, ExceptMaySave(n), status' = ExceptTarget(n), UNCHANGED deadline
        PROVE  PauseInv'
    <3>1. held[n] = status
      BY <2>5 DEF ExceptMaySave, VersionMatches, LifecycleInv, CopiesCoherent
    <3>2. CASE goal[n] = "rewind" /\ status \notin Active
      BY <2>5, <3>1, <3>2 DEF PauseInv, ExceptTarget, RecoveryStatus, Active
    <3>3. CASE goal[n] # "rewind"
      <4>1. goal[n] \in Terminal \/ status \in Active
        BY <2>5, <3>1, <3>3 DEF TypeOK, ExceptMaySave, Legal, Active, Terminal
      <4> QED BY <2>3, <2>5, <3>3, <4>1 DEF ExceptTarget, PauseInv
    <3> QED BY <2>3, <2>5, <3>2, <3>3
  <2>6. ASSUME NEW n \in Nodes, ExceptWrites(n) PROVE PauseInv'
    BY <2>1, <2>5, <2>6 DEF ExceptWrites, Leaves, Discard
  <2>7. ASSUME NEW n \in Nodes, DriveOutage(n) PROVE PauseInv'
    BY <2>1, <2>2, <2>3, <2>5, <2>7 DEF DriveOutage, VersionMatches, PausesFor, Leaves, Discard
  <2>8. ASSUME NEW h \in Handlers, NEW n \in Nodes, Begin(h, n) PROVE PauseInv'
    <3>1. CASE Start(h, n)
      BY <3>1 DEF Start, Enter, PauseInv, Paused, Terminal
    <3>2. CASE ~Start(h, n)
      BY <2>1, <2>8, <3>2 DEF Begin, Cancel, Resume, SteerPaused, Expire, Continue, Recover,
                              Retry, Request, Enter, Read
    <3> QED BY <3>1, <3>2
  <2>9. ASSUME NEW h \in Handlers, hpc[h] = "saving", MaySave(h), status' = hgoal[h],
               deadline' = Restored(h)
        PROVE  PauseInv'
    <3>1. held[h] = status /\ AboutToSave(h)
      BY <2>9 DEF MaySave, VersionMatches, LifecycleInv, CopiesCoherent, OnCourse
    <3>2. CASE hkind[h] \in {"recover", "retry"}
      <4>1. status \in Active
        BY <3>1, <3>2 DEF AboutToSave
      <4>2. deadline' # "paused"
        BY <2>9, <4>1 DEF Restored, PauseInv, Active, Paused, Terminal
      <4> QED BY <4>2 DEF PauseInv
    <3>3. CASE hkind[h] \in {"cancel", "expire", "steer"}
      BY <2>9, <3>1, <3>3 DEF AboutToSave, PauseInv, Restored, Terminal
    <3>4. CASE hkind[h] \in {"resume", "continue"}
      BY <2>9, <3>4 DEF PauseInv, Restored
    <3> QED BY <3>1, <3>2, <3>3, <3>4 DEF AboutToSave
  <2>10. ASSUME NEW h \in Handlers, HandlerSaves(h) PROVE PauseInv'
    BY <2>1, <2>9, <2>10 DEF HandlerSaves, Save, Discard
  <2>11. ASSUME NEW h \in Handlers, HandlerOutage(h) PROVE PauseInv'
    BY <2>1, <2>9, <2>11 DEF HandlerOutage, Discard
  <2>12. ASSUME NEW n \in Nodes,
                DriveReads(n) \/ Returns(n) \/ Raises(n) \/ TimesOut(n) \/ ExceptReads(n)
                  \/ Process(n)
         PROVE  PauseInv'
    BY <2>1, <2>12 DEF DriveReads, Returns, Raises, TimesOut, ExceptReads, Read, Discard, Leaves,
       Process, Crash, Restart, Shutdown, ShutdownCancels
  <2>13. ASSUME NEW h \in Handlers,
                CancelTask(h) \/ Decide(h) \/ ExpireChecks(h) \/ Answers(h) \/ Schedule(h)
         PROVE  PauseInv'
    BY <2>1, <2>13 DEF CancelTask, Interrupt, Decide, ExpireChecks, Answers, Schedule, Discard,
       Leaves
  <2>14. CASE DeadlinePasses
    BY <2>14 DEF DeadlinePasses, PauseInv
  <2>15. CASE ApprovalExpires \/ OperatorSettles
    BY <2>1, <2>15 DEF ApprovalExpires, OperatorSettles
  <2> QED
    BY <2>1, <2>4, <2>6, <2>7, <2>8, <2>10, <2>11, <2>12, <2>13, <2>14, <2>15
    DEF Next, Drive, Handle
<1>3. PauseInv => WaitIsFree
  BY DEF PauseInv, WaitIsFree, Active, Paused, Terminal
<1> QED BY <1>1, <1>2, <1>3, LifecycleInvHolds, PTL DEF Spec

-----------------------------------------------------------------------------
(***************************************************************************)
(* A resumed run is driven.  The proof follows who may still start a       *)
(* drive, and which drive it would meet, on one process with a store that  *)
(* answers; requests, sweeps, cancellations, deadlines and restarts        *)
(* overlap as they like.                                                   *)
(***************************************************************************)
\* A handler at work has a process, and nothing is retried while the store answers.
HandlersPlaced ==
    \A h \in Handlers :
        /\ hpc[h] # "idle" <=> hnode[h] \in Nodes
        /\ hpc[h] = "idle" => hkind[h] = "none"
        /\ hkind[h] # "retry"
        /\ hkind[h] = "steer" => hgoal[h] \in Paused

\* A process that is down or recovering runs nothing but its recovery.
StartIsAlone ==
    \A n \in Nodes :
        /\ mode[n] \in {"down", "starting"} => pc[n] = "none"
        /\ mode[n] = "down" => \A h \in Handlers : hpc[h] = "idle"
        /\ mode[n] = "starting" => \A h \in Handlers : hpc[h] # "idle" => hkind[h] = "recover"
        /\ \A h \in Handlers : hkind[h] = "recover" => mode[n] = "starting"
        /\ \A g, h \in Handlers : hkind[g] = "recover" /\ hkind[h] = "recover" => g = h

\* One handler at a time is about to schedule; it meets no drive, unless it continues a run
\* whose pausing drive is still returning.
OneSchedules ==
    \A h \in Handlers : hpc[h] = "scheduling" =>
        /\ status \in Active \cup Terminal
        /\ \A g \in Handlers : hpc[g] = "scheduling" => g = h
        /\ \A n \in Nodes :
             /\ pc[n] # "starting" /\ ~(pc[n] = "work" /\ n \in fresh)
             /\ hkind[h] # "continue" => pc[n] = "none"

\* A drive that begins meets a run that is not paused; none exists before the run does.
DrivesBegin ==
    \A n \in Nodes :
        /\ pc[n] = "starting" => status \in Active \cup Terminal
        /\ status = "none" => pc[n] = "none"

\* While a resume works on the stored checkpoint no drive is left.
ResumeWaited ==
    \A h \in Handlers :
        h \in fresh /\ hpc[h] \in {"deciding", "saving"} /\ hkind[h] \in {"resume", "declined"}
          => \A n \in Nodes : pc[n] = "none"

DrivenInv ==
    /\ outage = {}
    /\ HandlersPlaced
    /\ StartIsAlone
    /\ OneSchedules
    /\ DrivesBegin
    /\ ResumeWaited

\* Each step of the one process leaves a resumed run with a drive, or with a handler about to schedule one.
LEMMA DrivenStep ==
    ASSUME NEW p, Nodes = {p}, ~Outages, TypeOK, LifecycleInv, DrivenInv, [Next]_vars
    PROVE  DrivenInv'
<1> USE DEF vars, details, copies, drive, process, handler, Writers
<1> USE DEF DrivenInv, HandlersPlaced, StartIsAlone, OneSchedules, DrivesBegin, ResumeWaited,
            TypeOK, Paused, Terminal, Active
<1>1. CASE UNCHANGED vars
  BY <1>1
<1>2. ASSUME NEW n \in Nodes, DriveReads(n) PROVE DrivenInv'
  BY <1>2 DEF DriveReads, Read
<1>3. ASSUME NEW n \in Nodes, Checkpoint(n) PROVE DrivenInv'
  <2>1. PICK t \in RunStatus :
          /\ Step(held[n], t)
          /\ \/ n \in fresh /\ Save(n, t) /\ PausesFor(held[n], t) /\ UNCHANGED drive
             \/ n \notin fresh /\ Leaves(n) /\ DriveEnds(n) /\ UNCHANGED <<details, handler>>
    BY <1>3 DEF Checkpoint, VersionMatches
  <2>2. UNCHANGED process /\ pc[n] = "work"
    BY <1>3 DEF Checkpoint
  <2>3. CASE n \in fresh /\ Save(n, t) /\ PausesFor(held[n], t) /\ UNCHANGED drive
    <3>1. /\ \A h \in Handlers : hpc[h] # "scheduling"
          /\ UNCHANGED <<hpc, hkind, hnode, hgoal, pc, mode, outage>>
          /\ fresh' = {n} /\ status' # "none"
      BY <2>2, <2>3 DEF Save, PausesFor, RunStatus
    <3>2. n \notin Handlers
      BY LifecycleAssumption
    <3> QED BY <2>2, <3>1, <3>2
  <2>4. CASE n \notin fresh /\ Leaves(n) /\ DriveEnds(n) /\ UNCHANGED <<details, handler>>
    BY <2>2, <2>4 DEF Leaves, Discard, DriveEnds
  <2> QED BY <2>1, <2>3, <2>4
<1>4. ASSUME NEW n \in Nodes, Returns(n) \/ Raises(n) \/ TimesOut(n) PROVE DrivenInv'
  BY <1>4 DEF Returns, Raises, TimesOut, Leaves, Discard, DriveEnds, Except
<1>5. ASSUME NEW n \in Nodes, ExceptReads(n) PROVE DrivenInv'
  BY <1>5 DEF ExceptReads, Leaves, Discard, DriveEnds, Read
<1>6. ASSUME NEW n \in Nodes, ExceptWrites(n) PROVE DrivenInv'
  <2>1. CASE ExceptMaySave(n)
    <3>1. held[n] = status
      BY <2>1 DEF ExceptMaySave, VersionMatches, LifecycleInv, CopiesCoherent
    <3>2. status \in Active => status' \in Active \cup Terminal
      BY <1>6, <2>1, <3>1 DEF ExceptWrites, ExceptMaySave, ExceptTarget, RecoveryStatus, Legal
    <3>3. status \in Terminal => status' \in Terminal
      BY <1>6, <2>1, <3>1 DEF ExceptWrites, ExceptMaySave, ExceptTarget, RecoveryStatus, Legal
    <3> QED BY <1>6, <2>1, <3>2, <3>3 DEF ExceptWrites, DriveEnds
  <2>2. CASE ~ExceptMaySave(n)
    BY <1>6, <2>2 DEF ExceptWrites, DriveEnds, Leaves, Discard
  <2> QED BY <2>1, <2>2
<1>7. ASSUME NEW h \in Handlers, NEW n \in Nodes, Start(h, n) PROVE DrivenInv'
  BY <1>7 DEF Start, Enter
<1>8. ASSUME NEW h \in Handlers, NEW n \in Nodes,
             Cancel(h, n) \/ SteerPaused(h, n) \/ Expire(h, n) \/ Continue(h, n)
      PROVE  DrivenInv'
  BY <1>8 DEF Cancel, SteerPaused, Expire, Continue, Request, Enter, Read, Serving
<1>9. ASSUME NEW h \in Handlers, NEW n \in Nodes, Resume(h, n) PROVE DrivenInv'
  BY <1>9 DEF Resume, Request, Enter, Read, Serving, Running
<1>10. ASSUME NEW h \in Handlers, NEW n \in Nodes, Recover(h, n) PROVE DrivenInv'
  BY <1>10 DEF Recover, Request, Enter, Read
<1>11. ASSUME NEW h \in Handlers, CancelTask(h) PROVE DrivenInv'
  BY <1>11 DEF CancelTask, Interrupt, Running, Except, DriveEnds, Leaves, Discard,
               LifecycleInv, OnCourse
<1>12. ASSUME NEW h \in Handlers, Decide(h) PROVE DrivenInv'
  BY <1>12 DEF Decide, Accept, Finish, Discard, LifecycleInv, OnCourse
<1>13. ASSUME NEW h \in Handlers, ExpireChecks(h) PROVE DrivenInv'
  BY <1>13 DEF ExpireChecks, Finish, Discard, LifecycleInv, OnCourse
<1>14. ASSUME NEW h \in Handlers, HandlerSaves(h) PROVE DrivenInv'
  <2>1. h \notin Nodes /\ hpc[h] = "saving"
    BY <1>14, LifecycleAssumption DEF HandlerSaves
  <2>2. CASE MaySave(h)
    <3>1. h \in fresh /\ held[h] = status /\ AboutToSave(h)
      BY <2>1, <2>2 DEF MaySave, VersionMatches, LifecycleInv, CopiesCoherent, OnCourse
    <3>2. CASE hkind[h] = "steer" /\ Running(hnode[h])
      BY <1>14, <2>1, <3>2 DEF HandlerSaves, Finish, Discard
    <3>3. CASE ~(hkind[h] = "steer" /\ Running(hnode[h]))
      <4>1. /\ status' = hgoal[h] /\ fresh' = {h} /\ held' = [held EXCEPT ![h] = hgoal[h]]
            /\ hpc' = [hpc EXCEPT ![h] = IF Schedules(h) THEN "scheduling" ELSE "saved"]
            /\ UNCHANGED <<hkind, hnode, hgoal, mode, pc, goal>>
            /\ outage' = {}
        BY <1>14, <2>2, <3>3 DEF HandlerSaves, Save
      <4>2. status # "none" /\ hgoal[h] # "none"
        BY <3>1, <2>2 DEF AboutToSave, MaySave, Legal, RecoveryStatus
      <4>3. status \in Active \cup Terminal => hgoal[h] \in Active \cup Terminal
        BY <3>1, <2>2 DEF AboutToSave, MaySave, Legal, RecoveryStatus
      <4>4. CASE ~Schedules(h)
        BY <2>1, <3>1, <4>1, <4>2, <4>3, <4>4
      <4>5. CASE Schedules(h)
        <5>1. hgoal[h] \in Active
          BY <2>2, <3>1, <4>5 DEF Schedules, AboutToSave, MaySave, Legal, RecoveryStatus
        <5>2. \A g \in Handlers : hpc[g] # "scheduling"
          <6>1. CASE hkind[h] = "recover"
            BY <2>1, <6>1
          <6>2. CASE hkind[h] # "recover"
            BY <3>1, <4>5, <6>2 DEF Schedules, AboutToSave
          <6> QED BY <6>1, <6>2
        <5>3. \A n \in Nodes : pc[n] # "starting" /\ (hkind[h] # "continue" => pc[n] = "none")
          <6>1. CASE hkind[h] = "recover"
            BY <2>1, <6>1
          <6>2. CASE hkind[h] # "recover"
            BY <2>1, <3>1, <4>5, <6>2 DEF Schedules, AboutToSave
          <6> QED BY <6>1, <6>2
        <5> QED BY <2>1, <4>1, <4>2, <4>5, <5>1, <5>2, <5>3
      <4> QED BY <4>4, <4>5
    <3> QED BY <3>2, <3>3
  <2>3. CASE ~MaySave(h)
    BY <1>14, <2>1, <2>3 DEF HandlerSaves, Finish, Discard
  <2> QED BY <2>2, <2>3
<1>15. ASSUME NEW h \in Handlers, Answers(h) PROVE DrivenInv'
  BY <1>15 DEF Answers, Finish, Discard
<1>16. ASSUME NEW h \in Handlers, Schedule(h) PROVE DrivenInv'
  <2>1. hpc[h] = "scheduling" /\ hnode[h] = p
    BY <1>16 DEF Schedule
  <2>2. status \in Active \cup Terminal
    BY <2>1
  <2>3. /\ hpc' = [hpc EXCEPT ![h] = "idle"] /\ hkind' = [hkind EXCEPT ![h] = "none"]
        /\ hnode' = [hnode EXCEPT ![h] = None] /\ hgoal' = [hgoal EXCEPT ![h] = "none"]
        /\ held' = [held EXCEPT ![h] = "none"] /\ fresh' = fresh \ {h}
        /\ UNCHANGED <<status, outage, goal>>
    BY <1>16 DEF Schedule, Finish, Discard
  <2>4. pc' = pc \/ pc' = [pc EXCEPT ![p] = "starting"]
    BY <1>16, <2>1 DEF Schedule
  <2>5. mode' = IF hkind[h] = "recover" THEN [mode EXCEPT ![p] = "up"] ELSE mode
    BY <1>16, <2>1 DEF Schedule
  <2>6. \A g \in Handlers :
          g \in fresh /\ hpc[g] \in {"deciding", "saving"} => hkind[g] \notin {"resume", "declined"}
    BY <2>2 DEF LifecycleInv, CopiesCoherent, OnCourse, AboutToSave
  <2>7. mode[p] = "starting" => hkind[h] = "recover"
    BY <2>1
  <2>8. mode[p] # "down"
    BY <2>1
  <2>9. HandlersPlaced' /\ DrivesBegin' /\ outage' = {}
    BY <2>2, <2>3, <2>4, LifecycleAssumption
  <2>10. StartIsAlone'
    BY <2>1, <2>3, <2>4, <2>5, <2>7, <2>8
  <2>11. OneSchedules' /\ ResumeWaited'
    BY <2>1, <2>3, <2>6
  <2> QED BY <2>9, <2>10, <2>11
<1>17. ASSUME NEW n \in Nodes, Crash(n) PROVE DrivenInv'
  BY <1>17 DEF Crash, DriveEnds
<1>18. ASSUME NEW n \in Nodes, Restart(n) \/ Shutdown(n) \/ ShutdownCancels(n) PROVE DrivenInv'
  BY <1>18 DEF Restart, Shutdown, ShutdownCancels, Except, DriveEnds, Leaves, Discard, Running
<1>19. CASE DeadlinePasses \/ ApprovalExpires \/ OperatorSettles
  BY <1>19 DEF DeadlinePasses, ApprovalExpires, OperatorSettles
<1> HIDE DEF DrivenInv, TypeOK
<1> QED
  BY <1>1, <1>2, <1>3, <1>4, <1>5, <1>6, <1>7, <1>8, <1>9, <1>10, <1>11, <1>12, <1>13, <1>14,
     <1>15, <1>16, <1>17, <1>18, <1>19
  DEF Next, Drive, Begin, Handle, Process, DriveOutage, HandlerOutage, Retry, DrivenInv

\* A run that was resumed is executed: the resume waited for the drive that paused the run, and
\* no other request, sweep, recovery or shutdown lets a drive in between (resume, _schedule).
THEOREM ResumeDrives ==
    ASSUME NEW p, Nodes = {p}, ~Outages
    PROVE  Spec => ResumedRunIsDriven
<1> DEFINE ResumeIsDriven == \A h \in Handlers : Scheduled(h, {"resume", "declined"}) => Driven'
<1>1. Init => DrivenInv
  BY LifecycleAssumption DEF Init, DrivenInv, HandlersPlaced, StartIsAlone, OneSchedules, DrivesBegin, ResumeWaited
<1>2. TypeOK /\ LifecycleInv /\ DrivenInv /\ [Next]_vars => DrivenInv'
  BY DrivenStep
<1>3. TypeOK /\ DrivenInv /\ [Next]_vars => [ResumeIsDriven]_vars
  <2> SUFFICES ASSUME TypeOK, DrivenInv, Next, NEW h \in Handlers,
                      Scheduled(h, {"resume", "declined"})
               PROVE  Driven'
    OBVIOUS
  <2>1. /\ hpc[h] = "scheduling" /\ hpc'[h] = "idle" /\ hkind[h] \in {"resume", "declined"}
        /\ hnode[h] = p /\ mode'[p] # "down" /\ pc[p] = "none"
    BY DEF Scheduled, DrivenInv, HandlersPlaced, OneSchedules
  <2>2. CASE Schedule(h)
    BY <2>1, <2>2 DEF Schedule, Running, Driven, TypeOK
  <2>3. ASSUME NEW n \in Nodes, Process(n) PROVE FALSE
    BY <2>1, <2>3 DEF Process, Crash, Restart, Shutdown, ShutdownCancels, handler, TypeOK
  <2>4. ASSUME NEW n \in Nodes, Drive(n) PROVE FALSE
    BY <2>1, <2>4 DEF Drive, DriveReads, Checkpoint, PausesFor, Returns, Raises, TimesOut, ExceptReads,
       ExceptWrites, DriveOutage, handler
  <2>5. ASSUME NEW g \in Handlers, NEW n \in Nodes, Begin(g, n) PROVE FALSE
    BY <2>1, <2>5 DEF Begin, Start, Cancel, Resume, SteerPaused, Expire, Continue, Recover, Retry,
       Request, Enter, handler, TypeOK
  <2>6. ASSUME NEW g \in Handlers, Handle(g), ~Schedule(h) PROVE FALSE
    BY <2>1, <2>6 DEF Handle, CancelTask, Decide, ExpireChecks, HandlerSaves, Answers, Schedule,
       HandlerOutage, Finish, TypeOK
  <2>7. CASE DeadlinePasses \/ ApprovalExpires \/ OperatorSettles
    BY <2>1, <2>7 DEF DeadlinePasses, ApprovalExpires, OperatorSettles, handler
  <2> QED BY <2>2, <2>3, <2>4, <2>5, <2>6, <2>7 DEF Next
<1> QED BY <1>1, <1>2, <1>3, LifecycleInvHolds, PTL DEF Spec, ResumedRunIsDriven
=============================================================================
