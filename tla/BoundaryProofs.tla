--------------------------- MODULE BoundaryProofs ---------------------------
(***************************************************************************)
(* What is proved of the two ends of the Runtime: clients, the HTTP API    *)
(* and the stream of events, for every number of requests, principals,     *)
(* writers and readers; and calls of models, the router and the wire of a  *)
(* provider, for every number of calls, providers, profiles, names, chunks *)
(* and messages.                                                           *)
(***************************************************************************)
EXTENDS Boundary, SequenceTheorems, FiniteSetTheorems, FunctionTheorems, WellFoundedInduction, TLAPS

-----------------------------------------------------------------------------
(* ApiGateway: a request holds one slot of its tenant and route class from *)
(* its admission until the middleware's finally clause, has no answer      *)
(* before the service or a refusal gave one, and calls a service only for  *)
(* what it may reach.                                                      *)

GateStages == {"idle", "body", "owner", "call", "stream", "left", "done"}
AllThings == UNION {Things(route) : route \in Routes}
GateAskings ==
  [at : GateStages, who : Principals \cup {NoPrincipal}, route : Routes \cup {"none"},
   thing : AllThings \cup {"none"}, read : 0..BodyLimit, slot : RouteClasses \cup {"none"}]
GateKeys == Tenants \X RouteClasses
Bucket == [tokens : Nat, refilled : Nat, active : Nat]
\* A bucket of a class within its policy.
Within(b, policy) == b \in Bucket /\ b.tokens <= policy.burst /\ b.active <= policy.limit

GateTypes ==
  /\ gateTime \in 0..GateUntil /\ live \subseteq ConversationsKnown
  /\ bucket \in [GateKeys -> Bucket]
  /\ \A k \in GateKeys : Within(bucket[k], Policies[k[2]]) /\ bucket[k].refilled <= gateTime
  /\ greq \in [GateRequests -> GateAskings]
  /\ answers \in [GateRequests -> {0, 1}]

\* What a caller may reach.
MayReach(who, what) ==
  /\ what.tenant \in {"", who.tenant}
  /\ (what \in RunsKnown /\ what.conversation # "") =>
       \E c \in ConversationsKnown : c.id = what.conversation /\ c.user = who.user
  /\ what \in ConversationsKnown => what.user = who.user

\* What a request under way has: a caller, a route with a thing of its kind, its slot, and the right to call.
Underway(q) ==
  /\ q.slot # "none" => q.who \in Principals
  /\ q.at \notin {"idle", "done"} => q.who \in Principals
  /\ q.at \in {"body", "owner", "call"} =>
       q.route \in Routes /\ q.thing \in Things(q.route) /\ q.slot = ClassOf(q.route)
  /\ q.at = "left" => q.slot # "none"
  /\ q.at \in {"idle", "done"} => q.slot = "none"
  /\ q.at = "call" => MayReach(q.who, q.thing)

\* A slot of key k, a tenant and a route class.
Holds(q, k) == q.slot = k[2] /\ q.who.tenant = k[1]
Holding(g, k) == {r \in GateRequests : Holds(g[r], k)}
CountOf(k, n) == IF Bounded(Policies[k[2]]) THEN n ELSE 0
Slots ==
  \A k \in GateKeys :
    IsFiniteSet(Holding(greq, k)) /\ bucket[k].active = CountOf(k, Cardinality(Holding(greq, k)))
Unanswered == \A r \in GateRequests : greq[r].at \in {"idle", "body", "owner", "call"} => answers[r] = 0

GateInv ==
  /\ GateTypes /\ Slots /\ Unanswered
  /\ \A r \in GateRequests : Underway(greq[r])
  /\ \A x \in touched : MayReach(x.who, x.what)

\* An API that has served nobody.
LEMMA GateInitInv == GateInit => GateInv
<1> SUFFICES ASSUME GateInit PROVE GateInv OBVIOUS
<1> USE GateAssumption DEF GateInit
<1>1. GateIdle \in GateAskings /\ GateIdle.at = "idle" /\ GateIdle.slot = "none"
  BY DEF GateIdle, GateAskings, GateStages
<1>2. GateTypes
  <2>1. ASSUME NEW k \in GateKeys
        PROVE  /\ bucket[k] = [tokens |-> Policies[k[2]].burst, refilled |-> 0, active |-> 0]
               /\ Within(bucket[k], Policies[k[2]]) /\ bucket[k].refilled <= gateTime
    <3>1. k[2] \in RouteClasses BY DEF GateKeys
    <3>2. Policies[k[2]].burst \in Nat /\ Policies[k[2]].limit \in Nat BY <3>1
    <3>3. bucket[k] = [tokens |-> Policies[k[2]].burst, refilled |-> 0, active |-> 0] BY DEF GateKeys
    <3> QED BY <3>2, <3>3 DEF Within, Bucket
  <2>2. bucket \in [GateKeys -> Bucket]
    <3>1. \A k \in GateKeys : bucket[k] \in Bucket BY <2>1 DEF Within
    <3>2. bucket = [k \in GateKeys |-> bucket[k]] BY DEF GateKeys
    <3> QED BY ONLY <3>1, <3>2
  <2>3. gateTime \in 0..GateUntil /\ live \subseteq ConversationsKnown OBVIOUS
  <2>4. greq \in [GateRequests -> GateAskings] /\ answers \in [GateRequests -> {0, 1}] BY <1>1
  <2>5. \A k \in GateKeys : Within(bucket[k], Policies[k[2]]) /\ bucket[k].refilled <= gateTime BY <2>1
  <2> QED BY ONLY <2>2, <2>3, <2>4, <2>5 DEF GateTypes
<1>3. \A r \in GateRequests : greq[r].at = "idle" /\ greq[r].slot = "none" /\ answers[r] = 0 BY <1>1
<1>4. \A k \in GateKeys : Holding(greq, k) = {}
  <2>1. \A k \in GateKeys : k[2] # "none" BY DEF GateKeys, RouteClasses
  <2> QED BY <1>3, <2>1 DEF Holding, Holds
<1>5. Slots
  <2>1. \A k \in GateKeys : bucket[k].active = 0 BY DEF GateKeys
  <2> QED BY <1>4, <2>1, FS_EmptySet DEF Slots, CountOf
<1> QED BY <1>2, <1>3, <1>5 DEF GateInv, Unanswered, Underway

\* A request moves on: what it holds stays what it held.
LEMMA RequestMoves ==
  ASSUME GateInv, NEW r \in GateRequests, NEW q \in GateAskings, greq' = [greq EXCEPT ![r] = q],
         \A k \in GateKeys : Holds(q, k) <=> Holds(greq[r], k), Underway(q)
  PROVE  /\ greq' \in [GateRequests -> GateAskings]
         /\ \A k \in GateKeys : Holding(greq', k) = Holding(greq, k)
         /\ \A s \in GateRequests : Underway(greq'[s])
         /\ greq'[r] = q /\ \A s \in GateRequests \ {r} : greq'[s] = greq[s]
<1>1. greq \in [GateRequests -> GateAskings] /\ \A s \in GateRequests : Underway(greq[s]) BY DEF GateInv, GateTypes
<1>2. greq'[r] = q /\ (\A s \in GateRequests \ {r} : greq'[s] = greq[s]) /\ greq' \in [GateRequests -> GateAskings]
  BY <1>1
<1>3. ASSUME NEW k \in GateKeys PROVE Holding(greq', k) = Holding(greq, k)
  BY <1>2, <1>3 DEF Holding
<1>4. ASSUME NEW s \in GateRequests PROVE Underway(greq'[s])
  BY <1>1, <1>2
<1> QED BY <1>2, <1>3, <1>4

\* The answers of a request that moves on.
LEMMA AnswersMove ==
  ASSUME GateInv, NEW r \in GateRequests, NEW n \in {0, 1}, answers' = [answers EXCEPT ![r] = n],
         \A s \in GateRequests \ {r} : greq'[s] = greq[s],
         greq'[r].at \in {"idle", "body", "owner", "call"} => n = 0
  PROVE  answers' \in [GateRequests -> {0, 1}] /\ Unanswered'
<1>1. answers \in [GateRequests -> {0, 1}] /\ Unanswered BY DEF GateInv, GateTypes
<1>2. answers'[r] = n /\ (\A s \in GateRequests \ {r} : answers'[s] = answers[s]) /\ answers' \in [GateRequests -> {0, 1}]
  BY <1>1
<1>3. ASSUME NEW s \in GateRequests, greq'[s].at \in {"idle", "body", "owner", "call"} PROVE answers'[s] = 0
  <2>1. CASE s = r BY <1>2, <1>3, <2>1
  <2>2. CASE s # r BY <1>1, <1>2, <1>3, <2>2 DEF Unanswered
  <2> QED BY <2>1, <2>2
<1> QED BY <1>2, <1>3 DEF Unanswered

\* A step of one request that keeps its slot: what is left to show of it.
LEMMA StepKeeps ==
  ASSUME GateInv, NEW r \in GateRequests, NEW q \in GateAskings, greq' = [greq EXCEPT ![r] = q],
         q.slot = greq[r].slot, q.slot # "none" => q.who = greq[r].who, Underway(q),
         NEW n \in {0, 1}, answers' = [answers EXCEPT ![r] = n],
         q.at \in {"idle", "body", "owner", "call"} => n = 0,
         UNCHANGED <<gateTime, bucket>>, live' \subseteq ConversationsKnown,
         \A x \in touched' : MayReach(x.who, x.what)
  PROVE  GateInv'
<1>1. \A k \in GateKeys : Holds(q, k) <=> Holds(greq[r], k)
  <2>1. \A k \in GateKeys : k[2] # "none" BY DEF GateKeys, RouteClasses
  <2> QED BY <2>1 DEF Holds
<1>2. /\ greq' \in [GateRequests -> GateAskings]
      /\ \A k \in GateKeys : Holding(greq', k) = Holding(greq, k)
      /\ \A s \in GateRequests : Underway(greq'[s])
      /\ greq'[r] = q /\ \A s \in GateRequests \ {r} : greq'[s] = greq[s]
  BY <1>1, RequestMoves
<1>3. answers' \in [GateRequests -> {0, 1}] /\ Unanswered' BY <1>2, AnswersMove
<1>4. GateTypes' BY <1>2, <1>3 DEF GateInv, GateTypes
<1>5. Slots' BY <1>2 DEF GateInv, Slots
<1> QED BY <1>2, <1>3, <1>4, <1>5 DEF GateInv

\* A request that leaves: for its release, where its slot is not returned yet.
Gone(r) ==
  IF greq[r].slot = "none" THEN [GateIdle EXCEPT !.at = "done"]
  ELSE [GateIdle EXCEPT !.at = "left", !.who = greq[r].who, !.slot = greq[r].slot]
\* A request that leaves keeps its slot, and with it the caller, until its release.
LEMMA GoneIs ==
  ASSUME GateInv, NEW r \in GateRequests, greq[r].who \in Principals
  PROVE  /\ Gone(r) \in GateAskings /\ Gone(r).at \in {"left", "done"} /\ Underway(Gone(r))
         /\ Gone(r).slot = greq[r].slot /\ (Gone(r).slot # "none" => Gone(r).who = greq[r].who)
<1>1. PICK w \in Principals : w = greq[r].who OBVIOUS
<1>2. PICK c \in RouteClasses \cup {"none"} : c = greq[r].slot BY DEF GateInv, GateTypes, GateAskings
<1>3. 0 \in 0..BodyLimit BY GateAssumption
<1>4. CASE c = "none"
  <2>1. Gone(r) = [at |-> "done", who |-> NoPrincipal, route |-> "none", thing |-> "none", read |-> 0, slot |-> "none"]
    BY <1>2, <1>4 DEF Gone, GateIdle
  <2> QED BY <1>2, <1>3, <1>4, <2>1 DEF GateAskings, GateStages, Underway
<1>5. CASE c # "none"
  <2>1. Gone(r) = [GateIdle EXCEPT !.at = "left", !.who = w, !.slot = c] BY <1>1, <1>2, <1>5 DEF Gone
  <2>2. Gone(r) = [at |-> "left", who |-> w, route |-> "none", thing |-> "none", read |-> 0, slot |-> c]
    BY <2>1 DEF GateIdle
  <2> QED BY <1>1, <1>2, <1>3, <1>5, <2>2 DEF GateAskings, GateStages, Underway
<1> QED BY <1>4, <1>5

\* A request leaves, answered or not.
LEMMA LeavingKeeps ==
  ASSUME GateInv, NEW r \in GateRequests, greq[r].at \notin {"idle", "done"}, Leaving(r),
         NEW n \in {0, 1}, answers' = [answers EXCEPT ![r] = n],
         UNCHANGED <<gateTime, bucket>>, live' \subseteq ConversationsKnown,
         \A x \in touched' : MayReach(x.who, x.what)
  PROVE  GateInv'
<1>1. greq[r].who \in Principals BY DEF GateInv, Underway
<1>2. PICK q : q = Gone(r) OBVIOUS
<1>3. greq' = [greq EXCEPT ![r] = q] BY <1>2 DEF Leaving, Gone
<1>4. /\ q \in GateAskings /\ q.at \in {"left", "done"} /\ Underway(q)
      /\ q.slot = greq[r].slot /\ (q.slot # "none" => q.who = greq[r].who)
  BY <1>1, <1>2, GoneIs
<1> QED BY <1>3, <1>4, StepKeeps

\* The answers of a request in a step that leaves them.
LEMMA AnswersOf ==
  ASSUME GateInv, NEW r \in GateRequests
  PROVE  /\ answers[r] \in {0, 1} /\ answers = [answers EXCEPT ![r] = answers[r]]
         /\ greq[r].at \in {"body", "owner", "call"} => answers[r] = 0
         /\ live \subseteq ConversationsKnown /\ \A x \in touched : MayReach(x.who, x.what)
BY DEF GateInv, GateTypes, Unanswered

\* A request that fails before it holds anything (app.py: the error is its answer).
LEMMA FailsKeeps ==
  ASSUME GateInv, NEW r \in GateRequests, greq[r].at \in {"body", "owner", "call"}, Fails(r),
         UNCHANGED <<gateTime, bucket, live, touched>>
  PROVE  GateInv'
<1>1. answers[r] = 0 BY AnswersOf
<1>2. answers' = [answers EXCEPT ![r] = 1] /\ Leaving(r) BY ONLY <1>1, Fails(r) DEF Fails
<1>3. live' \subseteq ConversationsKnown /\ \A x \in touched' : MayReach(x.who, x.what) BY AnswersOf
<1> QED BY <1>2, <1>3, LeavingKeeps

\* The body is read piece by piece, and refused where it passes the limit.
LEMMA ReceiveKeeps ==
  ASSUME GateInv, NEW r \in GateRequests, NEW size \in 1..BodyLimit, ReceiveBody(r, size)
  PROVE  GateInv'
<1> USE GateAssumption
<1>1. greq[r] \in GateAskings /\ greq[r].read \in Nat /\ Underway(greq[r]) /\ greq \in [GateRequests -> GateAskings]
  BY DEF GateInv, GateTypes, GateAskings
<1>2. greq[r].at \in {"body", "stream"} /\ UNCHANGED <<gateTime, bucket, live, touched>> BY DEF ReceiveBody
<1>3. live' \subseteq ConversationsKnown /\ \A x \in touched' : MayReach(x.who, x.what) BY <1>2, AnswersOf
<1>4. CASE greq[r].read + size > BodyLimit
  <2>1. Leaving(r) /\ AnswerOnce(r) BY <1>4 DEF ReceiveBody
  <2>2. answers' = [answers EXCEPT ![r] = 1] BY <2>1, AnswersOf DEF AnswerOnce
  <2> QED BY <1>2, <1>3, <2>1, <2>2, LeavingKeeps
<1>5. CASE ~(greq[r].read + size > BodyLimit)
  <2>1. PICK q : q = [greq[r] EXCEPT !.read = @ + size] OBVIOUS
  <2>2. greq' = [greq EXCEPT ![r] = q] /\ answers' = answers BY <1>1, <1>5, <2>1 DEF ReceiveBody
  <2>3. /\ q.at = greq[r].at /\ q.who = greq[r].who /\ q.route = greq[r].route /\ q.thing = greq[r].thing
        /\ q.read = greq[r].read + size /\ q.slot = greq[r].slot
    BY <1>1, <2>1 DEF GateAskings
  <2>4. q \in GateAskings
    <3>1. greq[r].read + size \in 0..BodyLimit BY <1>1, <1>5
    <3> QED BY <1>1, <2>1, <3>1 DEF GateAskings
  <2>5. Underway(q) BY <1>1, <2>3 DEF Underway
  <2>6. answers[r] \in {0, 1} /\ answers' = [answers EXCEPT ![r] = answers[r]]
        /\ (q.at \in {"body", "owner", "call"} => answers[r] = 0)
    BY <2>2, <2>3, AnswersOf
  <2>7. q.at # "idle" BY <1>2, <2>3
  <2> QED BY <1>2, <1>3, <2>2, <2>3, <2>4, <2>5, <2>6, <2>7, StepKeeps
<1> QED BY <1>4, <1>5

\* A request goes on to another stage, unanswered still.
LEMMA GoesOnKeeps ==
  ASSUME GateInv, NEW r \in GateRequests, NEW at \in {"owner", "call"}, greq[r].at \in {"body", "owner"},
         greq' = [greq EXCEPT ![r].at = at], at = "call" => MayReach(greq[r].who, greq[r].thing),
         UNCHANGED <<gateTime, bucket, live, touched, answers>>
  PROVE  GateInv'
<1>1. greq[r] \in GateAskings /\ Underway(greq[r]) /\ greq \in [GateRequests -> GateAskings]
  BY DEF GateInv, GateTypes
<1>2. PICK q : q = [greq[r] EXCEPT !.at = at] OBVIOUS
<1>3. greq' = [greq EXCEPT ![r] = q] BY <1>1, <1>2
<1>4. /\ q.at = at /\ q.who = greq[r].who /\ q.route = greq[r].route /\ q.thing = greq[r].thing
      /\ q.slot = greq[r].slot
  BY <1>1, <1>2 DEF GateAskings
<1>5. q \in GateAskings BY <1>1, <1>2 DEF GateAskings, GateStages
<1>6. Underway(q) BY <1>1, <1>4 DEF Underway
<1>7. answers[r] = 0 /\ answers' = [answers EXCEPT ![r] = 0] /\ live' \subseteq ConversationsKnown
      /\ \A x \in touched' : MayReach(x.who, x.what)
  BY AnswersOf
<1> QED BY <1>3, <1>4, <1>5, <1>6, <1>7, StepKeeps

\* The caller's scopes are looked at before its record is (require_scope).
LEMMA ScopeKeeps == ASSUME GateInv, NEW r \in GateRequests, RequireScope(r) PROVE GateInv'
<1>1. greq[r].at = "body" /\ UNCHANGED <<gateTime, bucket, live, touched>> BY DEF RequireScope
<1>2. CASE Fails(r) BY <1>1, <1>2, FailsKeeps
<1>3. CASE greq' = [greq EXCEPT ![r].at = "owner"] /\ UNCHANGED answers BY <1>1, <1>3, GoesOnKeeps
<1> QED BY <1>2, <1>3 DEF RequireScope

\* What the owner check lets through may be reached: a run of a conversation by the conversation's user,
\* also when the conversation is gone.
LEMMA FoundIsReached ==
  ASSUME GateInv, NEW p \in Principals, NEW route \in Routes, NEW x \in Things(route),
         CASE route.on = "run" -> x.tenant = p.tenant /\ OwnerOf(x, p) = p.user
           [] route.on = "conversation" -> x \in live /\ x.tenant = p.tenant /\ x.user = p.user
           [] route.on = "tenant" -> x.tenant = p.tenant
           [] OTHER -> TRUE
  PROVE  MayReach(p, x)
<1>1. live \subseteq ConversationsKnown BY DEF GateInv, GateTypes
<1>2. CASE route.on = "run"
  <2>1. x \in RunsKnown /\ x.tenant = p.tenant /\ OwnerOf(x, p) = p.user BY <1>2 DEF Things
  <2>2. x \notin ConversationsKnown BY <2>1, GateThings
  <2>3. ASSUME x.conversation # "" PROVE \E c \in ConversationsKnown : c.id = x.conversation /\ c.user = p.user
    <3>1. CASE ConversationOf(x) = {}
      <4>1. x.user = p.user BY <2>1, <2>3, <3>1 DEF OwnerOf
      <4> QED BY <2>1, <2>3, <4>1, GateThings
    <3>2. CASE ConversationOf(x) # {}
      <4>1. PICK c : c = CHOOSE d \in ConversationOf(x) : TRUE OBVIOUS
      <4>2. c \in ConversationOf(x) BY <3>2, <4>1
      <4>3. c.user = p.user BY <2>1, <2>3, <3>2, <4>1 DEF OwnerOf
      <4> QED BY <1>1, <4>2, <4>3 DEF ConversationOf
    <3> QED BY <3>1, <3>2
  <2> QED BY <2>1, <2>2, <2>3 DEF MayReach
<1>3. CASE route.on = "conversation"
  <2>1. x \in ConversationsKnown /\ x.tenant = p.tenant /\ x.user = p.user BY <1>1, <1>3 DEF Things
  <2> QED BY <2>1, GateThings DEF MayReach
<1>4. CASE route.on = "tenant"
  <2>1. x \in [id : {"record"}, tenant : Tenants, user : {""}] /\ x.tenant = p.tenant BY <1>4 DEF Things
  <2>2. x \notin RunsKnown \cup ConversationsKnown BY <2>1, GateThings
  <2> QED BY <2>1, <2>2 DEF MayReach
<1>5. CASE route.on \notin {"run", "conversation", "tenant"}
  <2>1. x \in [id : {"nothing"}, tenant : {""}, user : {""}] BY <1>5 DEF Things
  <2>2. x \notin RunsKnown \cup ConversationsKnown BY <2>1, GateThings
  <2> QED BY <2>1, <2>2 DEF MayReach
<1> QED BY <1>2, <1>3, <1>4, <1>5

\* The owner of what is asked for is the caller, now and not when the record was made.
LEMMA OwnerKeeps == ASSUME GateInv, NEW r \in GateRequests, CheckOwner(r) PROVE GateInv'
<1>1. greq[r].at = "owner" /\ UNCHANGED <<gateTime, bucket, live, touched>> BY DEF CheckOwner
<1>2. Underway(greq[r]) BY DEF GateInv
<1>3. greq[r].who \in Principals /\ greq[r].route \in Routes /\ greq[r].thing \in Things(greq[r].route)
  BY <1>1, <1>2 DEF Underway
<1> DEFINE p == greq[r].who
           x == greq[r].thing
           found == CASE greq[r].route.on = "run" -> x.tenant = p.tenant /\ OwnerOf(x, p) = p.user
                      [] greq[r].route.on = "conversation" -> x \in live /\ x.tenant = p.tenant /\ x.user = p.user
                      [] greq[r].route.on = "tenant" -> x.tenant = p.tenant
                      [] OTHER -> TRUE
<1>4. IF found THEN greq' = [greq EXCEPT ![r].at = "call"] /\ UNCHANGED answers ELSE Fails(r)
  BY DEF CheckOwner
<1>5. found => MayReach(p, x) BY <1>3, FoundIsReached
<1> HIDE DEF found
<1>6. CASE found
  <2>1. greq' = [greq EXCEPT ![r].at = "call"] /\ UNCHANGED answers BY <1>4, <1>6
  <2> QED BY <1>1, <1>5, <1>6, <2>1, GoesOnKeeps
<1>7. CASE ~found BY <1>1, <1>4, <1>7, FailsKeeps
<1> QED BY <1>6, <1>7

\* What the service is asked for may be reached, for the check of the owner stands.
LEMMA CallKeeps == ASSUME GateInv, NEW r \in GateRequests, CallService(r) PROVE GateInv'
<1> DEFINE p == greq[r].who
           x == greq[r].thing
           name == greq[r].route.name
<1>1. greq[r].at = "call" /\ UNCHANGED <<gateTime, bucket>> BY DEF CallService
<1>2. Underway(greq[r]) /\ greq[r] \in GateAskings /\ greq \in [GateRequests -> GateAskings] BY DEF GateInv, GateTypes
<1>3. CASE greq[r].route.on = "conversation" /\ x \notin live
  <2>1. Fails(r) /\ UNCHANGED <<live, touched>> BY <1>3 DEF CallService
  <2> QED BY <1>1, <2>1, FailsKeeps
<1>4. CASE ~(greq[r].route.on = "conversation" /\ x \notin live)
  <2>1. /\ live' = IF name = "delete_conversation" THEN live \ {x} ELSE live
        /\ touched' = {[who |-> p, what |-> x]}
        /\ answers' = [answers EXCEPT ![r] = @ + 1]
        /\ IF name \in {"stream_events", "stream_conversation_events"} THEN greq' = [greq EXCEPT ![r].at = "stream"]
           ELSE Leaving(r)
    BY <1>4 DEF CallService
  <2>2. answers[r] = 0 /\ live \subseteq ConversationsKnown BY <1>1, AnswersOf
  <2>3. answers' = [answers EXCEPT ![r] = 1] BY ONLY <2>1, <2>2
  <2>4. live' \subseteq ConversationsKnown BY <2>1, <2>2
  <2>5. MayReach(p, x) /\ p \in Principals BY <1>1, <1>2 DEF Underway
  <2>6. \A y \in touched' : MayReach(y.who, y.what) BY <2>1, <2>5
  <2>7. CASE Leaving(r) BY <1>1, <2>3, <2>4, <2>6, <2>7, LeavingKeeps
  <2>8. CASE greq' = [greq EXCEPT ![r].at = "stream"]
    <3>1. PICK q : q = [greq[r] EXCEPT !.at = "stream"] OBVIOUS
    <3>2. greq' = [greq EXCEPT ![r] = q] BY <1>2, <2>8, <3>1
    <3>3. q.at = "stream" /\ q.who = greq[r].who /\ q.slot = greq[r].slot BY <1>2, <3>1 DEF GateAskings
    <3>4. q \in GateAskings BY <1>2, <3>1 DEF GateAskings, GateStages
    <3>5. Underway(q) BY <2>5, <3>3 DEF Underway
    <3> QED BY <1>1, <2>3, <2>4, <2>6, <3>2, <3>3, <3>4, <3>5, StepKeeps
  <2> QED BY <2>1, <2>7, <2>8
<1> QED BY <1>3, <1>4

\* A client goes away wherever its request is: the slot comes back.
LEMMA AbortKeeps == ASSUME GateInv, NEW r \in GateRequests, Aborted(r) PROVE GateInv'
<1>1. Leaving(r) /\ greq[r].at \notin {"idle", "done"} /\ UNCHANGED <<gateTime, bucket, live, touched, answers>>
  BY DEF Aborted
<1>2. answers[r] \in {0, 1} /\ answers' = [answers EXCEPT ![r] = answers[r]] /\ live' \subseteq ConversationsKnown
      /\ \A x \in touched' : MayReach(x.who, x.what)
  BY <1>1, AnswersOf
<1> QED BY <1>1, <1>2, LeavingKeeps

\* A released request leaves its key one slot more, and the others what they had; a second release finds none.
LEMMA ReleaseSlotKeeps == ASSUME GateInv, NEW r \in GateRequests, ReleaseSlot(r) PROVE GateInv'
<1>1. GateTypes /\ Slots /\ Unanswered /\ Underway(greq[r]) BY DEF GateInv
<1>2. /\ greq[r].at \in {"stream", "left"} /\ greq[r].slot # "none"
      /\ UNCHANGED <<gateTime, live, touched, answers>>
  BY DEF ReleaseSlot
<1>3. greq[r] \in GateAskings /\ greq[r].who \in Principals /\ greq[r].slot \in RouteClasses
  BY <1>1, <1>2 DEF GateTypes, GateAskings, Underway
<1>4. PICK k \in GateKeys : k = <<greq[r].who.tenant, greq[r].slot>> BY <1>3 DEF Tenants, GateKeys
<1>4a. k[1] = greq[r].who.tenant /\ k[2] = greq[r].slot /\ k[2] \in RouteClasses BY <1>3, <1>4
<1>5. PICK q : q = IF greq[r].at = "left" THEN [GateIdle EXCEPT !.at = "done"] ELSE [greq[r] EXCEPT !.slot = "none"]
  OBVIOUS
<1>7. q \in GateAskings /\ q.at \in {"stream", "done"} /\ q.slot = "none" /\ Underway(q)
  <2>1. 0 \in 0..BodyLimit BY GateAssumption
  <2>2. CASE greq[r].at = "left"
    <3>1. q = [at |-> "done", who |-> NoPrincipal, route |-> "none", thing |-> "none", read |-> 0, slot |-> "none"]
      BY <1>5, <2>2 DEF GateIdle
    <3> QED BY <2>1, <3>1 DEF GateAskings, GateStages, Underway
  <2>3. CASE greq[r].at = "stream"
    <3>1. q = [greq[r] EXCEPT !.slot = "none"] BY <1>5, <2>3
    <3>2. q \in GateAskings BY <1>3, <3>1 DEF GateAskings
    <3>3. q.at = "stream" /\ q.slot = "none" /\ q.who = greq[r].who BY <1>3, <2>3, <3>1 DEF GateAskings
    <3> QED BY <1>3, <3>2, <3>3 DEF Underway
  <2> QED BY <1>2, <2>2, <2>3
<1>8. /\ greq' = [greq EXCEPT ![r] = q]
      /\ bucket' = [bucket EXCEPT ![k].active = IF Bounded(Policies[k[2]]) /\ @ > 0 THEN @ - 1 ELSE @]
  BY <1>4, <1>4a, <1>5 DEF ReleaseSlot
<1>9. /\ greq' \in [GateRequests -> GateAskings] /\ greq'[r] = q
      /\ \A s \in GateRequests \ {r} : greq'[s] = greq[s]
  BY <1>1, <1>7, <1>8 DEF GateTypes
<1>10. Holding(greq', k) = Holding(greq, k) \ {r} /\ r \in Holding(greq, k)
  BY <1>2, <1>4a, <1>7, <1>9 DEF Holding, Holds
<1>11. \A l \in GateKeys \ {k} : Holding(greq', l) = Holding(greq, l)
  <2> TAKE l \in GateKeys \ {k}
  <2>1. l[2] # "none" /\ ~(l[1] = k[1] /\ l[2] = k[2]) BY DEF GateKeys, RouteClasses
  <2>2. ~Holds(greq[r], l) /\ ~Holds(q, l) BY <1>4a, <1>7, <2>1 DEF Holds
  <2> QED BY <1>9, <2>2 DEF Holding
<1>12. PICK b : b = bucket[k] OBVIOUS
<1>13. /\ b \in Bucket /\ Within(b, Policies[k[2]]) /\ b.refilled <= gateTime /\ bucket \in [GateKeys -> Bucket]
       /\ Policies[k[2]].limit \in Nat
  BY <1>1, <1>4a, <1>12, GateAssumption DEF GateTypes
<1>14. IsFiniteSet(Holding(greq, k)) /\ b.active = CountOf(k, Cardinality(Holding(greq, k))) BY <1>1, <1>12 DEF Slots
<1>15. PICK T : T = Holding(greq, k) OBVIOUS
<1>16. /\ IsFiniteSet(Holding(greq', k)) /\ Cardinality(Holding(greq', k)) = Cardinality(Holding(greq, k)) - 1
       /\ Cardinality(Holding(greq, k)) \in Nat /\ Cardinality(Holding(greq, k)) # 0
  <2>1. /\ IsFiniteSet(T) /\ r \in T /\ Holding(greq', k) = T \ {r} BY <1>10, <1>14, <1>15
  <2>2. IsFiniteSet(T \ {r}) /\ Cardinality(T \ {r}) = Cardinality(T) - 1 BY <2>1, FS_RemoveElement
  <2>3. Cardinality(T) \in Nat /\ Cardinality(T) # 0 BY <2>1, FS_CardinalityType, FS_EmptySet
  <2> QED BY <1>15, <2>1, <2>2, <2>3
<1>17. PICK n : n = IF Bounded(Policies[k[2]]) THEN b.active - 1 ELSE b.active OBVIOUS
<1>18. n \in Nat /\ n <= b.active /\ n = CountOf(k, Cardinality(Holding(greq', k)))
  <2>1. CASE Bounded(Policies[k[2]]) BY <1>14, <1>16, <1>17, <2>1 DEF CountOf
  <2>2. CASE ~Bounded(Policies[k[2]]) BY <1>14, <1>17, <2>2 DEF CountOf
  <2> QED BY <2>1, <2>2
<1>19. PICK c : c = [b EXCEPT !.active = n] OBVIOUS
<1>20. bucket' = [bucket EXCEPT ![k] = c]
  <2>1. PICK m : m = b.active OBVIOUS
  <2>2. n = IF Bounded(Policies[k[2]]) /\ m > 0 THEN m - 1 ELSE m
    <3>1. CASE Bounded(Policies[k[2]]) BY <1>14, <1>16, <1>17, <2>1, <3>1 DEF CountOf
    <3>2. CASE ~Bounded(Policies[k[2]]) BY <1>17, <2>1, <3>2
    <3> QED BY <3>1, <3>2
  <2>3. bucket' = [bucket EXCEPT ![k] = [b EXCEPT !.active = IF Bounded(Policies[k[2]]) /\ m > 0 THEN m - 1 ELSE m]]
    BY <1>8, <1>12, <2>1
  <2> QED BY <1>19, <2>2, <2>3
<1>21. c \in Bucket /\ c.active = n /\ c.refilled = b.refilled /\ Within(c, Policies[k[2]])
  BY <1>13, <1>18, <1>19 DEF Bucket, Within
<1>22. bucket' \in [GateKeys -> Bucket] /\ bucket'[k] = c /\ \A l \in GateKeys \ {k} : bucket'[l] = bucket[l]
  BY <1>13, <1>20, <1>21
<1>23. GateTypes'
  <2>1. \A l \in GateKeys : Within(bucket'[l], Policies[l[2]]) /\ bucket'[l].refilled <= gateTime
    BY <1>1, <1>13, <1>21, <1>22 DEF GateTypes
  <2> QED BY <1>1, <1>2, <1>9, <1>22, <2>1 DEF GateTypes
<1>24. Slots'
  <2>1. bucket'[k].active = CountOf(k, Cardinality(Holding(greq', k))) BY <1>18, <1>21, <1>22
  <2> QED BY <1>1, <1>11, <1>16, <1>22, <2>1 DEF Slots
<1>25. Unanswered'
  <2>1. \A s \in GateRequests : greq'[s].at \in {"idle", "body", "owner", "call"} => greq'[s] = greq[s]
    BY <1>7, <1>9
  <2> QED BY <1>1, <1>2, <2>1 DEF Unanswered
<1> QED BY <1>2, <1>7, <1>9, <1>23, <1>24, <1>25 DEF GateInv

\* What a bucket decides: an admitted request takes a token, and a slot where the class is bounded; a refused
\* one nothing.
LEMMA BucketDecides ==
  ASSUME GateInv, NEW k \in GateKeys, NEW d,
         d = BucketDecision(Refilled(bucket[k], Policies[k[2]]), Policies[k[2]])
  PROVE  /\ Within(d.bucket, Policies[k[2]]) /\ d.bucket.refilled <= gateTime
         /\ d.bucket.active = IF d.ok THEN bucket[k].active + CountOf(k, 1) ELSE bucket[k].active
         /\ d.ok \in BOOLEAN
<1>1. PICK b : b = bucket[k] OBVIOUS
<1>1a. PICK p : p = Policies[k[2]] OBVIOUS
<1>2. Within(b, p) /\ b.refilled <= gateTime /\ gateTime \in Nat BY <1>1, <1>1a DEF GateInv, GateTypes
<1>3. /\ b \in Bucket /\ b.tokens \in Nat /\ b.tokens <= p.burst /\ b.refilled \in Nat /\ b.active \in Nat
      /\ b.active <= p.limit
  BY <1>2 DEF Within, Bucket
<1>3a. p.burst \in Nat /\ p.limit \in Nat
  <2>1. k[2] \in RouteClasses BY DEF GateKeys
  <2> QED BY <1>1a, <2>1, GateAssumption
<1>4. PICK n : n = Least(p.burst, b.tokens + (gateTime - b.refilled)) OBVIOUS
<1>5. n \in Nat /\ n <= p.burst BY <1>2, <1>3, <1>3a, <1>4 DEF Least
<1>6. PICK c : c = Refilled(b, p) OBVIOUS
<1>7. c = [tokens |-> n, refilled |-> gateTime, active |-> b.active]
  BY <1>3, <1>4, <1>6 DEF Refilled, Bucket
<1>8. d = BucketDecision(c, p) BY <1>1, <1>1a, <1>6
<1>9. CASE (Bounded(p) /\ c.active >= p.limit) \/ c.tokens < 1
  <2>1. d = [ok |-> FALSE, bucket |-> c] BY <1>8, <1>9 DEF BucketDecision
  <2>2. d.ok = FALSE /\ d.bucket = c BY <2>1
  <2>3. Within(c, p) /\ c.refilled = gateTime /\ c.active = b.active BY <1>2, <1>3, <1>5, <1>7 DEF Bucket, Within
  <2>4. Within(d.bucket, Policies[k[2]]) /\ d.bucket.refilled <= gateTime BY <1>1a, <1>2, <2>2, <2>3
  <2>6. d.ok \in BOOLEAN BY <2>2
  <2>5. d.bucket.active = IF d.ok THEN bucket[k].active + CountOf(k, 1) ELSE bucket[k].active
    <3>1. ~d.ok /\ d.bucket.active = bucket[k].active BY <1>1, <2>2, <2>3
    <3> QED BY ONLY <3>1
  <2> QED BY ONLY <2>4, <2>5, <2>6
<1>10. CASE ~((Bounded(p) /\ c.active >= p.limit) \/ c.tokens < 1)
  <2>1. PICK e : e = [c EXCEPT !.tokens = @ - 1, !.active = IF Bounded(p) THEN @ + 1 ELSE @] OBVIOUS
  <2>2. e = [tokens |-> n - 1, refilled |-> gateTime, active |-> IF Bounded(p) THEN b.active + 1 ELSE b.active]
    BY <1>7, <2>1
  <2>3. d = [ok |-> TRUE, bucket |-> e] BY <1>8, <1>10, <2>1 DEF BucketDecision
  <2>4. d.ok = TRUE /\ d.bucket = e BY <2>3
  <2>5. n - 1 \in Nat /\ n - 1 <= p.burst /\ (Bounded(p) => b.active + 1 <= p.limit)
    BY <1>3, <1>3a, <1>5, <1>7, <1>10
  <2>6. Within(e, p) /\ e.refilled = gateTime BY <1>2, <1>3, <2>2, <2>5 DEF Bucket, Within
  <2>7. e.active = b.active + CountOf(k, 1) BY <1>1a, <1>3, <2>2 DEF CountOf
  <2>8. Within(d.bucket, Policies[k[2]]) /\ d.bucket.refilled <= gateTime BY <1>1a, <1>2, <2>4, <2>6
  <2>10. d.ok \in BOOLEAN BY <2>4
  <2>9. d.bucket.active = IF d.ok THEN bucket[k].active + CountOf(k, 1) ELSE bucket[k].active
    <3>1. d.ok /\ d.bucket.active = bucket[k].active + CountOf(k, 1) BY <1>1, <2>4, <2>7
    <3> QED BY ONLY <3>1
  <2> QED BY ONLY <2>8, <2>9, <2>10
<1> QED BY <1>9, <1>10

\* An admitted request is one more of its tenant and class; a refused one is over, and answered.
LEMMA AdmitKeeps ==
  ASSUME GateInv, NEW r \in GateRequests, AdmitRequest(r)
  PROVE  GateInv'
<1>1. GateTypes /\ Slots /\ Unanswered /\ Underway(greq[r]) BY DEF GateInv
<1>2. greq[r].at = "idle" /\ greq[r].slot = "none" /\ UNCHANGED <<gateTime, live, touched>>
  BY <1>1 DEF AdmitRequest, Underway
<1> DEFINE Admits(p, route, thing) ==
      LET key == <<p.tenant, ClassOf(route)>>
          d == BucketDecision(Refilled(bucket[key], Policies[key[2]]), Policies[key[2]])
      IN  /\ bucket' = [bucket EXCEPT ![key] = d.bucket]
          /\ greq' = [greq EXCEPT ![r] = IF d.ok
                        THEN [at |-> "body", who |-> p, route |-> route, thing |-> thing, read |-> 0, slot |-> key[2]]
                        ELSE [GateIdle EXCEPT !.at = "done"]]
          /\ answers' = IF d.ok THEN answers ELSE [answers EXCEPT ![r] = @ + 1]
<1>a. PICK p \in Principals, route \in Routes : \E thing \in Things(route) : Admits(p, route, thing) BY DEF AdmitRequest
<1>b. PICK x \in Things(route) : Admits(p, route, x) BY <1>a
<1>c. ClassOf(route) \in RouteClasses BY DEF ClassOf, RouteClasses
<1>3. PICK k \in GateKeys : k = <<p.tenant, ClassOf(route)>> BY <1>c DEF Tenants, GateKeys
<1>3a. k[1] = p.tenant /\ k[2] = ClassOf(route) /\ k[2] # "none" BY <1>3, <1>c DEF RouteClasses
<1>4. PICK d : d = BucketDecision(Refilled(bucket[k], Policies[k[2]]), Policies[k[2]]) OBVIOUS
<1>5. /\ Within(d.bucket, Policies[k[2]]) /\ d.bucket.refilled <= gateTime /\ d.ok \in BOOLEAN
      /\ d.bucket.active = IF d.ok THEN bucket[k].active + CountOf(k, 1) ELSE bucket[k].active
  BY <1>4, BucketDecides
<1>6. PICK q : q = IF d.ok
        THEN [at |-> "body", who |-> p, route |-> route, thing |-> x, read |-> 0, slot |-> k[2]]
        ELSE [GateIdle EXCEPT !.at = "done"]
  OBVIOUS
<1>7. /\ bucket' = [bucket EXCEPT ![k] = d.bucket] /\ greq' = [greq EXCEPT ![r] = q]
      /\ answers' = IF d.ok THEN answers ELSE [answers EXCEPT ![r] = @ + 1]
  BY <1>b, <1>3, <1>4, <1>6
<1>8. bucket' \in [GateKeys -> Bucket] /\ bucket'[k] = d.bucket /\ \A l \in GateKeys \ {k} : bucket'[l] = bucket[l]
  BY <1>1, <1>5, <1>7 DEF GateTypes, Within
<1>9. \A l \in GateKeys : Within(bucket'[l], Policies[l[2]]) /\ bucket'[l].refilled <= gateTime
  BY <1>1, <1>5, <1>8 DEF GateTypes
<1>10. /\ q \in GateAskings /\ Underway(q) /\ q.at = (IF d.ok THEN "body" ELSE "done") /\ (d.ok => q.who = p)
       /\ q.slot = IF d.ok THEN k[2] ELSE "none"
  <2>1. 0 \in 0..BodyLimit BY GateAssumption
  <2>2. CASE d.ok
    <3>1. q = [at |-> "body", who |-> p, route |-> route, thing |-> x, read |-> 0, slot |-> k[2]] BY <1>6, <2>2
    <3>2. x \in AllThings BY DEF AllThings
    <3> QED BY <1>c, <1>3a, <2>1, <2>2, <3>1, <3>2 DEF GateAskings, GateStages, Underway
  <2>3. CASE ~d.ok
    <3>1. q = [at |-> "done", who |-> NoPrincipal, route |-> "none", thing |-> "none", read |-> 0, slot |-> "none"]
      BY <1>6, <2>3 DEF GateIdle
    <3> QED BY <2>1, <2>3, <3>1 DEF GateAskings, GateStages, Underway
  <2> QED BY <2>2, <2>3
<1>11. /\ greq' \in [GateRequests -> GateAskings] /\ greq'[r] = q
       /\ \A s \in GateRequests \ {r} : greq'[s] = greq[s]
  BY <1>1, <1>7, <1>10 DEF GateTypes
<1>12. answers[r] = 0 BY <1>1, <1>2 DEF Unanswered
<1>13. PICK n \in {0, 1} : n = IF d.ok THEN 0 ELSE 1 OBVIOUS
<1>14. answers' = [answers EXCEPT ![r] = n]
  <2>1. answers \in [GateRequests -> {0, 1}] BY <1>1 DEF GateTypes
  <2>2. CASE d.ok BY <1>7, <1>12, <1>13, <2>1, <2>2
  <2>3. CASE ~d.ok BY <1>7, <1>12, <1>13, <2>1, <2>3
  <2> QED BY <2>2, <2>3
<1>15. answers' \in [GateRequests -> {0, 1}] /\ Unanswered' BY <1>10, <1>11, <1>13, <1>14, AnswersMove
<1>16. GateTypes' BY <1>1, <1>2, <1>8, <1>9, <1>11, <1>15 DEF GateTypes
<1>17. \A s \in GateRequests : Underway(greq'[s]) BY <1>10, <1>11 DEF GateInv
<1>18. r \notin Holding(greq, k) /\ \A l \in GateKeys \ {k} : Holding(greq', l) = Holding(greq, l)
  <2>1. r \notin Holding(greq, k) BY <1>2, <1>3a DEF Holding, Holds
  <2>2. ASSUME NEW l \in GateKeys \ {k} PROVE Holding(greq', l) = Holding(greq, l)
    <3>1. l[2] # "none" /\ ~(l[1] = k[1] /\ l[2] = k[2]) BY DEF GateKeys, RouteClasses
    <3>2. ~Holds(greq[r], l) /\ ~Holds(q, l) BY <1>2, <1>3a, <1>10, <3>1 DEF Holds
    <3> QED BY <1>11, <3>2 DEF Holding
  <2> QED BY <2>1, <2>2
<1>19. Holding(greq', k) = IF d.ok THEN Holding(greq, k) \cup {r} ELSE Holding(greq, k)
  BY <1>2, <1>3a, <1>10, <1>11 DEF Holding, Holds
<1>20. PICK T : T = Holding(greq, k) OBVIOUS
<1>21. IsFiniteSet(T) /\ bucket[k].active = CountOf(k, Cardinality(T)) /\ r \notin T BY <1>1, <1>18, <1>20 DEF Slots
<1>22. IsFiniteSet(T \cup {r}) /\ Cardinality(T \cup {r}) = Cardinality(T) + 1 /\ Cardinality(T) \in Nat
  BY <1>21, FS_AddElement, FS_CardinalityType
<1>23. IsFiniteSet(Holding(greq', k)) /\ bucket'[k].active = CountOf(k, Cardinality(Holding(greq', k)))
  BY <1>5, <1>8, <1>19, <1>20, <1>21, <1>22 DEF CountOf
<1>24. Slots' BY <1>1, <1>8, <1>18, <1>23 DEF Slots
<1>25. \A y \in touched' : MayReach(y.who, y.what) BY <1>2 DEF GateInv
<1> QED BY <1>15, <1>16, <1>17, <1>24, <1>25 DEF GateInv

\* Every step of a request, of the clock and of a deletion keeps the invariant.
LEMMA GateInvKept == ASSUME GateInv, [GateNext]_gateVars PROVE GateInv'
<1>1. CASE UNCHANGED gateVars
  <2> USE <1>1 DEF gateVars
  <2>1. GateTypes' BY DEF GateInv, GateTypes
  <2>2. Slots' BY DEF GateInv, Slots
  <2>3. Unanswered' BY DEF GateInv, Unanswered
  <2>4. \A r \in GateRequests : Underway(greq'[r]) BY DEF GateInv
  <2>5. \A x \in touched' : MayReach(x.who, x.what) BY DEF GateInv
  <2> QED BY <2>1, <2>2, <2>3, <2>4, <2>5 DEF GateInv
<1>2. CASE GateTick
  <2> USE <1>2 DEF GateTick
  <2>1. GateTypes'
    <3>1. gateTime' \in 0..GateUntil /\ gateTime <= gateTime' BY GateAssumption DEF GateInv, GateTypes
    <3>2. \A k \in GateKeys : bucket[k].refilled <= gateTime'
      <4> TAKE k \in GateKeys
      <4>1. bucket[k] \in Bucket /\ bucket[k].refilled <= gateTime /\ gateTime \in Nat BY DEF GateInv, GateTypes
      <4>2. bucket[k].refilled \in Nat BY <4>1 DEF Bucket
      <4> QED BY <3>1, <4>1, <4>2
    <3> QED BY <3>1, <3>2 DEF GateInv, GateTypes
  <2>2. Slots' BY DEF GateInv, Slots
  <2>3. Unanswered' BY DEF GateInv, Unanswered
  <2>4. \A r \in GateRequests : Underway(greq'[r]) BY DEF GateInv
  <2>5. \A x \in touched' : MayReach(x.who, x.what) BY DEF GateInv
  <2> QED BY <2>1, <2>2, <2>3, <2>4, <2>5 DEF GateInv
<1>3. ASSUME NEW r \in GateRequests, AdmitRequest(r) PROVE GateInv' BY <1>3, AdmitKeeps
<1>4. ASSUME NEW r \in GateRequests, NEW size \in 1..BodyLimit, ReceiveBody(r, size) PROVE GateInv'
  BY <1>4, ReceiveKeeps
<1>5. ASSUME NEW r \in GateRequests,
             RequireScope(r) \/ CheckOwner(r) \/ CallService(r) \/ Aborted(r) \/ ReleaseSlot(r)
      PROVE  GateInv'
  BY <1>5, ScopeKeeps, OwnerKeeps, CallKeeps, AbortKeeps, ReleaseSlotKeeps
<1> QED BY <1>1, <1>2, <1>3, <1>4, <1>5 DEF GateNext

\* What the invariant says of slots, owners and answers.
LEMMA GateInvSafe == ASSUME GateInv PROVE GateSafe
<1>1. GateTypeOK
  <2>1. ASSUME NEW k \in GateKeys
        PROVE  bucket[k].tokens \in 0..Policies[k[2]].burst /\ bucket[k].active \in 0..Policies[k[2]].limit
    <3>1. k[2] \in RouteClasses BY DEF GateKeys
    <3>2. Within(bucket[k], Policies[k[2]]) /\ Policies[k[2]].burst \in Nat /\ Policies[k[2]].limit \in Nat
      BY <3>1, GateAssumption DEF GateInv, GateTypes
    <3> QED BY <3>2 DEF Within, Bucket
  <2>2. \A r \in GateRequests : greq[r].read \in 0..BodyLimit BY DEF GateInv, GateTypes, GateAskings
  <2> QED BY <2>1, <2>2 DEF GateInv, GateTypes, GateTypeOK, GateKeys
<1>2. SlotsExact
  <2> SUFFICES ASSUME NEW t \in Tenants, NEW c \in RouteClasses
               PROVE  /\ bucket[<<t, c>>].active = IF Bounded(Policies[c])
                           THEN Cardinality({r \in GateRequests : greq[r].slot = c /\ greq[r].who.tenant = t}) ELSE 0
                      /\ Bounded(Policies[c]) =>
                           Cardinality({r \in GateRequests : Working(r) /\ greq[r].who.tenant = t
                                                               /\ ClassOf(greq[r].route) = c}) <= Policies[c].limit
    BY DEF SlotsExact
  <2>1. PICK k \in GateKeys : k = <<t, c>> BY DEF GateKeys
  <2>2. k[1] = t /\ k[2] = c BY <2>1
  <2>3. PICK H : H = {r \in GateRequests : greq[r].slot = c /\ greq[r].who.tenant = t} OBVIOUS
  <2>4. PICK W : W = {r \in GateRequests : Working(r) /\ greq[r].who.tenant = t /\ ClassOf(greq[r].route) = c} OBVIOUS
  <2>5. Holding(greq, k) = H BY <2>2, <2>3 DEF Holding, Holds
  <2>6. IsFiniteSet(H) /\ bucket[k].active = CountOf(k, Cardinality(H)) BY <2>5 DEF GateInv, Slots
  <2>7. bucket[k].active <= Policies[c].limit BY <2>2 DEF GateInv, GateTypes, Within
  <2>8. \A r \in GateRequests : Working(r) => greq[r].slot = ClassOf(greq[r].route)
    BY DEF GateInv, Underway, Working
  <2>9. W \subseteq H BY <2>3, <2>4, <2>8
  <2>10. Cardinality(W) <= Cardinality(H) BY <2>6, <2>9, FS_Subset
  <2>11. Cardinality(W) \in Nat /\ Cardinality(H) \in Nat BY <2>6, <2>9, FS_Subset, FS_CardinalityType
  <2>12. Policies[c].limit \in Nat BY GateAssumption
  <2>13. bucket[k].active = IF Bounded(Policies[c]) THEN Cardinality(H) ELSE 0 BY <2>2, <2>6 DEF CountOf
  <2>14. Bounded(Policies[c]) => Cardinality(W) <= Policies[c].limit BY <2>7, <2>10, <2>11, <2>12, <2>13
  <2> QED BY <2>1, <2>3, <2>4, <2>13, <2>14
<1>3. OwnersOnly BY DEF GateInv, MayReach, OwnersOnly
<1>4. AnsweredOnce
  <2>1. \A r \in GateRequests : answers[r] \in {0, 1} BY DEF GateInv, GateTypes
  <2> QED BY <2>1 DEF AnsweredOnce
<1> QED BY <1>1, <1>2, <1>3, <1>4 DEF GateSafe

-----------------------------------------------------------------------------
(* EventStream.  First, sets of numbers: the greatest of one, and its      *)
(* members in order.                                                       *)

\* A set of naturals that is not empty has a least element.
LEMMA LeastNatural ==
  ASSUME NEW T \in SUBSET Nat, T # {}
  PROVE  \E x \in T : \A y \in T : x <= y
<1> DEFINE R == {ss \in Nat \X Nat : ss[1] < ss[2]}
<1>1. IsWellFoundedOn(R, Nat) BY NatLessThanWellFounded, Zenon DEF OpToRel
<1>2. \A x, y \in Nat : x < y => <<x, y>> \in R OBVIOUS
<1> HIDE DEF R
<1>3. PICK x \in T : \A y \in T : ~(<<y, x>> \in R) BY <1>1, WFMin, Zenon
<1>4. ASSUME NEW y \in T PROVE x <= y
  <2>1. ~(y < x) BY <1>3, <1>2
  <2> QED BY <2>1
<1> QED BY <1>4

\* An order that ranks the members of a set, one above the other.
Ranking(S, order) ==
    /\ \A i \in S : <<i, i>> \notin order
    /\ \A i, j \in S : i = j \/ <<i, j>> \in order \/ <<j, i>> \in order
    /\ \A i, j, k \in S : <<i, j>> \in order /\ <<j, k>> \in order => <<i, k>> \in order

\* What is ahead of a member is less than the whole set, and less than what is ahead of a later one.
LEMMA AheadGrows ==
  ASSUME NEW S, IsFiniteSet(S), NEW order, Ranking(S, order)
  PROVE  /\ \A i \in S : Cardinality(Ahead(S, order, i)) \in 0..(Cardinality(S) - 1)
         /\ \A i, j \in S : <<i, j>> \in order =>
              Cardinality(Ahead(S, order, i)) < Cardinality(Ahead(S, order, j))
<1>1. ASSUME NEW T, T \in SUBSET S, NEW U, U \in SUBSET T, NEW x \in T, x \notin U
      PROVE  Cardinality(U) < Cardinality(T) /\ Cardinality(U) \in Nat /\ Cardinality(T) \in Nat
  <2>1. IsFiniteSet(T) BY <1>1, FS_Subset
  <2>2. IsFiniteSet(U) /\ Cardinality(U) <= Cardinality(T) /\ (Cardinality(T) = Cardinality(U) => T = U)
    BY <1>1, <2>1, FS_Subset
  <2>3. Cardinality(U) \in Nat /\ Cardinality(T) \in Nat BY <2>1, <2>2, FS_CardinalityType
  <2>4. T # U BY <1>1
  <2> QED BY <2>2, <2>3, <2>4
<1>2. ASSUME NEW i \in S PROVE Cardinality(Ahead(S, order, i)) \in 0..(Cardinality(S) - 1)
  <2>1. Ahead(S, order, i) \in SUBSET S /\ i \notin Ahead(S, order, i) BY DEF Ahead, Ranking
  <2>2. Cardinality(Ahead(S, order, i)) < Cardinality(S) /\ Cardinality(Ahead(S, order, i)) \in Nat
        /\ Cardinality(S) \in Nat
    BY <1>1, <2>1
  <2> QED BY <2>2
<1>3. ASSUME NEW i \in S, NEW j \in S, <<i, j>> \in order
      PROVE  Cardinality(Ahead(S, order, i)) < Cardinality(Ahead(S, order, j))
  <2>1. Ahead(S, order, i) \in SUBSET Ahead(S, order, j) /\ Ahead(S, order, j) \in SUBSET S
    BY <1>3 DEF Ahead, Ranking
  <2>2. i \in Ahead(S, order, j) /\ i \notin Ahead(S, order, i) BY <1>3 DEF Ahead, Ranking
  <2> QED BY <1>1, <2>1, <2>2
<1> QED BY <1>2, <1>3

\* A set in an order is each of its members once, at the place that counts those ahead of it.
LEMMA InOrderIs ==
  ASSUME NEW S, IsFiniteSet(S), NEW order, Ranking(S, order)
  PROVE  /\ InOrder(S, order) \in [1..Cardinality(S) -> S] /\ Cardinality(S) \in Nat
         /\ \A k \in 1..Cardinality(S) : Cardinality(Ahead(S, order, InOrder(S, order)[k])) = k - 1
         /\ \A i \in S : /\ Cardinality(Ahead(S, order, i)) + 1 \in 1..Cardinality(S)
                         /\ InOrder(S, order)[Cardinality(Ahead(S, order, i)) + 1] = i
         /\ \A k, l \in 1..Cardinality(S) : k < l => <<InOrder(S, order)[k], InOrder(S, order)[l]>> \in order
<1>1. PICK n \in Nat : n = Cardinality(S) BY FS_CardinalityType
<1>2. PICK rank : rank = [i \in S |-> Cardinality(Ahead(S, order, i))] OBVIOUS
<1>3. /\ \A i \in S : rank[i] = Cardinality(Ahead(S, order, i)) /\ rank[i] \in 0..(n - 1)
      /\ \A i, j \in S : <<i, j>> \in order => rank[i] < rank[j]
  BY <1>1, <1>2, AheadGrows
<1>4. rank \in Injection(S, 0..(n - 1))
  <2>1. rank \in [S -> 0..(n - 1)] BY <1>2, <1>3
  <2>2. ASSUME NEW i \in S, NEW j \in S, rank[i] = rank[j] PROVE i = j
    <3>1. rank[i] \in Int /\ ~(rank[i] < rank[j]) /\ ~(rank[j] < rank[i]) BY <1>3, <2>2
    <3> QED BY <1>3, <3>1 DEF Ranking
  <2> QED BY <2>1, <2>2 DEF Injection, IsInjective
<1>5. IsFiniteSet(0..(n - 1)) /\ Cardinality(0..(n - 1)) = n
  <2>1. n - 1 \in Int /\ 0 \in Int /\ (0 > n - 1 => n = 0) /\ (n - 1) - 0 + 1 = n OBVIOUS
  <2> QED BY <2>1, FS_Interval
<1>6. rank \in Surjection(S, 0..(n - 1)) BY <1>1, <1>4, <1>5, FS_Injection
<1>7. ASSUME NEW k \in 1..n PROVE \E i \in S : rank[i] = k - 1
  <2>1. k - 1 \in 0..(n - 1) OBVIOUS
  <2> QED BY <1>6, <2>1 DEF Surjection
<1>8. PICK q : q = InOrder(S, order) OBVIOUS
<1>9. q = [k \in 1..n |-> CHOOSE i \in S : rank[i] = k - 1]
  <2>1. \A k \in 1..n : (CHOOSE i \in S : Cardinality(Ahead(S, order, i)) = k - 1)
                        = (CHOOSE i \in S : rank[i] = k - 1)
    BY <1>3
  <2> QED BY <1>1, <1>8, <2>1 DEF InOrder
<1>10. ASSUME NEW k \in 1..n PROVE q[k] \in S /\ rank[q[k]] = k - 1 BY <1>7, <1>9
<1>11. ASSUME NEW i \in S PROVE rank[i] + 1 \in 1..n /\ q[rank[i] + 1] = i
  <2>1. rank[i] + 1 \in 1..n /\ (rank[i] + 1) - 1 = rank[i] BY <1>3
  <2>2. q[rank[i] + 1] \in S /\ rank[q[rank[i] + 1]] = rank[i] BY <1>10, <2>1
  <2> QED BY <1>4, <2>1, <2>2 DEF Injection, IsInjective
<1>12. ASSUME NEW k \in 1..n, NEW l \in 1..n, k < l PROVE <<q[k], q[l]>> \in order
  <2>1. rank[q[k]] = k - 1 /\ rank[q[l]] = l - 1 /\ q[k] \in S /\ q[l] \in S BY <1>10
  <2>2. ~(rank[q[l]] < rank[q[k]]) /\ q[k] # q[l] BY <1>12, <2>1
  <2> QED BY <1>3, <2>1, <2>2 DEF Ranking
<1>13. q \in [1..n -> S] BY <1>9, <1>10
<1> QED BY <1>1, <1>3, <1>8, <1>10, <1>11, <1>12, <1>13

\* Numbers are ranked by their size.
LEMMA NumbersRank ==
  ASSUME NEW S \in SUBSET Nat
  PROVE  Ranking(S, {e \in S \X S : e[1] < e[2]})
<1> SUFFICES ASSUME NEW R, R = {e \in S \X S : e[1] < e[2]} PROVE Ranking(S, R) OBVIOUS
<1>1. \A i, j \in S : <<i, j>> \in R <=> i < j OBVIOUS
<1>2. \A i, j \in S : i \in Nat /\ j \in Nat OBVIOUS
<1> QED BY <1>1, <1>2 DEF Ranking

\* A finite set of numbers in order: each once, from the lowest up, and at its place the number of those
\* below it.
LEMMA OrderedNumbers ==
  ASSUME NEW S \in SUBSET Nat, IsFiniteSet(S), NEW q, q = Ordered(S)
  PROVE  /\ q \in [1..Cardinality(S) -> S] /\ Cardinality(S) \in Nat
         /\ \A i, j \in 1..Cardinality(S) : i < j => q[i] < q[j]
         /\ \A x \in S : \E i \in 1..Cardinality(S) : q[i] = x
<1>1. PICK R : R = {e \in S \X S : e[1] < e[2]} OBVIOUS
<1>2. Ranking(S, R) BY <1>1, NumbersRank
<1>3. q = InOrder(S, R) BY <1>1 DEF Ordered
<1>4. /\ q \in [1..Cardinality(S) -> S] /\ Cardinality(S) \in Nat
      /\ \A i \in S : /\ Cardinality(Ahead(S, R, i)) + 1 \in 1..Cardinality(S)
                      /\ q[Cardinality(Ahead(S, R, i)) + 1] = i
      /\ \A k, l \in 1..Cardinality(S) : k < l => <<q[k], q[l]>> \in R
  BY <1>2, <1>3, InOrderIs
<1>5. \A x, y : <<x, y>> \in R => x < y BY <1>1
<1> QED BY <1>4, <1>5

Entries(q) == {q[i] : i \in DOMAIN q}
Rises(q) == \A i, j \in DOMAIN q : i < j => q[i] < q[j]

\* So Ordered is the members of a set of numbers, each once, in order.
LEMMA OrderedIs ==
  ASSUME NEW n \in Nat, NEW S \in SUBSET (1..n), NEW q, q = Ordered(S)
  PROVE  q \in Seq(Nat) /\ Rises(q) /\ Entries(q) = S
<1>1. IsFiniteSet(S) /\ S \in SUBSET Nat
  <2>1. IsFiniteSet(1..n) BY FS_Interval
  <2>2. IsFiniteSet(S) BY <2>1, FS_Subset
  <2>3. S \in SUBSET Nat OBVIOUS
  <2> QED BY <2>2, <2>3
<1>2. PICK c \in Nat : c = Cardinality(S) BY <1>1, FS_CardinalityType
<1>3. /\ q \in [1..c -> S] /\ \A i, j \in 1..c : i < j => q[i] < q[j]
      /\ \A x \in S : \E i \in 1..c : q[i] = x
  BY <1>1, <1>2, OrderedNumbers
<1>4. q \in Seq(Nat) /\ DOMAIN q = 1..c
  <2>1. q \in [1..c -> Nat] BY <1>1, <1>3
  <2> QED BY <2>1
<1>5. Rises(q) BY <1>3, <1>4 DEF Rises
<1>6. Entries(q) = S BY <1>3, <1>4 DEF Entries
<1> QED BY <1>4, <1>5, <1>6

\* The greatest number of a set.
LEMMA MaxOfIs ==
  ASSUME NEW n \in Nat, NEW S \in SUBSET (0..n), NEW x, x = MaxOf(S)
  PROVE  x \in 0..n /\ (S # {} => x \in S) /\ \A k \in S : k <= x
<1>1. CASE S = {} BY <1>1 DEF MaxOf
<1>2. CASE S # {}
  <2> DEFINE T == {k \in Nat : n - k \in S}
  <2>1. T # {}
    <3>1. PICK k \in S : TRUE BY <1>2
    <3>2. n - k \in Nat /\ n - (n - k) = k OBVIOUS
    <3> QED BY <3>1, <3>2
  <2>2. PICK m \in T : \A k \in T : m <= k BY <2>1, LeastNatural
  <2>3. n - m \in S BY <2>2
  <2>4. ASSUME NEW k \in S PROVE k <= n - m
    <3>1. n - k \in Nat /\ n - (n - k) = k OBVIOUS
    <3>2. n - k \in T BY <3>1
    <3>3. m <= n - k BY <2>2, <3>2
    <3> QED BY <3>3
  <2>5. \E y \in S : \A k \in S : k <= y BY <2>3, <2>4
  <2>6. x = CHOOSE y \in S : \A k \in S : k <= y BY <1>2 DEF MaxOf
  <2> QED BY <2>5, <2>6
<1> QED BY <1>1, <1>2

-----------------------------------------------------------------------------
(* The events of a stream: the history is the numbers from one on, and     *)
(* what a reader yielded rises to its cursor; of a reader nothing was lost *)
(* to, the queue ends where the fan-out stands and begins at the cursor.   *)

StreamTypes ==
  /\ history \in Seq(Nat) /\ Len(history) <= MaxEvents /\ \A i \in DOMAIN history : history[i] = i
  /\ writer \in [Writers -> [at : {"idle", "insert", "fanout"}, number : 0..MaxEvents]]
  /\ reading \in [Readers -> {"off", "catchup", "live", "ended"}]
  /\ cursor \in [Readers -> Nat] /\ queue \in [Readers -> Seq(Nat)]
  /\ yielded \in [Readers -> Seq(Nat)] /\ buffer \in [Readers -> Seq(Nat)] /\ sent \in [Readers -> Seq(Nat)]
  /\ disturbed \subseteq Readers

\* A number in a writer's hands is the next one or was taken since; one that is fanned out is in the history.
Numbered ==
  \A w \in Writers :
    /\ writer[w].at = "insert" => writer[w].number \in 1..(Len(history) + 1)
    /\ writer[w].at = "fanout" => writer[w].number \in 1..Len(history)

\* A reader with a queue q, a cursor c, what it yielded, its text held back and its text sent.
Follows(n, q, c, at, y, b, s) ==
  /\ c \in 0..n /\ Entries(q) \subseteq 1..n /\ Len(q) <= QueueSize
  /\ Rises(y) /\ Entries(y) \subseteq 1..c
  /\ s \o b = y /\ Len(b) < MaxChars
  /\ at \in {"off", "ended"} => q = <<>>

\* Events whose numbers were fanned out, where one writer at a time has one to fan out.
FannedOut == IF \E w \in Writers : writer[w].at = "fanout" THEN Len(history) - 1 ELSE Len(history)
OneAtATime(home) ==
  /\ \A w \in Writers : writer[w].at = "fanout" => writer[w].number = Len(history) /\ HomeOf[w] = home
  /\ \A v, w \in Writers : writer[v].at = "fanout" /\ writer[w].at = "fanout" => v = w

\* Nothing was lost to a reader.
HeldAll(m, q, c, at, y) ==
  /\ 1..c \subseteq Entries(y)
  /\ at \in {"catchup", "live"} => Len(q) <= m /\ \A i \in DOMAIN q : q[i] = (m - Len(q)) + i
  /\ at = "live" => m - Len(q) <= c

ReaderFollows(r) == Follows(Len(history), queue[r], cursor[r], reading[r], yielded[r], buffer[r], sent[r])
ReaderComplete(r) ==
  OneAtATime(HomeOf[r]) /\ HeldAll(FannedOut, queue[r], cursor[r], reading[r], yielded[r])

StreamInv ==
  /\ StreamTypes /\ Numbered
  /\ \A r \in Readers : ReaderFollows(r)
  /\ \A r \in Readers \ disturbed : ReaderComplete(r)

\* A bus with no event and readers that have not begun.
LEMMA StreamInitInv == StreamInit => StreamInv
<1> SUFFICES ASSUME StreamInit PROVE StreamInv OBVIOUS
<1> USE StreamAssumption DEF StreamInit
<1>1. <<>> \in Seq(Nat) /\ Len(<<>>) = 0 /\ DOMAIN <<>> = {} OBVIOUS
<1>2. [at |-> "idle", number |-> 0] \in [at : {"idle", "insert", "fanout"}, number : 0..MaxEvents] OBVIOUS
<1>3. writer \in [Writers -> [at : {"idle", "insert", "fanout"}, number : 0..MaxEvents]] BY <1>2
<1>4. StreamTypes BY <1>1, <1>3 DEF StreamTypes
<1>5. \A w \in Writers : writer[w].at = "idle" OBVIOUS
<1>6. Numbered BY <1>5 DEF Numbered
<1>7. \A r \in Readers : queue[r] = <<>> /\ cursor[r] = 0 /\ reading[r] = "off" /\ yielded[r] = <<>>
                         /\ buffer[r] = <<>> /\ sent[r] = <<>>
  OBVIOUS
<1>8. Len(history) = 0 BY <1>1
<1>9. Follows(0, <<>>, 0, "off", <<>>, <<>>, <<>>)
  <2>1. <<>> \o <<>> = <<>> BY ConcatEmptySeq, <1>1
  <2>2. Entries(<<>>) = {} /\ Rises(<<>>) BY <1>1 DEF Entries, Rises
  <2> QED BY <1>1, <2>1, <2>2 DEF Follows
<1>10. \A r \in Readers : ReaderFollows(r)
  <2> TAKE r \in Readers
  <2> QED BY <1>7, <1>8, <1>9 DEF ReaderFollows
<1>11. HeldAll(0, <<>>, 0, "off", <<>>) BY DEF HeldAll
<1>12. \A r \in Readers : ReaderComplete(r)
  <2> TAKE r \in Readers
  <2>1. FannedOut = 0 BY <1>5, <1>8 DEF FannedOut
  <2>2. OneAtATime(HomeOf[r]) BY <1>5 DEF OneAtATime
  <2> QED BY <1>7, <1>11, <2>1, <2>2 DEF ReaderComplete
<1> QED BY <1>4, <1>6, <1>10, <1>12 DEF StreamInv

\* The history is the numbers up to its length.
LEMMA HistoryIs ==
  ASSUME StreamTypes
  PROVE  Len(history) \in Nat /\ Published = 1..Len(history) /\ MaxOf(Published) = Len(history)
<1>1. Len(history) \in Nat /\ DOMAIN history = 1..Len(history) /\ \A i \in DOMAIN history : history[i] = i
  BY DEF StreamTypes
<1>2. Published = 1..Len(history) BY <1>1 DEF Published
<1>3. PICK n \in Nat : n = Len(history) BY <1>1
<1>4. PICK x : x = MaxOf(1..n) OBVIOUS
<1>5. 1..n \in SUBSET (0..n) OBVIOUS
<1>6. x \in 0..n /\ (1..n # {} => x \in 1..n) /\ \A k \in 1..n : k <= x BY <1>4, <1>5, MaxOfIs
<1>7. x = n BY <1>6
<1> QED BY <1>1, <1>2, <1>3, <1>4, <1>7

\* Writers: a step that changes no reader's own state.
LEMMA NextSequenceKeeps == ASSUME StreamInv, NEW w \in Writers, NextSequence(w) PROVE StreamInv'
<1> USE StreamAssumption
<1>1. StreamTypes /\ Numbered BY DEF StreamInv
<1>2. PICK n \in Nat : n = Len(history) BY <1>1, HistoryIs
<1>3. MaxOf(Published) = n /\ n < MaxEvents BY <1>1, <1>2, HistoryIs DEF NextSequence
<1>4. PICK x : x = [at |-> "insert", number |-> n + 1] OBVIOUS
<1>5. x \in [at : {"idle", "insert", "fanout"}, number : 0..MaxEvents] /\ x.at = "insert" /\ x.number = n + 1
  BY <1>3, <1>4
<1>6. writer[w].at = "idle" /\ writer' = [writer EXCEPT ![w] = x] BY <1>3, <1>4 DEF NextSequence
<1>7. UNCHANGED <<history, queue, cursor, reading, yielded, buffer, sent, disturbed>> BY DEF NextSequence
<1>8. /\ writer' \in [Writers -> [at : {"idle", "insert", "fanout"}, number : 0..MaxEvents]]
      /\ writer'[w] = x /\ \A v \in Writers \ {w} : writer'[v] = writer[v]
  BY <1>1, <1>5, <1>6 DEF StreamTypes
<1>9. StreamTypes' BY <1>1, <1>7, <1>8 DEF StreamTypes
<1>10. Numbered'
  <2> SUFFICES ASSUME NEW v \in Writers
               PROVE  /\ writer'[v].at = "insert" => writer'[v].number \in 1..(Len(history) + 1)
                      /\ writer'[v].at = "fanout" => writer'[v].number \in 1..Len(history)
    BY <1>7 DEF Numbered
  <2>1. CASE v = w BY <1>2, <1>5, <1>8, <2>1
  <2>2. CASE v # w BY <1>1, <1>8, <2>2 DEF Numbered
  <2> QED BY <2>1, <2>2
<1>11. \A v \in Writers : writer'[v].at = "fanout" <=> writer[v].at = "fanout" BY <1>5, <1>6, <1>8
<1>12. \A v \in Writers : writer'[v].at = "fanout" => writer'[v] = writer[v] BY <1>5, <1>8
<1>13. FannedOut' = FannedOut BY <1>7, <1>11 DEF FannedOut
<1>14. \A r \in Readers : ReaderFollows(r)' BY <1>7 DEF StreamInv, ReaderFollows
<1>15. ASSUME NEW r \in Readers \ disturbed PROVE ReaderComplete(r)'
  <2>1. ReaderComplete(r) BY DEF StreamInv
  <2>2. OneAtATime(HomeOf[r])' BY <1>7, <1>11, <1>12, <2>1 DEF ReaderComplete, OneAtATime
  <2> QED BY <1>7, <1>13, <2>1, <2>2 DEF ReaderComplete
<1> QED BY <1>7, <1>9, <1>10, <1>14, <1>15 DEF StreamInv

\* An insert makes the history one longer or is refused; a reader it disturbs is not spoken of any more.
LEMMA InsertKeeps == ASSUME StreamInv, NEW w \in Writers, Insert(w) PROVE StreamInv'
<1> USE StreamAssumption
<1>1. StreamTypes /\ Numbered BY DEF StreamInv
<1>2. PICK n \in Nat : n = Len(history) BY <1>1, HistoryIs
<1>3. Published = 1..n BY <1>1, <1>2, HistoryIs
<1>4. writer[w].at = "insert" /\ UNCHANGED <<queue, cursor, reading, yielded, buffer, sent>> BY DEF Insert
<1>5. writer[w] \in [at : {"idle", "insert", "fanout"}, number : 0..MaxEvents]
      /\ writer \in [Writers -> [at : {"idle", "insert", "fanout"}, number : 0..MaxEvents]]
  BY <1>1 DEF StreamTypes
<1>6. PICK k \in 1..(n + 1) : k = writer[w].number BY <1>1, <1>2, <1>4 DEF Numbered
<1>7. k <= MaxEvents BY <1>5, <1>6
<1>8. disturbed' = disturbed \cup {r \in Readers : \/ HomeOf[r] # HomeOf[w]
                                                  \/ \E v \in Writers \ {w} : writer[v].at = "fanout"}
  BY DEF Insert
<1>9. disturbed' \subseteq Readers /\ disturbed \subseteq disturbed' BY <1>1, <1>8 DEF StreamTypes
<1>10. PICK x : x = IF k \in 1..n THEN [at |-> "idle", number |-> 0] ELSE [at |-> "fanout", number |-> k] OBVIOUS
<1>11. writer' = [writer EXCEPT ![w] = x]
  <2>1. CASE k \in 1..n BY <1>3, <1>6, <1>10, <2>1 DEF Insert
  <2>2. CASE k \notin 1..n
    <3>1. writer' = [writer EXCEPT ![w].at = "fanout"] BY <1>3, <1>6, <2>2 DEF Insert
    <3>2. [writer[w] EXCEPT !.at = "fanout"] = [at |-> "fanout", number |-> k] BY <1>5, <1>6
    <3> QED BY <1>5, <1>10, <2>2, <3>1, <3>2
  <2> QED BY <2>1, <2>2
<1>12. history' = IF k \in 1..n THEN history ELSE Append(history, k) BY <1>3, <1>6 DEF Insert
<1>13. x \in [at : {"idle", "insert", "fanout"}, number : 0..MaxEvents]
  <2>1. 0 \in 0..MaxEvents /\ k \in 0..MaxEvents BY <1>7
  <2>2. CASE k \in 1..n BY <1>10, <2>1, <2>2
  <2>3. CASE k \notin 1..n BY <1>10, <2>1, <2>3
  <2> QED BY <2>2, <2>3
<1>14. /\ writer' \in [Writers -> [at : {"idle", "insert", "fanout"}, number : 0..MaxEvents]]
       /\ writer'[w] = x /\ \A v \in Writers \ {w} : writer'[v] = writer[v]
  BY <1>5, <1>11, <1>13
<1>15. PICK m \in Nat : m = IF k \in 1..n THEN n ELSE n + 1 OBVIOUS
<1>16. /\ history' \in Seq(Nat) /\ Len(history') = m /\ m <= MaxEvents /\ \A i \in DOMAIN history' : history'[i] = i
  <2>1. history \in Seq(Nat) /\ n <= MaxEvents /\ \A i \in DOMAIN history : history[i] = i BY <1>1, <1>2 DEF StreamTypes
  <2>2. CASE k \in 1..n BY <1>2, <1>12, <1>15, <2>1, <2>2
  <2>3. CASE k \notin 1..n
    <3>1. k = n + 1 /\ m = n + 1 BY <1>15, <2>3
    <3>2. history' = Append(history, k) BY <1>12, <2>3
    <3>3. history' \in Seq(Nat) /\ Len(history') = n + 1 BY <1>2, <2>1, <3>2
    <3>4. \A i \in 1..(n + 1) : history'[i] = i BY <1>2, <2>1, <3>1, <3>2
    <3> QED BY <1>7, <3>1, <3>3, <3>4
  <2> QED BY <2>2, <2>3
<1>17. StreamTypes' BY <1>1, <1>4, <1>9, <1>14, <1>16 DEF StreamTypes
<1>18. Numbered'
  <2> SUFFICES ASSUME NEW v \in Writers
               PROVE  /\ writer'[v].at = "insert" => writer'[v].number \in 1..(m + 1)
                      /\ writer'[v].at = "fanout" => writer'[v].number \in 1..m
    BY <1>16 DEF Numbered
  <2>1. CASE v = w
    <3>1. CASE k \in 1..n BY <1>10, <1>14, <2>1, <3>1
    <3>2. CASE k \notin 1..n
      <4>1. x.at = "fanout" /\ x.number = k BY <1>10, <3>2
      <4>2. k \in 1..m BY <1>15, <3>2
      <4> QED BY <1>14, <2>1, <4>1, <4>2
    <3> QED BY <3>1, <3>2
  <2>2. CASE v # w
    <3>1. /\ writer[v].at = "insert" => writer[v].number \in 1..(n + 1)
          /\ writer[v].at = "fanout" => writer[v].number \in 1..n
      BY <1>1, <1>2 DEF Numbered
    <3>2. n <= m BY <1>15
    <3> QED BY <1>14, <2>2, <3>1, <3>2
  <2> QED BY <2>1, <2>2
<1>19. \A r \in Readers : ReaderFollows(r)'
  <2> TAKE r \in Readers
  <2>1. Follows(n, queue[r], cursor[r], reading[r], yielded[r], buffer[r], sent[r])
    BY <1>2 DEF StreamInv, ReaderFollows
  <2>2. n <= m BY <1>15
  <2>3. Follows(m, queue[r], cursor[r], reading[r], yielded[r], buffer[r], sent[r])
    <3>1. cursor[r] \in 0..n /\ Entries(queue[r]) \subseteq 1..n BY <2>1 DEF Follows
    <3>2. cursor[r] \in 0..m /\ Entries(queue[r]) \subseteq 1..m BY <2>2, <3>1
    <3> QED BY <2>1, <3>2 DEF Follows
  <2> QED BY <1>4, <1>16, <2>3 DEF ReaderFollows
<1>20. ASSUME NEW r \in Readers \ disturbed' PROVE ReaderComplete(r)'
  <2>1. ReaderComplete(r) BY <1>9 DEF StreamInv
  <2>2. HomeOf[r] = HomeOf[w] /\ \A v \in Writers \ {w} : writer[v].at # "fanout" BY <1>8
  <2>3. FannedOut = n BY <1>2, <1>4, <2>2 DEF FannedOut
  <2>4. CASE k \in 1..n
    <3>1. x.at = "idle" /\ m = n BY <1>10, <1>15, <2>4
    <3>2. \A v \in Writers : writer'[v].at # "fanout" BY <1>14, <2>2, <3>1
    <3>3. FannedOut' = n BY <1>16, <3>1, <3>2 DEF FannedOut
    <3>4. OneAtATime(HomeOf[r])' BY <3>2 DEF OneAtATime
    <3> QED BY <1>4, <2>1, <2>3, <3>3, <3>4 DEF ReaderComplete
  <2>5. CASE k \notin 1..n
    <3>1. x.at = "fanout" /\ x.number = k /\ k = n + 1 /\ m = n + 1 BY <1>10, <1>15, <2>5
    <3>2. \A v \in Writers : writer'[v].at = "fanout" <=> v = w BY <1>14, <2>2, <3>1
    <3>3. FannedOut' = n BY <1>16, <3>1, <3>2 DEF FannedOut
    <3>4. OneAtATime(HomeOf[r])' BY <1>14, <1>16, <2>2, <3>1, <3>2 DEF OneAtATime
    <3> QED BY <1>4, <2>1, <2>3, <3>3, <3>4 DEF ReaderComplete
  <2> QED BY <2>4, <2>5
<1> QED BY <1>17, <1>18, <1>19, <1>20 DEF StreamInv

\* What is put on a queue comes last.
LEMMA PutIs ==
  ASSUME NEW n \in Nat, NEW q \in Seq(Nat), Entries(q) \subseteq 1..n, Len(q) <= QueueSize, NEW k \in 1..n
  PROVE  /\ Put(q, k) \in Seq(Nat) /\ Entries(Put(q, k)) \subseteq 1..n /\ Len(Put(q, k)) <= QueueSize
         /\ Len(q) # QueueSize => /\ Len(Put(q, k)) = Len(q) + 1 /\ Put(q, k)[Len(q) + 1] = k
                                  /\ \A i \in 1..Len(q) : Put(q, k)[i] = q[i]
<1> USE StreamAssumption
<1>1. PICK l \in Nat : l = Len(q) OBVIOUS
<1>2. DOMAIN q = 1..l /\ \A i \in 1..l : q[i] \in 1..n BY <1>1 DEF Entries
<1>3. CASE l # QueueSize
  <2>1. Put(q, k) = Append(q, k) BY <1>1, <1>3 DEF Put
  <2>2. Append(q, k) \in Seq(Nat) OBVIOUS
  <2>3. PICK p \in Seq(Nat) : p = Append(q, k) BY <2>2
  <2>4. Len(p) = l + 1 /\ p[l + 1] = k /\ \A i \in 1..l : p[i] = q[i] BY <1>1, <2>3
  <2>5. DOMAIN p = 1..(l + 1) BY <2>3, <2>4
  <2>6. \A i \in 1..(l + 1) : p[i] \in 1..n BY <1>2, <2>4
  <2>7. Entries(p) \subseteq 1..n BY <2>5, <2>6 DEF Entries
  <2>8. l + 1 <= QueueSize BY <1>1, <1>3
  <2> QED BY <1>1, <2>1, <2>3, <2>4, <2>7, <2>8
<1>4. CASE l = QueueSize
  <2>1. Put(q, k) = Append(Tail(q), k) BY <1>1, <1>4 DEF Put
  <2>2. q # <<>> BY <1>1, <1>4
  <2>3. Tail(q) \in Seq(Nat) /\ Len(Tail(q)) = Len(q) - 1 /\ \A i \in 1..Len(Tail(q)) : Tail(q)[i] = q[i + 1]
    BY <2>2, HeadTailProperties
  <2>4. PICK u \in Seq(Nat) : u = Tail(q) BY <2>3
  <2>5. Len(u) = l - 1 /\ \A i \in 1..(l - 1) : u[i] = q[i + 1] BY <1>1, <2>4, <2>3
  <2>6. Append(u, k) \in Seq(Nat) OBVIOUS
  <2>7. PICK p \in Seq(Nat) : p = Append(u, k) BY <2>6
  <2>8. Len(p) = l /\ p[l] = k /\ \A i \in 1..(l - 1) : p[i] = u[i] BY <1>4, <2>5, <2>7
  <2>9. DOMAIN p = 1..l BY <2>7, <2>8
  <2>10. \A i \in 1..l : p[i] \in 1..n
    <3> TAKE i \in 1..l
    <3>1. CASE i = l BY <2>8, <3>1
    <3>2. CASE i # l
      <4>1. i \in 1..(l - 1) /\ i + 1 \in 1..l BY <3>2
      <4> QED BY <1>2, <2>5, <2>8, <4>1
    <3> QED BY <3>1, <3>2
  <2>11. Entries(p) \subseteq 1..n BY <2>9, <2>10 DEF Entries
  <2> QED BY <1>1, <1>4, <2>1, <2>4, <2>7, <2>8, <2>11
<1> QED BY <1>3, <1>4

\* The event goes to the queues of the writer's process; the oldest in a full queue is dropped, and its reader disturbed.
LEMMA FanOutKeeps == ASSUME StreamInv, NEW w \in Writers, FanOut(w) PROVE StreamInv'
<1> USE StreamAssumption
<1>1. StreamTypes /\ Numbered BY DEF StreamInv
<1>2. PICK n \in Nat : n = Len(history) BY <1>1, HistoryIs
<1>3. writer[w].at = "fanout" /\ UNCHANGED <<history, cursor, reading, yielded, buffer, sent>> BY DEF FanOut
<1>4. PICK k \in 1..n : k = writer[w].number BY <1>1, <1>2, <1>3 DEF Numbered
<1>5. PICK near : near = {r \in Readers : Listening(r) /\ HomeOf[r] = HomeOf[w]} OBVIOUS
<1>6. /\ queue' = [r \in Readers |-> IF r \in near THEN Put(queue[r], k) ELSE queue[r]]
      /\ disturbed' = disturbed \cup {r \in near : Len(queue[r]) = QueueSize}
  BY <1>4, <1>5 DEF FanOut
<1>7. PICK x : x = [at |-> "idle", number |-> 0] OBVIOUS
<1>8. x \in [at : {"idle", "insert", "fanout"}, number : 0..MaxEvents] /\ x.at = "idle" BY <1>7
<1>9. writer' = [writer EXCEPT ![w] = x] BY <1>7 DEF FanOut
<1>10. /\ writer' \in [Writers -> [at : {"idle", "insert", "fanout"}, number : 0..MaxEvents]]
       /\ writer'[w] = x /\ \A v \in Writers \ {w} : writer'[v] = writer[v]
  BY <1>1, <1>8, <1>9 DEF StreamTypes
<1>11. \A r \in Readers : Follows(n, queue[r], cursor[r], reading[r], yielded[r], buffer[r], sent[r]) /\ queue[r] \in Seq(Nat)
  BY <1>1, <1>2 DEF StreamInv, ReaderFollows, StreamTypes
<1>12. ASSUME NEW r \in near
       PROVE  /\ queue'[r] \in Seq(Nat) /\ Entries(queue'[r]) \subseteq 1..n /\ Len(queue'[r]) <= QueueSize
              /\ Len(queue[r]) # QueueSize => /\ Len(queue'[r]) = Len(queue[r]) + 1 /\ queue'[r][Len(queue[r]) + 1] = k
                                              /\ \A i \in 1..Len(queue[r]) : queue'[r][i] = queue[r][i]
  <2>1. r \in Readers BY <1>5
  <2>2. queue'[r] = Put(queue[r], k) BY <1>6, <2>1
  <2>3. PICK q \in Seq(Nat) : q = queue[r] BY <1>11, <2>1
  <2>4. Entries(q) \subseteq 1..n /\ Len(q) <= QueueSize BY <1>11, <2>1, <2>3 DEF Follows
  <2> QED BY <2>2, <2>3, <2>4, PutIs
<1>13. \A r \in Readers \ near : queue'[r] = queue[r] BY <1>6
<1>14. queue' \in [Readers -> Seq(Nat)]
  <2>1. \A r \in Readers : queue'[r] \in Seq(Nat) BY <1>11, <1>12, <1>13
  <2>2. DOMAIN queue' = Readers BY <1>6
  <2>3. queue' = [r \in Readers |-> queue'[r]] BY <1>6
  <2> QED BY <2>1, <2>3
<1>15. StreamTypes' BY <1>1, <1>3, <1>5, <1>6, <1>10, <1>14 DEF StreamTypes
<1>16. Numbered' BY <1>1, <1>3, <1>8, <1>10 DEF Numbered
<1>17. \A r \in Readers : ReaderFollows(r)'
  <2> TAKE r \in Readers
  <2>1. Follows(n, queue[r], cursor[r], reading[r], yielded[r], buffer[r], sent[r]) BY <1>11
  <2>2. Follows(n, queue'[r], cursor[r], reading[r], yielded[r], buffer[r], sent[r])
    <3>1. CASE r \notin near BY <1>13, <2>1, <3>1
    <3>2. CASE r \in near
      <4>1. reading[r] \in {"catchup", "live"} BY <1>5, <3>2 DEF Listening
      <4>2. Entries(queue'[r]) \subseteq 1..n /\ Len(queue'[r]) <= QueueSize BY <1>12, <3>2
      <4> QED BY <2>1, <4>1, <4>2 DEF Follows
    <3> QED BY <3>1, <3>2
  <2> QED BY <1>2, <1>3, <2>2 DEF ReaderFollows
<1>18. ASSUME NEW r \in Readers \ disturbed' PROVE ReaderComplete(r)'
  <2>1. r \in Readers \ disturbed /\ (r \in near => Len(queue[r]) # QueueSize) BY <1>6
  <2>2. ReaderComplete(r) BY <2>1 DEF StreamInv
  <2>3. k = n /\ HomeOf[w] = HomeOf[r] /\ \A v \in Writers : writer[v].at = "fanout" => v = w
    BY <1>2, <1>3, <1>4, <2>2 DEF ReaderComplete, OneAtATime
  <2>4. FannedOut = n - 1 BY <1>2, <1>3 DEF FannedOut
  <2>5. \A v \in Writers : writer'[v].at # "fanout" BY <1>8, <1>10, <2>3
  <2>6. FannedOut' = n BY <1>2, <1>3, <2>5 DEF FannedOut
  <2>7. OneAtATime(HomeOf[r])' BY <2>5 DEF OneAtATime
  <2>8. HeldAll(n - 1, queue[r], cursor[r], reading[r], yielded[r]) BY <2>2, <2>4 DEF ReaderComplete
  <2>9. HeldAll(n, queue'[r], cursor[r], reading[r], yielded[r])
    <3>1. CASE r \notin near
      <4>1. reading[r] \notin {"catchup", "live"} BY <1>5, <2>3, <3>1 DEF Listening
      <4> QED BY <2>8, <4>1 DEF HeldAll
    <3>2. CASE r \in near
      <4>1. PICK q \in Seq(Nat) : q = queue[r] BY <1>11
      <4>2. PICK l \in Nat : l = Len(q) OBVIOUS
      <4>3. PICK p \in Seq(Nat) : p = queue'[r] BY <1>12, <3>2
      <4>4. Len(p) = l + 1 /\ p[l + 1] = n /\ \A i \in 1..l : p[i] = q[i] BY <1>12, <2>1, <2>3, <3>2, <4>1, <4>2, <4>3
      <4>5. reading[r] \in {"catchup", "live"} BY <1>5, <3>2 DEF Listening
      <4>6. l <= n - 1 /\ (\A i \in 1..l : q[i] = (n - 1 - l) + i)
        <5>1. Len(q) <= n - 1 /\ \A i \in DOMAIN q : q[i] = (n - 1 - Len(q)) + i
          BY <2>8, <4>1, <4>5 DEF HeldAll
        <5>2. DOMAIN q = 1..l BY <4>2
        <5> QED BY ONLY <5>1, <5>2, <4>2
      <4>7. reading[r] = "live" => (n - 1) - l <= cursor[r] BY <2>8, <4>1, <4>2 DEF HeldAll
      <4>8. \A i \in 1..(l + 1) : p[i] = (n - (l + 1)) + i BY <4>4, <4>6
      <4>9. DOMAIN p = 1..(l + 1) BY <4>4
      <4>10. Len(p) <= n /\ (\A i \in DOMAIN p : p[i] = (n - Len(p)) + i) BY <4>4, <4>6, <4>8, <4>9
      <4>11. reading[r] = "live" => n - Len(p) <= cursor[r]
        <5>1. (n - 1) - l = n - Len(p) BY <4>4
        <5> QED BY <4>7, <5>1
      <4> QED BY <2>8, <4>3, <4>10, <4>11 DEF HeldAll
    <3> QED BY <3>1, <3>2
  <2> QED BY <1>3, <2>6, <2>7, <2>9 DEF ReaderComplete
<1> QED BY <1>15, <1>16, <1>17, <1>18 DEF StreamInv

\* A step of one reader, to a queue, a cursor, a stage, and texts yielded, held back and sent.
ReaderMoves(r, q, c, at, y, b, s) ==
  /\ UNCHANGED <<history, writer, disturbed>>
  /\ queue' = [queue EXCEPT ![r] = q] /\ cursor' = [cursor EXCEPT ![r] = c] /\ reading' = [reading EXCEPT ![r] = at]
  /\ yielded' = [yielded EXCEPT ![r] = y] /\ buffer' = [buffer EXCEPT ![r] = b] /\ sent' = [sent EXCEPT ![r] = s]

\* What is left to show of it.
LEMMA ReaderKeeps ==
  ASSUME StreamInv, NEW r \in Readers, NEW q \in Seq(Nat), NEW c \in Nat,
         NEW at \in {"off", "catchup", "live", "ended"}, NEW y \in Seq(Nat), NEW b \in Seq(Nat), NEW s \in Seq(Nat),
         ReaderMoves(r, q, c, at, y, b, s),
         Follows(Len(history), q, c, at, y, b, s),
         r \notin disturbed => HeldAll(FannedOut, q, c, at, y)
  PROVE  StreamInv'
<1> USE DEF ReaderMoves
<1>1. StreamTypes BY DEF StreamInv
<1>2. /\ queue' \in [Readers -> Seq(Nat)] /\ queue'[r] = q /\ \A x \in Readers \ {r} : queue'[x] = queue[x]
  BY <1>1 DEF StreamTypes
<1>3. /\ cursor' \in [Readers -> Nat] /\ cursor'[r] = c /\ \A x \in Readers \ {r} : cursor'[x] = cursor[x]
  BY <1>1 DEF StreamTypes
<1>4. /\ reading' \in [Readers -> {"off", "catchup", "live", "ended"}] /\ reading'[r] = at
      /\ \A x \in Readers \ {r} : reading'[x] = reading[x]
  BY <1>1 DEF StreamTypes
<1>5. /\ yielded' \in [Readers -> Seq(Nat)] /\ yielded'[r] = y /\ \A x \in Readers \ {r} : yielded'[x] = yielded[x]
  BY <1>1 DEF StreamTypes
<1>6. /\ buffer' \in [Readers -> Seq(Nat)] /\ buffer'[r] = b /\ \A x \in Readers \ {r} : buffer'[x] = buffer[x]
  BY <1>1 DEF StreamTypes
<1>7. /\ sent' \in [Readers -> Seq(Nat)] /\ sent'[r] = s /\ \A x \in Readers \ {r} : sent'[x] = sent[x]
  BY <1>1 DEF StreamTypes
<1>8. StreamTypes' BY <1>1, <1>2, <1>3, <1>4, <1>5, <1>6, <1>7 DEF StreamTypes
<1>9. Numbered' BY DEF StreamInv, Numbered
<1>10. FannedOut' = FannedOut /\ \A h : OneAtATime(h)' <=> OneAtATime(h) BY DEF FannedOut, OneAtATime
<1>11. \A x \in Readers : ReaderFollows(x)'
  <2> TAKE x \in Readers
  <2>1. CASE x = r BY <1>2, <1>3, <1>4, <1>5, <1>6, <1>7, <2>1 DEF ReaderFollows
  <2>2. CASE x # r BY <1>2, <1>3, <1>4, <1>5, <1>6, <1>7, <2>2 DEF StreamInv, ReaderFollows
  <2> QED BY <2>1, <2>2
<1>12. ASSUME NEW x \in Readers \ disturbed' PROVE ReaderComplete(x)'
  <2>1. ReaderComplete(x) BY DEF StreamInv
  <2>2. OneAtATime(HomeOf[x])' BY <1>10, <2>1 DEF ReaderComplete
  <2>3. CASE x = r BY <1>2, <1>3, <1>4, <1>5, <1>10, <2>2, <2>3 DEF ReaderComplete
  <2>4. CASE x # r BY <1>2, <1>3, <1>4, <1>5, <1>10, <2>1, <2>2, <2>4 DEF ReaderComplete
  <2> QED BY <2>3, <2>4
<1> QED BY <1>8, <1>9, <1>11, <1>12 DEF StreamInv

\* What a reader is before its step.
LEMMA ReaderIs ==
  ASSUME StreamInv, NEW r \in Readers
  PROVE  /\ queue[r] \in Seq(Nat) /\ cursor[r] \in Nat /\ yielded[r] \in Seq(Nat)
         /\ buffer[r] \in Seq(Nat) /\ sent[r] \in Seq(Nat) /\ reading[r] \in {"off", "catchup", "live", "ended"}
         /\ queue = [queue EXCEPT ![r] = queue[r]] /\ cursor = [cursor EXCEPT ![r] = cursor[r]]
         /\ reading = [reading EXCEPT ![r] = reading[r]] /\ yielded = [yielded EXCEPT ![r] = yielded[r]]
         /\ buffer = [buffer EXCEPT ![r] = buffer[r]] /\ sent = [sent EXCEPT ![r] = sent[r]]
         /\ Follows(Len(history), queue[r], cursor[r], reading[r], yielded[r], buffer[r], sent[r])
         /\ r \notin disturbed => HeldAll(FannedOut, queue[r], cursor[r], reading[r], yielded[r])
         /\ Len(history) \in Nat /\ FannedOut \in Int /\ FannedOut <= Len(history)
         /\ Published = 1..Len(history)
<1>1. StreamTypes BY DEF StreamInv
<1>2. Len(history) \in Nat /\ Published = 1..Len(history) BY <1>1, HistoryIs
<1>3. FannedOut \in Int /\ FannedOut <= Len(history) BY <1>2 DEF FannedOut
<1> QED BY <1>1, <1>2, <1>3 DEF StreamInv, StreamTypes, ReaderFollows, ReaderComplete

\* Two sequences that rise, the second above the first, rise together.
LEMMA RisesOn ==
  ASSUME NEW y \in Seq(Nat), NEW new \in Seq(Nat), NEW c \in Nat, NEW n \in Nat, Rises(y), Rises(new),
         Entries(y) \subseteq 1..c, Entries(new) \subseteq (c + 1)..n
  PROVE  /\ y \o new \in Seq(Nat) /\ Rises(y \o new)
         /\ Entries(y \o new) = Entries(y) \cup Entries(new)
<1>1. PICK a \in Nat, l \in Nat : a = Len(y) /\ l = Len(new) OBVIOUS
<1>2. /\ y \o new \in Seq(Nat) /\ Len(y \o new) = a + l
      /\ \A i \in 1..(a + l) : (y \o new)[i] = IF i <= a THEN y[i] ELSE new[i - a]
  BY <1>1, ConcatProperties
<1>3. PICK z \in Seq(Nat) : z = y \o new BY <1>2
<1>4. /\ DOMAIN z = 1..(a + l)
      /\ \A i \in 1..(a + l) : (i <= a => z[i] = y[i]) /\ (~(i <= a) => z[i] = new[i - a])
  <2>1. \A i \in 1..(a + l) : z[i] = IF i <= a THEN y[i] ELSE new[i - a] BY <1>2, <1>3
  <2>2. \A i \in 1..(a + l) : (i <= a => z[i] = y[i]) /\ (~(i <= a) => z[i] = new[i - a]) BY ONLY <2>1
  <2> QED BY <1>2, <1>3, <2>2
<1>5. DOMAIN y = 1..a /\ DOMAIN new = 1..l BY <1>1
<1>6. (\A i \in 1..a : y[i] \in 1..c) /\ \A i \in 1..l : new[i] \in (c + 1)..n
  <2>1. \A i \in 1..a : y[i] \in Entries(y) BY <1>5 DEF Entries
  <2>2. \A i \in 1..l : new[i] \in Entries(new) BY <1>5 DEF Entries
  <2>3. Entries(y) \subseteq 1..c /\ Entries(new) \subseteq (c + 1)..n OBVIOUS
  <2> QED BY ONLY <2>1, <2>2, <2>3
<1>7. ASSUME NEW i \in 1..(a + l), NEW j \in 1..(a + l), i < j PROVE z[i] < z[j]
  <2>1. CASE j <= a
    <3>1. i \in 1..a /\ j \in 1..a BY <1>7, <2>1
    <3>2. i <= a BY <3>1
    <3>3. z[i] = y[i] /\ z[j] = y[j] BY ONLY <1>4, <1>7, <2>1, <3>2
    <3>4. y[i] < y[j] BY <1>5, <1>7, <3>1 DEF Rises
    <3> QED BY <3>3, <3>4
  <2>2. CASE ~(j <= a) /\ i <= a
    <3>1. i \in 1..a /\ j - a \in 1..l BY <1>7, <2>2
    <3>2. z[i] = y[i] /\ z[j] = new[j - a] BY <1>4, <2>2, <3>1
    <3>3. y[i] \in 1..c /\ new[j - a] \in (c + 1)..n BY <1>6, <3>1
    <3> QED BY <3>2, <3>3
  <2>3. CASE ~(j <= a) /\ ~(i <= a)
    <3>1. i - a \in 1..l /\ j - a \in 1..l /\ i - a < j - a BY <1>7, <2>3
    <3>2. z[i] = new[i - a] /\ z[j] = new[j - a] BY <1>4, <2>3, <3>1
    <3> QED BY <1>5, <3>1, <3>2 DEF Rises
  <2> QED BY <2>1, <2>2, <2>3
<1>8. Rises(z) BY <1>4, <1>7 DEF Rises
<1>9. Entries(z) \subseteq Entries(y) \cup Entries(new)
  <2> SUFFICES ASSUME NEW i \in 1..(a + l) PROVE z[i] \in Entries(y) \cup Entries(new) BY <1>4 DEF Entries
  <2>1. CASE i <= a
    <3>1. i \in 1..a BY <2>1
    <3> QED BY <1>4, <1>5, <2>1, <3>1 DEF Entries
  <2>2. CASE ~(i <= a)
    <3>1. i - a \in 1..l BY <2>2
    <3> QED BY <1>4, <1>5, <2>2, <3>1 DEF Entries
  <2> QED BY <2>1, <2>2
<1>10. Entries(y) \subseteq Entries(z)
  <2> SUFFICES ASSUME NEW i \in 1..a PROVE y[i] \in Entries(z) BY <1>5 DEF Entries
  <2>1. i \in 1..(a + l) /\ i <= a OBVIOUS
  <2>2. z[i] = y[i] BY <1>4, <2>1
  <2> QED BY <1>4, <2>1, <2>2 DEF Entries
<1>11. Entries(new) \subseteq Entries(z)
  <2> SUFFICES ASSUME NEW i \in 1..l PROVE new[i] \in Entries(z) BY <1>5 DEF Entries
  <2>1. i + a \in 1..(a + l) /\ ~(i + a <= a) /\ (i + a) - a = i OBVIOUS
  <2>2. z[i + a] = new[i] BY <1>4, <2>1
  <2> QED BY <1>4, <2>1, <2>2 DEF Entries
<1> QED BY <1>2, <1>3, <1>8, <1>9, <1>10, <1>11

\* Text that is added is sent or held back, and none of it lost.
LEMMA TextAdded ==
  ASSUME StreamInv, NEW r \in Readers, NEW new \in Seq(Nat), AddText(r, new)
  PROVE  \E b, s \in Seq(Nat) : /\ buffer' = [buffer EXCEPT ![r] = b] /\ sent' = [sent EXCEPT ![r] = s]
                                /\ s \o b = yielded[r] \o new /\ Len(b) < MaxChars
<1> USE StreamAssumption
<1>1. PICK b0 \in Seq(Nat), s0 \in Seq(Nat), y \in Seq(Nat) : b0 = buffer[r] /\ s0 = sent[r] /\ y = yielded[r]
  BY ReaderIs
<1>2. s0 \o b0 = y BY <1>1, ReaderIs DEF Follows
<1>3. b0 \o new \in Seq(Nat) /\ (s0 \o b0) \o new = s0 \o (b0 \o new) BY ConcatProperties, ConcatAssociative
<1>4. PICK text \in Seq(Nat) : text = b0 \o new BY <1>3
<1>5. s0 \o text = y \o new BY <1>2, <1>3, <1>4
<1>6. CASE Len(text) >= MaxChars
  <2>1. sent' = [sent EXCEPT ![r] = s0 \o text] /\ buffer' = [buffer EXCEPT ![r] = <<>>]
    BY <1>1, <1>4, <1>6 DEF AddText
  <2>2. s0 \o text \in Seq(Nat) BY ConcatProperties
  <2>3. PICK s \in Seq(Nat) : s = s0 \o text BY <2>2
  <2>4. <<>> \in Seq(Nat) /\ Len(<<>>) = 0 OBVIOUS
  <2>5. s \o <<>> = s BY ConcatEmptySeq
  <2>6. s \o <<>> = yielded[r] \o new BY <1>1, <1>5, <2>3, <2>5
  <2>7. Len(<<>>) < MaxChars BY <2>4
  <2> QED BY <2>1, <2>3, <2>4, <2>6, <2>7
<1>7. CASE ~(Len(text) >= MaxChars)
  <2>1. buffer' = [buffer EXCEPT ![r] = text] /\ sent' = sent BY <1>1, <1>4, <1>7 DEF AddText
  <2>2. sent' = [sent EXCEPT ![r] = s0] BY <1>1, <2>1, ReaderIs
  <2>3. s0 \o text = yielded[r] \o new /\ Len(text) < MaxChars BY <1>1, <1>5, <1>7
  <2> QED BY <2>1, <2>2, <2>3
<1> QED BY <1>6, <1>7

\* The history after a number: the numbers from there on.
LEMMA HistoryAfter ==
  ASSUME NEW n \in Nat, Published = 1..n, NEW c \in 0..n, NEW new, new = History(c)
  PROVE  /\ new \in Seq(Nat) /\ Rises(new) /\ Entries(new) = (c + 1)..n
         /\ MaxOf({c} \cup Entries(new)) = n
<1>1. PICK S \in SUBSET (1..n) : S = {k \in 1..n : k > c} OBVIOUS
<1>2. new = Ordered(S) BY <1>1 DEF History
<1>3. new \in Seq(Nat) /\ Rises(new) /\ Entries(new) = S BY <1>2, OrderedIs
<1>4. S = (c + 1)..n BY <1>1
<1>5. PICK x : x = MaxOf({c} \cup Entries(new)) OBVIOUS
<1>6. PICK U \in SUBSET (0..n) : U = {c} \cup Entries(new)
  <2>1. {c} \cup Entries(new) \in SUBSET (0..n) BY <1>3
  <2> QED BY <2>1
<1>7. x \in 0..n /\ \A k \in U : k <= x BY <1>5, <1>6, MaxOfIs
<1>8. x = n
  <2>1. CASE c = n BY <1>6, <1>7, <2>1
  <2>2. CASE c # n
    <3>1. n \in S BY <1>4, <2>2
    <3> QED BY <1>3, <1>6, <1>7, <3>1
  <2> QED BY <2>1, <2>2
<1> QED BY <1>3, <1>4, <1>5, <1>8

\* A reader that yields the history after its cursor has all of it.
LEMMA YieldHistoryKeeps ==
  ASSUME StreamInv, NEW r \in Readers, reading[r] \in {"catchup", "live"}, Yield(r, History(cursor[r])),
         reading' = [reading EXCEPT ![r] = "live"], UNCHANGED <<history, writer, queue, disturbed>>
  PROVE  StreamInv'
<1>1. PICK n \in Nat : n = Len(history) /\ Published = 1..n BY ReaderIs
<1>2. PICK q \in Seq(Nat), c \in Nat, y \in Seq(Nat) : q = queue[r] /\ c = cursor[r] /\ y = yielded[r] BY ReaderIs
<1>3. /\ c \in 0..n /\ Entries(q) \subseteq 1..n /\ Len(q) <= QueueSize /\ Rises(y) /\ Entries(y) \subseteq 1..c
      /\ r \notin disturbed => HeldAll(FannedOut, q, c, reading[r], y)
  BY <1>1, <1>2, ReaderIs DEF Follows
<1>4. PICK new \in Seq(Nat) : new = History(c) BY <1>1, <1>3, HistoryAfter
<1>5. Rises(new) /\ Entries(new) = (c + 1)..n /\ MaxOf({c} \cup Entries(new)) = n BY <1>1, <1>3, <1>4, HistoryAfter
<1>6. Yield(r, new) BY <1>2, <1>4
<1>7. /\ yielded' = [yielded EXCEPT ![r] = y \o new]
      /\ cursor' = [cursor EXCEPT ![r] = MaxOf({c} \cup {new[i] : i \in DOMAIN new})]
      /\ AddText(r, new)
  BY <1>2, <1>6 DEF Yield
<1>8. cursor' = [cursor EXCEPT ![r] = n] BY <1>5, <1>7 DEF Entries
<1>9. y \o new \in Seq(Nat) /\ Rises(y \o new) /\ Entries(y \o new) = Entries(y) \cup Entries(new)
  BY <1>3, <1>5, RisesOn
<1>10. PICK z \in Seq(Nat) : z = y \o new BY <1>9
<1>11. Rises(z) /\ Entries(z) = Entries(y) \cup (c + 1)..n BY <1>5, <1>9, <1>10
<1>12. PICK b \in Seq(Nat), s \in Seq(Nat) :
         /\ buffer' = [buffer EXCEPT ![r] = b] /\ sent' = [sent EXCEPT ![r] = s]
         /\ s \o b = z /\ Len(b) < MaxChars
  BY <1>2, <1>7, <1>10, TextAdded
<1>13. queue' = [queue EXCEPT ![r] = q] BY <1>2, ReaderIs
<1>14. Follows(n, q, n, "live", z, b, s)
  <2>1. Entries(z) \subseteq 1..n BY <1>3, <1>11
  <2> QED BY <1>3, <1>11, <1>12, <2>1 DEF Follows
<1>15. r \notin disturbed => HeldAll(FannedOut, q, n, "live", z)
  <2> SUFFICES ASSUME r \notin disturbed PROVE HeldAll(FannedOut, q, n, "live", z) OBVIOUS
  <2>1. HeldAll(FannedOut, q, c, reading[r], y) BY <1>3
  <2>2. FannedOut \in Int /\ FannedOut <= n BY <1>1, ReaderIs
  <2>3. 1..n \subseteq Entries(z)
    <3>1. 1..c \subseteq Entries(y) BY <2>1 DEF HeldAll
    <3> QED BY <1>3, <1>11, <3>1
  <2>4. Len(q) <= FannedOut /\ (\A i \in DOMAIN q : q[i] = (FannedOut - Len(q)) + i) BY <2>1 DEF HeldAll
  <2>5. Len(q) \in Nat OBVIOUS
  <2>6. FannedOut - Len(q) <= n BY <2>2, <2>5
  <2> QED BY <2>3, <2>4, <2>6 DEF HeldAll
<1>16. yielded' = [yielded EXCEPT ![r] = z] BY <1>7, <1>10
<1>17. ReaderMoves(r, q, n, "live", z, b, s) BY <1>8, <1>12, <1>13, <1>16 DEF ReaderMoves
<1> QED BY <1>1, <1>14, <1>15, <1>17, ReaderKeeps

\* A reader catches up from the history, up to what was published when it read.
LEMMA CatchUpKeeps == ASSUME StreamInv, NEW r \in Readers, CatchUp(r) PROVE StreamInv'
BY YieldHistoryKeeps DEF CatchUp

\* A reader asks the history for what is after its cursor.
LEMMA PollKeeps == ASSUME StreamInv, NEW r \in Readers, Poll(r) PROVE StreamInv'
<1>1. reading[r] = "live" /\ Yield(r, History(cursor[r])) /\ UNCHANGED <<history, writer, queue, reading, disturbed>>
  BY DEF Poll
<1>2. reading' = [reading EXCEPT ![r] = "live"] BY <1>1, ReaderIs
<1> QED BY <1>1, <1>2, YieldHistoryKeeps

\* A reader has its queue before it reads the history, so nothing falls between.
LEMMA SubscribeKeeps == ASSUME StreamInv, NEW r \in Readers, Subscribe(r) PROVE StreamInv'
<1>1. /\ reading[r] = "off" /\ reading' = [reading EXCEPT ![r] = "catchup"]
      /\ UNCHANGED <<history, writer, queue, cursor, yielded, buffer, sent, disturbed>>
  BY DEF Subscribe
<1>2. PICK q \in Seq(Nat), c \in Nat, y \in Seq(Nat), b \in Seq(Nat), s \in Seq(Nat) :
         q = queue[r] /\ c = cursor[r] /\ y = yielded[r] /\ b = buffer[r] /\ s = sent[r]
  BY ReaderIs
<1>3. Follows(Len(history), q, c, "off", y, b, s) BY <1>1, <1>2, ReaderIs
<1>4. q = <<>> BY <1>3 DEF Follows
<1>5. Follows(Len(history), q, c, "catchup", y, b, s) BY <1>3, <1>4 DEF Follows
<1>6. r \notin disturbed => HeldAll(FannedOut, q, c, "catchup", y)
  <2>1. r \notin disturbed => HeldAll(FannedOut, q, c, "off", y) BY <1>1, <1>2, ReaderIs
  <2>2. Len(q) = 0 /\ DOMAIN q = {} BY <1>4
  <2>3. FannedOut >= 0
    <3>1. StreamTypes /\ Numbered BY DEF StreamInv
    <3>2. PICK n \in Nat : n = Len(history) BY <3>1, HistoryIs
    <3>3. (\E w \in Writers : writer[w].at = "fanout") => n # 0
      <4> SUFFICES ASSUME NEW w \in Writers, writer[w].at = "fanout" PROVE n # 0 OBVIOUS
      <4>1. writer[w].number \in 1..n BY <3>1, <3>2 DEF Numbered
      <4> QED BY <4>1
    <3> QED BY <3>2, <3>3 DEF FannedOut
  <2> QED BY <2>1, <2>2, <2>3 DEF HeldAll
<1>7. /\ queue' = [queue EXCEPT ![r] = q] /\ cursor' = [cursor EXCEPT ![r] = c] /\ yielded' = [yielded EXCEPT ![r] = y]
      /\ buffer' = [buffer EXCEPT ![r] = b] /\ sent' = [sent EXCEPT ![r] = s]
  BY <1>1, <1>2, ReaderIs
<1>8. ReaderMoves(r, q, c, "catchup", y, b, s) BY <1>1, <1>7 DEF ReaderMoves
<1> QED BY <1>5, <1>6, <1>8, ReaderKeeps

\* Text held back and then sent is the same text.
LEMMA FlushKeeps == ASSUME StreamInv, NEW r \in Readers, Flush(r) PROVE StreamInv'
<1> USE StreamAssumption
<1>1. PICK q \in Seq(Nat), c \in Nat, y \in Seq(Nat), b \in Seq(Nat), s \in Seq(Nat) :
         q = queue[r] /\ c = cursor[r] /\ y = yielded[r] /\ b = buffer[r] /\ s = sent[r]
  BY ReaderIs
<1>2. /\ sent' = [sent EXCEPT ![r] = s \o b] /\ buffer' = [buffer EXCEPT ![r] = <<>>]
      /\ UNCHANGED <<history, writer, queue, cursor, reading, yielded, disturbed>>
  BY <1>1 DEF Flush
<1>3. PICK at \in {"off", "catchup", "live", "ended"} : at = reading[r] BY ReaderIs
<1>4. Follows(Len(history), q, c, at, y, b, s) /\ (r \notin disturbed => HeldAll(FannedOut, q, c, at, y))
  BY <1>1, <1>3, ReaderIs
<1>5. s \o b = y BY <1>4 DEF Follows
<1>6. <<>> \in Seq(Nat) /\ Len(<<>>) = 0 OBVIOUS
<1>7. PICK e \in Seq(Nat) : e = <<>> BY <1>6
<1>8. y \o e = y /\ Len(e) = 0 BY <1>7, ConcatEmptySeq
<1>9. Follows(Len(history), q, c, at, y, e, y) BY <1>4, <1>8 DEF Follows
<1>10. /\ queue' = [queue EXCEPT ![r] = q] /\ cursor' = [cursor EXCEPT ![r] = c] /\ yielded' = [yielded EXCEPT ![r] = y]
      /\ reading' = [reading EXCEPT ![r] = at] /\ sent' = [sent EXCEPT ![r] = y]
  BY <1>1, <1>2, <1>3, <1>5, ReaderIs
<1>11. ReaderMoves(r, q, c, at, y, e, y) BY <1>2, <1>10, <1>7 DEF ReaderMoves
<1> QED BY <1>4, <1>9, <1>11, ReaderKeeps

\* A queue that lost its head still ends where the fan-out stands.
LEMMA TailIs ==
  ASSUME NEW n \in Nat, NEW q \in Seq(Nat), q # <<>>, Entries(q) \subseteq 1..n, Len(q) <= QueueSize
  PROVE  /\ Head(q) \in 1..n /\ Head(q) = q[1] /\ Len(q) \in Nat \ {0}
         /\ Tail(q) \in Seq(Nat) /\ Entries(Tail(q)) \subseteq 1..n /\ Len(Tail(q)) <= QueueSize
         /\ Len(Tail(q)) = Len(q) - 1 /\ \A i \in 1..(Len(q) - 1) : Tail(q)[i] = q[i + 1]
<1> USE StreamAssumption
<1>1. PICK l \in Nat : l = Len(q) OBVIOUS
<1>2. l # 0 /\ DOMAIN q = 1..l /\ \A i \in 1..l : q[i] \in 1..n BY <1>1 DEF Entries
<1>3. PICK u \in Seq(Nat) : u = Tail(q) /\ Len(u) = l - 1 /\ \A i \in 1..(l - 1) : u[i] = q[i + 1]
  <2>1. /\ Tail(q) \in Seq(Nat) /\ Len(Tail(q)) = Len(q) - 1
        /\ \A i \in 1..Len(Tail(q)) : Tail(q)[i] = q[i + 1]
    BY HeadTailProperties
  <2>2. PICK u : u = Tail(q) OBVIOUS
  <2>3. u \in Seq(Nat) /\ Len(u) = l - 1 BY <1>1, <2>1, <2>2
  <2>4. \A i \in 1..(l - 1) : u[i] = q[i + 1] BY ONLY <1>1, <2>1, <2>2
  <2> QED BY <2>2, <2>3, <2>4
<1>4. DOMAIN u = 1..(l - 1) BY <1>2, <1>3
<1>5. \A i \in 1..(l - 1) : u[i] \in 1..n
  <2> TAKE i \in 1..(l - 1)
  <2>1. i + 1 \in 1..l BY <1>2
  <2> QED BY <1>2, <1>3, <2>1
<1>6. Entries(u) \subseteq 1..n BY <1>4, <1>5 DEF Entries
<1>7. Head(q) = q[1] /\ 1 \in 1..l BY <1>2
<1> QED BY <1>1, <1>2, <1>3, <1>6, <1>7

\* An event of the queue that the catch-up has already shown is skipped.
LEMMA ReceiveKept == ASSUME StreamInv, NEW r \in Readers, Receive(r) PROVE StreamInv'
<1> USE StreamAssumption
<1>1. PICK n \in Nat, m \in Int : n = Len(history) /\ m = FannedOut BY ReaderIs
<1>2. PICK q \in Seq(Nat), c \in Nat, y \in Seq(Nat), b \in Seq(Nat), s \in Seq(Nat) :
         q = queue[r] /\ c = cursor[r] /\ y = yielded[r] /\ b = buffer[r] /\ s = sent[r]
  BY ReaderIs
<1>3. reading[r] = "live" /\ q # <<>> /\ UNCHANGED <<history, writer, reading, disturbed>> BY <1>2 DEF Receive
<1>4. Follows(n, q, c, "live", y, b, s) /\ (r \notin disturbed => HeldAll(m, q, c, "live", y))
  BY <1>1, <1>2, <1>3, ReaderIs
<1>5. /\ c \in 0..n /\ Entries(q) \subseteq 1..n /\ Len(q) <= QueueSize /\ Rises(y) /\ Entries(y) \subseteq 1..c
      /\ s \o b = y /\ Len(b) < MaxChars
  BY <1>4 DEF Follows
<1>6. PICK h \in 1..n : h = Head(q) /\ h = q[1] BY <1>3, <1>5, TailIs
<1>7. PICK t \in Seq(Nat), l \in Nat : t = Tail(q) /\ l = Len(q) BY <1>3, <1>5, TailIs
<1>8. /\ l # 0 /\ Entries(t) \subseteq 1..n /\ Len(t) <= QueueSize /\ Len(t) = l - 1
      /\ \A i \in 1..(l - 1) : t[i] = q[i + 1]
  BY <1>3, <1>5, <1>7, TailIs
<1>9. queue' = [queue EXCEPT ![r] = t] /\ reading' = [reading EXCEPT ![r] = "live"]
  BY <1>2, <1>3, <1>7, ReaderIs DEF Receive
<1>10. r \notin disturbed =>
         /\ 1..c \subseteq Entries(y) /\ m - l <= c /\ h = (m - l) + 1
         /\ Len(t) <= m /\ \A i \in DOMAIN t : t[i] = (m - Len(t)) + i
  <2> SUFFICES ASSUME r \notin disturbed
               PROVE  /\ 1..c \subseteq Entries(y) /\ m - l <= c /\ h = (m - l) + 1
                      /\ Len(t) <= m /\ \A i \in DOMAIN t : t[i] = (m - Len(t)) + i
    OBVIOUS
  <2>1. /\ 1..c \subseteq Entries(y) /\ m - l <= c /\ l <= m /\ \A i \in DOMAIN q : q[i] = (m - l) + i
    BY <1>4, <1>7 DEF HeldAll
  <2>2. DOMAIN q = 1..l /\ DOMAIN t = 1..(l - 1) BY <1>7, <1>8
  <2>3. h = (m - l) + 1
    <3>1. 1 \in DOMAIN q BY <1>8, <2>2
    <3>2. q[1] = (m - l) + 1 BY <2>1, <3>1
    <3> QED BY <1>6, <3>2
  <2>4. \A i \in 1..(l - 1) : t[i] = (m - (l - 1)) + i
    <3> TAKE i \in 1..(l - 1)
    <3>1. i + 1 \in 1..l BY <1>8
    <3>2. t[i] = (m - l) + (i + 1) BY <1>8, <2>1, <2>2, <3>1
    <3> QED BY <3>2
  <2> QED BY <1>8, <2>1, <2>2, <2>3, <2>4
<1>11. CASE h > c
  <2>1. Yield(r, <<h>>) BY <1>2, <1>6, <1>11 DEF Receive
  <2>2. PICK new \in Seq(Nat) : new = <<h>>
    <3>1. <<h>> \in Seq(Nat) OBVIOUS
    <3> QED BY <3>1
  <2>3. DOMAIN new = {1} /\ new[1] = h BY <2>2
  <2>4. Entries(new) = {h} /\ Rises(new) BY <2>3 DEF Entries, Rises
  <2>5. /\ yielded' = [yielded EXCEPT ![r] = y \o new]
        /\ cursor' = [cursor EXCEPT ![r] = MaxOf({c} \cup Entries(new))]
        /\ AddText(r, new)
    BY <1>2, <2>1, <2>2 DEF Yield, Entries
  <2>6. PICK U \in SUBSET (0..n) : U = {c} \cup Entries(new)
    <3>1. {c} \cup Entries(new) \in SUBSET (0..n) BY <1>5, <2>4
    <3> QED BY <3>1
  <2>7. PICK x : x = MaxOf(U) OBVIOUS
  <2>8. x \in 0..n /\ (U # {} => x \in U) /\ \A k \in U : k <= x BY <2>7, MaxOfIs
  <2>9. x = h BY <1>5, <1>11, <2>4, <2>6, <2>8
  <2>10. cursor' = [cursor EXCEPT ![r] = h] BY <2>5, <2>6, <2>7, <2>9
  <2>11. Entries(new) \subseteq (c + 1)..n BY <1>11, <2>4
  <2>12. y \o new \in Seq(Nat) /\ Rises(y \o new) /\ Entries(y \o new) = Entries(y) \cup Entries(new)
    BY <1>5, <2>4, <2>11, RisesOn
  <2>13. PICK z \in Seq(Nat) : z = y \o new BY <2>12
  <2>14. Rises(z) /\ Entries(z) = Entries(y) \cup {h} BY <2>4, <2>12, <2>13
  <2>15. PICK d \in Seq(Nat), e \in Seq(Nat) :
           /\ buffer' = [buffer EXCEPT ![r] = d] /\ sent' = [sent EXCEPT ![r] = e]
           /\ e \o d = z /\ Len(d) < MaxChars
    BY <1>2, <2>5, <2>13, TextAdded
  <2>16. Follows(n, t, h, "live", z, d, e)
    <3>1. Entries(z) \subseteq 1..h BY <1>5, <1>11, <2>14
    <3> QED BY <1>8, <2>14, <2>15, <3>1 DEF Follows
  <2>17. r \notin disturbed => HeldAll(m, t, h, "live", z)
    <3> SUFFICES ASSUME r \notin disturbed PROVE HeldAll(m, t, h, "live", z) OBVIOUS
    <3>1. h = c + 1 /\ m - Len(t) <= h BY <1>8, <1>10, <1>11
    <3>2. 1..h \subseteq Entries(z) BY <1>10, <2>14, <3>1
    <3> QED BY <1>10, <3>1, <3>2 DEF HeldAll
  <2>18. ReaderMoves(r, t, h, "live", z, d, e) BY <1>3, <1>9, <2>5, <2>10, <2>13, <2>15 DEF ReaderMoves
  <2>19. h \in Nat OBVIOUS
  <2> QED BY <1>1, <2>16, <2>17, <2>18, <2>19, ReaderKeeps
<1>12. CASE ~(h > c)
  <2>1. UNCHANGED <<yielded, cursor, buffer, sent>> BY <1>2, <1>6, <1>12 DEF Receive
  <2>2. Follows(n, t, c, "live", y, b, s) BY <1>4, <1>8 DEF Follows
  <2>3. r \notin disturbed => HeldAll(m, t, c, "live", y)
    <3> SUFFICES ASSUME r \notin disturbed PROVE HeldAll(m, t, c, "live", y) OBVIOUS
    <3>1. m - Len(t) <= c BY <1>8, <1>10, <1>12
    <3> QED BY <1>10, <3>1 DEF HeldAll
  <2>4. ReaderMoves(r, t, c, "live", y, b, s)
    <3>1. /\ cursor' = [cursor EXCEPT ![r] = c] /\ yielded' = [yielded EXCEPT ![r] = y]
          /\ buffer' = [buffer EXCEPT ![r] = b] /\ sent' = [sent EXCEPT ![r] = s]
      BY <1>2, <2>1, ReaderIs
    <3> QED BY <1>3, <1>9, <3>1 DEF ReaderMoves
  <2> QED BY <1>1, <2>2, <2>3, <2>4, ReaderKeeps
<1> QED BY <1>11, <1>12

\* A stream that ends: what the queue still has, then what the history has beyond it, then the text held back.
LEMMA FinishKept == ASSUME StreamInv, NEW r \in Readers, Finish(r) PROVE StreamInv'
<1> USE StreamAssumption
<1>1. PICK n \in Nat, m \in Int : n = Len(history) /\ m = FannedOut /\ Published = 1..n BY ReaderIs
<1>2. PICK q \in Seq(Nat), c \in Nat, y \in Seq(Nat), b \in Seq(Nat), s \in Seq(Nat) :
         q = queue[r] /\ c = cursor[r] /\ y = yielded[r] /\ b = buffer[r] /\ s = sent[r]
  BY ReaderIs
<1>3. reading[r] = "live" /\ UNCHANGED <<history, writer, disturbed>> BY DEF Finish
<1>4. Follows(n, q, c, "live", y, b, s) /\ (r \notin disturbed => HeldAll(m, q, c, "live", y))
  BY <1>1, <1>2, <1>3, ReaderIs
<1>5. /\ c \in 0..n /\ Entries(q) \subseteq 1..n /\ Len(q) <= QueueSize /\ Rises(y) /\ Entries(y) \subseteq 1..c
      /\ s \o b = y /\ Len(b) < MaxChars
  BY <1>4 DEF Follows
<1>6. PICK F : F = {q[i] : i \in {k \in DOMAIN q : q[k] > c /\ \A j \in 1..(k - 1) : q[j] < q[k]}} OBVIOUS
<1>7. F \subseteq (c + 1)..n
  <2> SUFFICES ASSUME NEW i \in DOMAIN q, q[i] > c PROVE q[i] \in (c + 1)..n BY <1>6
  <2>1. q[i] \in 1..n BY <1>5 DEF Entries
  <2> QED BY <2>1
<1>8. PICK fresh \in Seq(Nat) : fresh = Rising(q, c) /\ Rises(fresh) /\ Entries(fresh) = F
  <2>1. F \in SUBSET (1..n) BY <1>7
  <2>2. Rising(q, c) = Ordered(F) BY <1>6 DEF Rising
  <2>3. Ordered(F) \in Seq(Nat) /\ Rises(Ordered(F)) /\ Entries(Ordered(F)) = F BY <2>1, OrderedIs
  <2> QED BY <2>2, <2>3
<1>9. PICK U \in SUBSET (0..n) : U = {c} \cup F
  <2>1. {c} \cup F \in SUBSET (0..n) BY <1>5, <1>7
  <2> QED BY <2>1
<1>10. PICK seen \in 0..n : seen = MaxOf(U) /\ seen \in U /\ \A k \in U : k <= seen
  <2>1. PICK x : x = MaxOf(U) OBVIOUS
  <2>2. x \in 0..n /\ (U # {} => x \in U) /\ \A k \in U : k <= x BY <2>1, MaxOfIs
  <2>3. U # {} BY <1>9
  <2> QED BY <2>1, <2>2, <2>3
<1>11. c <= seen /\ seen \in Nat /\ \A k \in F : k \in (c + 1)..n /\ k <= seen
  <2>1. c \in U /\ \A k \in F : k \in U BY <1>9
  <2>2. c <= seen BY <1>10, <2>1
  <2>3. \A k \in F : k <= seen BY <1>10, <2>1
  <2> QED BY <1>7, <2>2, <2>3
<1>12. PICK new \in Seq(Nat) : new = History(seen) /\ Rises(new) /\ Entries(new) = (seen + 1)..n
  BY <1>1, <1>10, HistoryAfter
<1>13. PICK rest \in Seq(Nat) : rest = fresh \o new /\ Rises(rest) /\ Entries(rest) = F \cup (seen + 1)..n
  <2>1. Entries(fresh) \subseteq 1..seen
    <3>1. \A k \in F : k \in 1..seen BY <1>5, <1>11
    <3> QED BY <1>8, <3>1
  <2>2. Entries(new) \subseteq (seen + 1)..n BY <1>12
  <2>3. /\ fresh \o new \in Seq(Nat) /\ Rises(fresh \o new)
        /\ Entries(fresh \o new) = Entries(fresh) \cup Entries(new)
    BY <1>8, <1>12, <1>11, <2>1, <2>2, RisesOn
  <2> QED BY <1>8, <1>12, <2>3
<1>14. PICK z \in Seq(Nat) : z = y \o rest /\ Rises(z) /\ Entries(z) = Entries(y) \cup Entries(rest)
  <2>1. Entries(rest) \subseteq (c + 1)..n
    <3>1. \A k \in (seen + 1)..n : k \in (c + 1)..n BY <1>5, <1>11
    <3> QED BY <1>13, <1>11, <3>1
  <2>2. y \o rest \in Seq(Nat) /\ Rises(y \o rest) /\ Entries(y \o rest) = Entries(y) \cup Entries(rest)
    BY <1>5, <1>13, <2>1, RisesOn
  <2> QED BY <2>2
<1>15. seen = MaxOf({c} \cup {fresh[i] : i \in DOMAIN fresh}) BY <1>8, <1>9, <1>10 DEF Entries
<1>16. /\ yielded' = [yielded EXCEPT ![r] = z]
       /\ cursor' = [cursor EXCEPT ![r] = MaxOf({seen} \cup Published)]
       /\ sent' = [sent EXCEPT ![r] = (s \o b) \o rest]
       /\ buffer' = [buffer EXCEPT ![r] = <<>>] /\ queue' = [queue EXCEPT ![r] = <<>>]
       /\ reading' = [reading EXCEPT ![r] = "ended"]
  <2>1. Rising(queue[r], cursor[r]) = fresh BY <1>2, <1>8
  <2>2. MaxOf({cursor[r]} \cup {fresh[i] : i \in DOMAIN fresh}) = seen BY <1>2, <1>15
  <2>3. fresh \o History(seen) = rest BY <1>12, <1>13
  <2> QED BY <1>2, <1>14, <2>1, <2>2, <2>3 DEF Finish
<1>17. MaxOf({seen} \cup Published) = n
  <2>1. PICK W \in SUBSET (0..n) : W = {seen} \cup Published
    <3>1. {seen} \cup Published \in SUBSET (0..n) BY <1>1
    <3> QED BY <3>1
  <2>2. PICK x : x = MaxOf(W) OBVIOUS
  <2>3. x \in 0..n /\ \A k \in W : k <= x BY <2>2, MaxOfIs
  <2>4. x = n
    <3>1. CASE n = 0 BY <2>3, <3>1
    <3>2. CASE n # 0
      <4>1. n \in W BY <1>1, <2>1, <3>2
      <4> QED BY <2>3, <4>1
    <3> QED BY <3>1, <3>2
  <2> QED BY <2>1, <2>2, <2>4
<1>18. PICK e \in Seq(Nat) : e = <<>> /\ Len(e) = 0 /\ DOMAIN e = {}
  <2>1. <<>> \in Seq(Nat) /\ Len(<<>>) = 0 /\ DOMAIN <<>> = {} OBVIOUS
  <2>2. PICK e \in Seq(Nat) : e = <<>> BY <2>1
  <2> QED BY <2>1, <2>2
<1>19. ReaderMoves(r, e, n, "ended", z, e, z) BY <1>3, <1>5, <1>14, <1>16, <1>17, <1>18 DEF ReaderMoves
<1>20. Follows(n, e, n, "ended", z, e, z)
  <2>1. z \o e = z BY <1>18, ConcatEmptySeq
  <2>2. Entries(z) \subseteq 1..n
    <3>1. \A k \in 1..c : k \in 1..n BY <1>5
    <3>2. \A k \in F \cup (seen + 1)..n : k \in 1..n BY <1>5, <1>11
    <3> QED BY <1>5, <1>13, <1>14, <3>1, <3>2
  <2>3. Entries(e) = {} BY <1>18 DEF Entries
  <2> QED BY <1>14, <1>18, <2>1, <2>2, <2>3 DEF Follows
<1>21. r \notin disturbed => HeldAll(m, e, n, "ended", z)
  <2> SUFFICES ASSUME r \notin disturbed PROVE 1..n \subseteq Entries(z) BY DEF HeldAll
  <2>1. PICK l \in Nat : l = Len(q) OBVIOUS
  <2>2. /\ 1..c \subseteq Entries(y) /\ m - l <= c /\ l <= m /\ DOMAIN q = 1..l
        /\ \A i \in 1..l : q[i] = (m - l) + i
    <3>1. HeldAll(m, q, c, "live", y) BY <1>4
    <3>2. /\ 1..c \subseteq Entries(y) /\ m - Len(q) <= c /\ Len(q) <= m
          /\ \A i \in DOMAIN q : q[i] = (m - Len(q)) + i
      BY <3>1 DEF HeldAll
    <3>3. DOMAIN q = 1..l BY <2>1
    <3> QED BY <2>1, <3>2, <3>3
  <2>3. ASSUME NEW k \in (c + 1)..seen PROVE k \in F
    <3>1. seen \in F BY <1>9, <1>10, <2>3
    <3>2. PICK i \in 1..l : seen = q[i]
      <4>1. \A t \in F : \E i \in DOMAIN q : t = q[i] BY ONLY <1>6
      <4> QED BY ONLY <2>2, <3>1, <4>1
    <3>3. PICK x \in 1..l : x = k - (m - l)
      <4>1. seen = (m - l) + i BY <2>2, <3>2
      <4>2. c \in Nat /\ l \in Nat /\ m \in Int /\ seen \in Nat /\ m - l <= c BY <2>2, <1>11
      <4>3. k - (m - l) \in 1..l BY ONLY <4>1, <4>2, k \in (c + 1)..seen, i \in 1..l, c \in Nat, l \in Nat, m \in Int
      <4> QED BY <4>3
    <3>4. q[x] = k BY <2>2, <3>3
    <3>5. \A j \in 1..(x - 1) : q[j] < q[x] BY <2>2
    <3>6. x \in DOMAIN q /\ q[x] > c BY <2>2, <2>3, <3>4
    <3>7. x \in {g \in DOMAIN q : q[g] > c /\ \A j \in 1..(g - 1) : q[j] < q[g]} BY <3>5, <3>6
    <3> QED BY <1>6, <3>4, <3>7
  <2> QED BY <1>13, <1>14, <2>2, <2>3
<1> QED BY <1>1, <1>19, <1>20, <1>21, ReaderKeeps

\* Every step of a writer and of a reader keeps the invariant.
LEMMA StreamInvKept == ASSUME StreamInv, [StreamNext]_streamVars PROVE StreamInv'
<1>1. CASE UNCHANGED streamVars
  <2> USE <1>1 DEF streamVars
  <2>1. StreamTypes' /\ Numbered' BY DEF StreamInv, StreamTypes, Numbered
  <2>2. FannedOut' = FannedOut /\ \A h : OneAtATime(h)' <=> OneAtATime(h) BY DEF FannedOut, OneAtATime
  <2>3. \A r \in Readers : ReaderFollows(r)' BY DEF StreamInv, ReaderFollows
  <2>4. \A r \in Readers \ disturbed' : ReaderComplete(r)' BY <2>2 DEF StreamInv, ReaderComplete
  <2> QED BY <2>1, <2>3, <2>4 DEF StreamInv
<1>2. ASSUME NEW w \in Writers, NextSequence(w) \/ Insert(w) \/ FanOut(w) PROVE StreamInv'
  BY <1>2, NextSequenceKeeps, InsertKeeps, FanOutKeeps
<1>3. ASSUME NEW r \in Readers,
             Subscribe(r) \/ CatchUp(r) \/ Receive(r) \/ Poll(r) \/ Flush(r) \/ Finish(r)
      PROVE  StreamInv'
  BY <1>3, SubscribeKeeps, CatchUpKeeps, ReceiveKept, PollKeeps, FlushKeeps, FinishKept
<1> QED BY <1>1, <1>2, <1>3 DEF StreamNext

\* What the invariant says of the numbers, the order and the text of a stream.
LEMMA StreamInvSafe == ASSUME StreamInv PROVE StreamSafe
<1> USE StreamAssumption
<1>1. StreamTypes BY DEF StreamInv
<1>2. PICK n \in Nat : n = Len(history) /\ Published = 1..n BY <1>1, HistoryIs
<1>3. \A r \in Readers : Follows(n, queue[r], cursor[r], reading[r], yielded[r], buffer[r], sent[r])
  BY <1>2 DEF StreamInv, ReaderFollows
<1>4. StreamTypeOK
  <2>1. n <= MaxEvents BY <1>1, <1>2 DEF StreamTypes
  <2>2. \A r \in Readers : cursor[r] \in 0..n /\ Len(queue[r]) <= QueueSize /\ Len(buffer[r]) < MaxChars
    BY <1>3 DEF Follows
  <2>3. cursor \in [Readers -> 0..MaxEvents] BY <1>1, <2>1, <2>2 DEF StreamTypes
  <2> QED BY <1>1, <1>2, <2>1, <2>2, <2>3 DEF StreamTypes, StreamTypeOK, Numbers
<1>5. GapFree BY <1>2 DEF GapFree
<1>6. InOrderOnce BY <1>3 DEF Follows, Rises, InOrderOnce
<1>7. NothingSkipped
  <2> SUFFICES ASSUME NEW r \in Readers \ disturbed, NEW k \in Published, k < cursor[r]
               PROVE  \E i \in DOMAIN yielded[r] : yielded[r][i] = k
    BY DEF NothingSkipped
  <2>1. 1..cursor[r] \subseteq Entries(yielded[r]) BY DEF StreamInv, ReaderComplete, HeldAll
  <2>2. cursor[r] \in 0..n BY <1>3 DEF Follows
  <2>3. k \in 1..cursor[r] BY <1>2, <2>2
  <2> QED BY <2>1, <2>3 DEF Entries
<1>8. TextIsWhole BY <1>3 DEF Follows, TextIsWhole
<1> QED BY <1>4, <1>5, <1>6, <1>7, <1>8 DEF StreamSafe

(* The HTTP API and the stream of a run's events, for any number of
   requests, principals, tenants, things, writers and readers and every size
   of a reader's queue: a slot of a tenant and a route class is held by one
   request until its response starts, so that a bounded class never works on
   more than its limit; only owners are served, a request has one answer; events are numbered
   without gaps, and a reader sees them in order, once, with none skipped
   where nothing was dropped. *)
THEOREM ClientsAreServed == ClientsSpec => []ClientsSafe
<1>1. GateInit => GateInv BY GateInitInv
<1>2. GateInv /\ [GateNext]_gateVars => GateInv' BY GateInvKept
<1>3. GateInv => GateSafe BY GateInvSafe
<1>4. StreamInit => StreamInv BY StreamInitInv
<1>5. StreamInv /\ [StreamNext]_streamVars => StreamInv' BY StreamInvKept
<1>6. StreamInv => StreamSafe BY StreamInvSafe
<1>7. GateSpec => []GateSafe BY <1>1, <1>2, <1>3, PTL DEF GateSpec
<1>8. StreamSpec => []StreamSafe BY <1>4, <1>5, <1>6, PTL DEF StreamSpec
<1> QED BY <1>7, <1>8, PTL DEF ClientsSpec, ClientsSafe

-----------------------------------------------------------------------------
(* ModelRouter.                                                            *)

\* The least number of a set that has one.
LEMMA MinIs ==
  ASSUME NEW T \in SUBSET Nat, T # {}
  PROVE  Min(T) \in T /\ \A k \in T : Min(T) <= k
<1>1. \E x \in T : \A y \in T : x <= y BY LeastNatural
<1> QED BY <1>1 DEF Min

\* The profiles a request may be sent to, and what must be true of each: the model can do what its
\* profile asks for.
CanAnswer(i) == i \in DOMAIN Profiles /\ Profiles[i].needs \subseteq Registration[Profiles[i].provider].caps
AllAble(q) == q \in Seq(Nat) /\ \A k \in DOMAIN q : CanAnswer(q[k])

HealthRecord == [fails : Nat, opened : {Unopened} \cup 0..MaxClock, slow : 0..1]
CallRecord ==
    [at : {"idle", "pick", "acquire", "reserve", "sent", "settle", "done"}, todo : Seq(Nat), tried : Seq(Nat),
     big : BOOLEAN, streaming : BOOLEAN,
     result : {"none", "no_model", "over_budget", "all_failed", "cannot_stream", "refused", "answered",
               "meter_failed", "invalid_request", "cancelled", "stream_failed"}]
Tickets == {"none", "held", "settled", "released"}

RouterTypes ==
    /\ health \in [Providers -> HealthRecord]
    /\ clock \in 0..MaxClock
    /\ stamps \in [Providers -> Seq(Nat)] /\ admitted \in [Providers -> Seq(Nat)]
    /\ rcall \in [ModelCalls -> CallRecord] /\ ticket \in [ModelCalls -> Tickets]

\* A call: its candidates can answer it, it has one while it is under way, and its reservation is held
\* from the dispatch to its end.
CallOK(v, t) ==
    /\ AllAble(v.todo)
    /\ v.at \in {"acquire", "reserve", "sent", "settle"} => v.todo # <<>>
    /\ t = "held" => v.at \in {"sent", "settle"} \/ v.result = "meter_failed"
    /\ v.result = "meter_failed" => v.at = "done"
CallsInv == \A c \in ModelCalls : CallOK(rcall[c], ticket[c])

\* A provider: the moments in its window are the last of those it let through, and those that left it lie
\* before the window.
RateOK(S, A, now) ==
    /\ Len(S) <= Len(A)
    /\ \A k \in 1..Len(S) : S[k] = A[Len(A) - Len(S) + k]
    /\ \A i \in 1..(Len(A) - Len(S)) : A[i] <= now - Window
    /\ \A i \in 1..Len(A) : A[i] <= now
    /\ \A i, j \in 1..Len(A) : i <= j => A[i] <= A[j]
    /\ \A i \in 1..Len(A) : i + Limit \in 1..Len(A) => A[i + Limit] - A[i] >= Window
RatesInv == \A p \in Providers : RateOK(stamps[p], admitted[p], clock)

RouterInv == RouterTypes /\ CallsInv /\ RatesInv /\ CircuitFollowsFailures

\* What RouterInv says is what RouterSafe promises.
LEMMA RouterInvSafe == RouterInv => RouterSafe
<1> SUFFICES ASSUME RouterInv PROVE RouterSafe OBVIOUS
<1>1. RouterTypeOK
  <2>1. \A p \in Providers : health[p] \in HealthRecord BY DEF RouterInv, RouterTypes
  <2>2. \A p \in Providers : health[p].fails \in Nat /\ health[p].opened \in {Unopened} \cup 0..MaxClock
    BY <2>1 DEF HealthRecord
  <2>3. \A c \in ModelCalls : ticket[c] \in Tickets BY DEF RouterInv, RouterTypes
  <2>4. clock \in 0..MaxClock BY DEF RouterInv, RouterTypes
  <2> QED BY <2>2, <2>3, <2>4 DEF RouterTypeOK, Tickets
<1>2. ReservationsClosed BY DEF RouterInv, CallsInv, CallOK, ReservationsClosed
<1>3. RateHolds
  <2> SUFFICES ASSUME NEW p \in Providers, NEW i \in DOMAIN admitted[p], i + Limit \in DOMAIN admitted[p]
               PROVE  admitted[p][i + Limit] - admitted[p][i] >= Window
    BY DEF RateHolds
  <2>1. admitted[p] \in Seq(Nat) BY DEF RouterInv, RouterTypes
  <2>2. RateOK(stamps[p], admitted[p], clock) BY DEF RouterInv, RatesInv
  <2>3. \A k \in 1..Len(admitted[p]) :
          k + Limit \in 1..Len(admitted[p]) => admitted[p][k + Limit] - admitted[p][k] >= Window
    BY ONLY <2>2 DEF RateOK
  <2>4. DOMAIN admitted[p] = 1..Len(admitted[p]) BY <2>1
  <2>5. i \in 1..Len(admitted[p]) /\ i + Limit \in 1..Len(admitted[p]) BY <2>4, Zenon
  <2> QED BY <2>3, <2>5, Zenon
<1>4. CircuitFollowsFailures BY DEF RouterInv
<1>5. CapableOnly
  <2> SUFFICES ASSUME NEW c \in ModelCalls, Sent(c)
               PROVE  Profiles[rcall[c].todo[1]].needs \subseteq Registration[Chosen(c)].caps
    BY DEF CapableOnly
  <2>1. CallOK(rcall[c], ticket[c]) BY DEF RouterInv, CallsInv
  <2>2. AllAble(rcall[c].todo) /\ rcall[c].todo # <<>> BY <2>1 DEF CallOK, Sent
  <2>3. 1 \in DOMAIN rcall[c].todo BY <2>2 DEF AllAble
  <2>4. CanAnswer(rcall[c].todo[1]) BY <2>2, <2>3 DEF AllAble
  <2> QED BY <2>4 DEF CanAnswer, Chosen
<1> QED BY <1>1, <1>2, <1>3, <1>4, <1>5 DEF RouterSafe

\* The ranking of the profiles (candidates): every candidate can do what its profile asks for.
LEMMA CandidatesAble ==
  ASSUME RouterTypes
  PROVE  AllAble(Candidates)
<1> USE RouterAssumption
<1>1. PICK S : S = Able OBVIOUS
<1>2. S \in SUBSET (1..Len(Profiles)) /\ Len(Profiles) \in Nat /\ DOMAIN Profiles = 1..Len(Profiles)
  BY <1>1 DEF Able
<1>3. IsFiniteSet(S)
  <2>1. IsFiniteSet(1..Len(Profiles)) BY <1>2, FS_Interval
  <2> QED BY <1>2, <2>1, FS_Subset
<1>4. ASSUME NEW i \in S PROVE CanAnswer(i)
  <2>1. i \in DOMAIN Profiles /\ Admissible(i) BY <1>1 DEF Able
  <2>2. Profiles[i].needs \subseteq NarrowCapabilities(Registration[Profiles[i].provider])
    BY <2>1 DEF Admissible
  <2> QED BY <2>1, <2>2 DEF CanAnswer, NarrowCapabilities
<1>5. PICK score : score = [i \in S |-> Score(i)] OBVIOUS
<1>6. ASSUME NEW i \in S PROVE Score(i) \in Int
  <2>1. i \in Int /\ i \in DOMAIN Profiles BY <1>2
  <2>2. Profiles[i].provider \in Providers /\ Profiles[i].quality \in Int BY <2>1
  <2>3. Registration[Profiles[i].provider].cost \in Int BY <2>2
  <2>4. health[Profiles[i].provider] \in HealthRecord BY <2>2 DEF RouterTypes
  <2>5. health[Profiles[i].provider].slow \in Int BY <2>4 DEF HealthRecord
  <2> QED BY <2>1, <2>2, <2>3, <2>5 DEF Score
<1>7. PICK R : R = {e \in S \X S : Before(e[1], e[2])} OBVIOUS
<1>8. \A i, j \in S : <<i, j>> \in R <=> score[i] > score[j] \/ (score[i] = score[j] /\ i < j)
  <2>1. \A i, j \in S : <<i, j>> \in R <=> Before(i, j) BY <1>7
  <2> QED BY <1>5, <2>1 DEF Before
<1>9. \A i \in S : score[i] \in Int /\ i \in Int BY <1>2, <1>5, <1>6
<1>10. Ranking(S, R) BY <1>8, <1>9 DEF Ranking
<1>11. Candidates = InOrder(S, R) BY <1>1, <1>7 DEF Candidates
<1>12. PICK q : q = InOrder(S, R) OBVIOUS
<1>13. PICK n \in Nat : q \in [1..n -> S] BY <1>3, <1>10, <1>12, InOrderIs
<1>14. q \in Seq(Nat) /\ DOMAIN q = 1..n
  <2>0. S \subseteq Nat BY <1>2
  <2>1. q \in [1..n -> Nat] BY ONLY <2>0, <1>13
  <2> QED BY <1>13, <2>1
<1>15. \A k \in 1..n : q[k] \in S BY <1>13
<1> QED BY <1>4, <1>11, <1>12, <1>14, <1>15 DEF AllAble

\* A step of one call: what it leaves in its record and its reservation.
LEMMA CallStep ==
  ASSUME RouterInv, NEW c \in ModelCalls, NEW v \in CallRecord, NEW t \in Tickets,
         rcall' = [rcall EXCEPT ![c] = v], ticket' = [ticket EXCEPT ![c] = t], CallOK(v, t)
  PROVE  CallsInv' /\ rcall' \in [ModelCalls -> CallRecord] /\ ticket' \in [ModelCalls -> Tickets]
<1>1. rcall \in [ModelCalls -> CallRecord] /\ ticket \in [ModelCalls -> Tickets] BY DEF RouterInv, RouterTypes
<1>2. \A d \in ModelCalls : CallOK(rcall[d], ticket[d]) BY DEF RouterInv, CallsInv
<1>3. ASSUME NEW d \in ModelCalls PROVE CallOK(rcall'[d], ticket'[d])
  <2>1. CASE d = c
    <3>1. rcall'[d] = v /\ ticket'[d] = t BY <1>1, <2>1
    <3> QED BY <3>1
  <2>2. CASE d # c
    <3>1. rcall'[d] = rcall[d] /\ ticket'[d] = ticket[d] BY <1>1, <2>2
    <3> QED BY <1>2, <3>1
  <2> QED BY <2>1, <2>2
<1>4. CallsInv' BY <1>3 DEF CallsInv
<1> QED BY <1>1, <1>4

\* The state of a call before a step.
LEMMA CallBefore ==
  ASSUME RouterInv, NEW c \in ModelCalls
  PROVE  /\ rcall[c] \in CallRecord /\ ticket[c] \in Tickets /\ CallOK(rcall[c], ticket[c])
         /\ ticket = [ticket EXCEPT ![c] = ticket[c]]
<1>1. ticket \in [ModelCalls -> Tickets] /\ rcall \in [ModelCalls -> CallRecord] BY DEF RouterInv, RouterTypes
<1>2. ticket = [ticket EXCEPT ![c] = ticket[c]] BY <1>1
<1> QED BY <1>1, <1>2 DEF RouterInv, CallsInv

\* Nothing of the providers moves.
LEMMA ProvidersSame ==
  ASSUME RouterInv, UNCHANGED <<health, stamps, clock, admitted>>, CallsInv',
         rcall' \in [ModelCalls -> CallRecord], ticket' \in [ModelCalls -> Tickets]
  PROVE  RouterInv'
<1>1. RouterTypes' BY DEF RouterInv, RouterTypes
<1>2. RatesInv' BY DEF RouterInv, RatesInv
<1>3. CircuitFollowsFailures' BY DEF RouterInv, CircuitFollowsFailures
<1> QED BY <1>1, <1>2, <1>3 DEF RouterInv

\* A call that ends.
Ended(r, result) == [r EXCEPT !.at = "done", !.result = result, !.todo = <<>>]
Results == {"none", "no_model", "over_budget", "all_failed", "cannot_stream", "refused", "answered",
            "meter_failed", "invalid_request", "cancelled", "stream_failed"}

\* It leaves no candidate, and its reservation must be closed.
LEMMA EndedOK ==
  ASSUME NEW r \in CallRecord, NEW result \in Results, NEW t \in Tickets,
         t = "held" => result = "meter_failed"
  PROVE  Ended(r, result) \in CallRecord /\ CallOK(Ended(r, result), t)
<1>1. <<>> \in Seq(Nat) /\ AllAble(<<>>) BY DEF AllAble
<1>2. Ended(r, result) \in CallRecord BY <1>1 DEF Ended, CallRecord, Results
<1>3. Ended(r, result).at = "done" /\ Ended(r, result).result = result /\ Ended(r, result).todo = <<>>
  BY DEF Ended, CallRecord
<1> QED BY <1>1, <1>2, <1>3 DEF CallOK

\* EndCall in terms of the record.
LEMMA EndCallIs ==
  ASSUME RouterInv, NEW c \in ModelCalls, NEW result, EndCall(c, result)
  PROVE  rcall' = [rcall EXCEPT ![c] = Ended(rcall[c], result)]
<1>1. rcall \in [ModelCalls -> CallRecord] BY DEF RouterInv, RouterTypes
<1>2. rcall' = [rcall EXCEPT ![c].at = "done", ![c].result = result, ![c].todo = <<>>] BY DEF EndCall
<1> QED BY <1>1, <1>2 DEF Ended

\* A call that starts.
LEMMA RouterStart ==
  ASSUME RouterInv, NEW c \in ModelCalls, NEW big \in BOOLEAN, NEW streaming \in BOOLEAN, StartCall(c, big, streaming)
  PROVE  RouterInv'
<1>1. PICK q : q = Candidates OBVIOUS
<1>2. AllAble(q) /\ q \in Seq(Nat) BY <1>1, CandidatesAble DEF RouterInv, AllAble
<1>3. PICK v : v = [at |-> IF q = <<>> THEN "done" ELSE "pick", todo |-> q, tried |-> <<>>,
                    big |-> big, result |-> IF q = <<>> THEN "no_model" ELSE "none", streaming |-> streaming]
  OBVIOUS
<1>4. rcall' = [rcall EXCEPT ![c] = v] /\ rcall[c].at = "idle" BY <1>1, <1>3 DEF StartCall
<1>5. v \in CallRecord
  <2>1. <<>> \in Seq(Nat) OBVIOUS
  <2> QED BY <1>2, <1>3, <2>1 DEF CallRecord
<1>6. v.at \in {"done", "pick"} /\ v.result \in {"no_model", "none"} /\ v.todo = q BY <1>3
<1>7. ticket[c] \in Tickets /\ ticket' = [ticket EXCEPT ![c] = ticket[c]] /\ ticket[c] # "held"
  <2>1. CallOK(rcall[c], ticket[c]) /\ ticket[c] \in Tickets /\ ticket = [ticket EXCEPT ![c] = ticket[c]] BY CallBefore
  <2> QED BY <1>4, <2>1 DEF CallOK, StartCall
<1>8. CallOK(v, ticket[c]) BY <1>2, <1>6, <1>7 DEF CallOK
<1>9. CallsInv' /\ rcall' \in [ModelCalls -> CallRecord] /\ ticket' \in [ModelCalls -> Tickets]
  BY <1>4, <1>5, <1>7, <1>8, CallStep
<1> QED BY <1>9, ProvidersSame DEF StartCall

\* A call that moves to its next candidate that fits, or ends.
LEMMA RouterPick ==
  ASSUME RouterInv, NEW c \in ModelCalls, PickCandidate(c)
  PROVE  RouterInv'
<1>1. PICK r \in CallRecord : r = rcall[c] BY CallBefore
<1>2. /\ ticket[c] \in Tickets /\ ticket' = [ticket EXCEPT ![c] = ticket[c]] /\ CallOK(r, ticket[c])
      /\ r.at = "pick" /\ ticket[c] # "held" /\ r.result # "meter_failed"
  <2>1. CallOK(rcall[c], ticket[c]) /\ ticket[c] \in Tickets /\ ticket = [ticket EXCEPT ![c] = ticket[c]] BY CallBefore
  <2>2. r.at = "pick" /\ ticket' = ticket BY <1>1 DEF PickCandidate
  <2> QED BY <1>1, <2>1, <2>2 DEF CallOK
<1>3. ASSUME NEW result \in Results, EndCall(c, result) PROVE RouterInv'
  <2>1. rcall' = [rcall EXCEPT ![c] = Ended(r, result)] BY <1>1, <1>3, EndCallIs
  <2>2. Ended(r, result) \in CallRecord /\ CallOK(Ended(r, result), ticket[c]) BY <1>2, EndedOK
  <2>3. CallsInv' /\ rcall' \in [ModelCalls -> CallRecord] /\ ticket' \in [ModelCalls -> Tickets]
    BY <1>2, <2>1, <2>2, CallStep
  <2> QED BY <2>3, ProvidersSame DEF PickCandidate
<1>4. PICK todo : todo = r.todo OBVIOUS
<1>5. PICK fitting : fitting = {k \in DOMAIN todo : FitsWindow(c, todo[k])} OBVIOUS
<1>6. ASSUME fitting # {}, rcall' = [rcall EXCEPT ![c].at = "acquire", ![c].todo = SubSeq(todo, Min(fitting), Len(todo))]
      PROVE  RouterInv'
  <2>1. AllAble(todo) /\ todo \in Seq(Nat) BY <1>2, <1>4 DEF CallOK, AllAble
  <2>2. fitting \in SUBSET (1..Len(todo)) /\ DOMAIN todo = 1..Len(todo) /\ Len(todo) \in Nat BY <1>5, <2>1
  <2>3. PICK m \in 1..Len(todo) : m = Min(fitting)
    <3>1. fitting \in SUBSET Nat BY <2>2
    <3>2. Min(fitting) \in fitting BY <1>6, <3>1, MinIs
    <3> QED BY <2>2, <3>2
  <2>4. PICK rest : rest = SubSeq(todo, m, Len(todo)) OBVIOUS
  <2>5. /\ rest \in Seq(Nat) /\ Len(rest) = Len(todo) - m + 1
        /\ \A k \in 1..(Len(todo) - m + 1) : rest[k] = todo[m + k - 1]
    <3>1. m \in Int /\ Len(todo) \in Int /\ m <= Len(todo) /\ \A k \in m..Len(todo) : todo[k] \in Nat
      BY <2>1, <2>2, <2>3
    <3> QED BY <2>4, <3>1, SubSeqProperties
  <2>6. AllAble(rest) /\ rest # <<>>
    <3>1. ASSUME NEW k \in DOMAIN rest PROVE CanAnswer(rest[k])
      <4>1. k \in 1..(Len(todo) - m + 1) BY <2>5
      <4>2. m + k - 1 \in 1..Len(todo) BY <2>2, <2>3, <4>1
      <4>3. rest[k] = todo[m + k - 1] BY <2>5, <4>1
      <4> QED BY <2>1, <2>2, <4>2, <4>3 DEF AllAble
    <3>2. Len(rest) # 0 BY <2>2, <2>3, <2>5
    <3> QED BY <2>5, <3>1, <3>2 DEF AllAble
  <2>7. PICK v : v = [r EXCEPT !.at = "acquire", !.todo = rest] OBVIOUS
  <2>8. v \in CallRecord /\ v.at = "acquire" /\ v.todo = rest /\ v.result = r.result BY <2>5, <2>7 DEF CallRecord
  <2>9. rcall' = [rcall EXCEPT ![c] = v]
    <3>1. rcall \in [ModelCalls -> CallRecord] BY DEF RouterInv, RouterTypes
    <3> QED BY <1>1, <1>6, <2>3, <2>4, <2>7, <3>1
  <2>10. CallOK(v, ticket[c]) BY <1>2, <2>6, <2>8 DEF CallOK
  <2>11. CallsInv' /\ rcall' \in [ModelCalls -> CallRecord] /\ ticket' \in [ModelCalls -> Tickets]
    BY <1>2, <2>8, <2>9, <2>10, CallStep
  <2> QED BY <2>11, ProvidersSame DEF PickCandidate
<1>7. IF fitting = {} THEN EndCall(c, IF rcall[c].tried = <<>> THEN "over_budget" ELSE "all_failed")
      ELSE IF rcall[c].streaming /\ ~CanStream(todo[Min(fitting)])
      THEN EndCall(c, "cannot_stream")
      ELSE rcall' = [rcall EXCEPT ![c].at = "acquire", ![c].todo = SubSeq(todo, Min(fitting), Len(todo))]
  BY <1>1, <1>4, <1>5, Zenon DEF PickCandidate
<1>8. "over_budget" \in Results /\ "all_failed" \in Results /\ "cannot_stream" \in Results BY DEF Results
<1> QED BY <1>3, <1>6, <1>7, <1>8

\* A call that may be metered, or is refused.
LEMMA RouterReserve ==
  ASSUME RouterInv, NEW c \in ModelCalls, ReserveUsage(c)
  PROVE  RouterInv'
<1>1. PICK r \in CallRecord : r = rcall[c] BY CallBefore
<1>2. /\ ticket[c] \in Tickets /\ ticket = [ticket EXCEPT ![c] = ticket[c]] /\ CallOK(r, ticket[c])
      /\ r.at = "reserve" /\ ticket[c] # "held" /\ r.result # "meter_failed"
  <2>1. CallOK(rcall[c], ticket[c]) /\ ticket[c] \in Tickets /\ ticket = [ticket EXCEPT ![c] = ticket[c]] BY CallBefore
  <2>2. r.at = "reserve" BY <1>1 DEF ReserveUsage
  <2> QED BY <1>1, <2>1, <2>2 DEF CallOK
<1>3. CASE ticket' = [ticket EXCEPT ![c] = "held"] /\ rcall' = [rcall EXCEPT ![c].at = "sent"]
  <2>1. PICK v : v = [r EXCEPT !.at = "sent"] OBVIOUS
  <2>2. v \in CallRecord /\ v.at = "sent" /\ v.todo = r.todo /\ v.result = r.result BY <2>1 DEF CallRecord
  <2>3. rcall' = [rcall EXCEPT ![c] = v]
    <3>1. rcall \in [ModelCalls -> CallRecord] BY DEF RouterInv, RouterTypes
    <3> QED BY <1>1, <1>3, <2>1, <3>1
  <2>4. CallOK(v, "held") /\ "held" \in Tickets BY <1>2, <2>2 DEF CallOK, Tickets
  <2>5. CallsInv' /\ rcall' \in [ModelCalls -> CallRecord] /\ ticket' \in [ModelCalls -> Tickets]
    BY <1>3, <2>2, <2>3, <2>4, CallStep
  <2> QED BY <2>5, ProvidersSame DEF ReserveUsage
<1>4. CASE ticket' = ticket /\ EndCall(c, "refused")
  <2>1. rcall' = [rcall EXCEPT ![c] = Ended(r, "refused")] /\ "refused" \in Results BY <1>1, <1>4, EndCallIs DEF Results
  <2>2. Ended(r, "refused") \in CallRecord /\ CallOK(Ended(r, "refused"), ticket[c]) BY <1>2, <2>1, EndedOK
  <2>3. CallsInv' /\ rcall' \in [ModelCalls -> CallRecord] /\ ticket' \in [ModelCalls -> Tickets]
    BY <1>2, <1>4, <2>1, <2>2, CallStep
  <2> QED BY <2>3, ProvidersSame DEF ReserveUsage
<1> QED BY <1>3, <1>4 DEF ReserveUsage

\* A call that ends with its reservation closed: it is settled, released or cancelled; or, when the meter
\* fails to settle it, held.
LEMMA RouterEnd ==
  ASSUME RouterInv, NEW c \in ModelCalls, NEW result \in Results, NEW t \in Tickets, EndCall(c, result),
         ticket' = [ticket EXCEPT ![c] = t], t = "held" => result = "meter_failed",
         UNCHANGED <<health, stamps, clock, admitted>>
  PROVE  RouterInv'
<1>1. PICK r \in CallRecord : r = rcall[c] BY CallBefore
<1>2. rcall' = [rcall EXCEPT ![c] = Ended(r, result)] BY <1>1, EndCallIs
<1>3. Ended(r, result) \in CallRecord /\ CallOK(Ended(r, result), t) BY EndedOK
<1>4. CallsInv' /\ rcall' \in [ModelCalls -> CallRecord] /\ ticket' \in [ModelCalls -> Tickets]
  BY <1>2, <1>3, CallStep
<1> QED BY <1>4, ProvidersSame

\* What closes a reservation.
LEMMA RouterCloses ==
  ASSUME RouterInv, NEW c \in ModelCalls,
         SettleUsage(c) \/ Interrupted(c) \/ (\E whole \in BOOLEAN : StreamEnds(c, whole))
  PROVE  RouterInv'
<1>1. "settled" \in Tickets /\ "released" \in Tickets /\ "settled" # "held" /\ "released" # "held" BY DEF Tickets
<1>2. {"answered", "meter_failed", "cancelled", "stream_failed"} \subseteq Results BY DEF Results
<1>3. CASE SettleUsage(c)
  <2>1. ticket[c] \in Tickets /\ ticket = [ticket EXCEPT ![c] = ticket[c]] BY CallBefore
  <2>2. CASE ticket' = [ticket EXCEPT ![c] = "settled"] /\ EndCall(c, "answered")
    BY <1>1, <1>2, <1>3, <2>2, RouterEnd DEF SettleUsage
  <2>3. CASE MeterMayFail /\ EndCall(c, "meter_failed") /\ ticket' = ticket
    BY <1>1, <1>2, <1>3, <2>1, <2>3, RouterEnd DEF SettleUsage
  <2> QED BY <1>3, <2>2, <2>3 DEF SettleUsage
<1>4. CASE Interrupted(c)
  BY <1>1, <1>2, <1>4, RouterEnd DEF Interrupted, ReleaseUsage
<1>5. ASSUME NEW whole \in BOOLEAN, StreamEnds(c, whole) PROVE RouterInv'
  <2>1. CASE whole
    <3>1. ticket' = [ticket EXCEPT ![c] = "settled"] /\ EndCall(c, "answered") BY <1>5, <2>1 DEF StreamEnds
    <3> QED BY <1>1, <1>2, <1>5, <3>1, RouterEnd DEF StreamEnds
  <2>2. CASE ~whole
    <3>1. ticket' = [ticket EXCEPT ![c] = "released"] /\ EndCall(c, "stream_failed")
      BY <1>5, <2>2 DEF StreamEnds, ReleaseUsage
    <3> QED BY <1>1, <1>2, <1>5, <3>1, RouterEnd DEF StreamEnds
  <2> QED BY <2>1, <2>2
<1> QED BY <1>3, <1>4, <1>5

\* Moments that never fall; the last of them that a limiter keeps.
NeverFalls(S) == \A i, j \in 1..Len(S) : i <= j => S[i] <= S[j]
KeptOf(q, S, now) ==
    /\ q \in Seq(Nat) /\ Len(q) <= Len(S)
    /\ \A k \in 1..Len(q) : q[k] = S[Len(S) - Len(q) + k]
    /\ \A i \in 1..(Len(S) - Len(q)) : S[i] <= now - Window

\* What a limiter keeps (acquire): the moments in the window are the last ones, and those it lets go of
\* lie before the window.
LEMMA RecentIs ==
  ASSUME RouterTypes, NEW p \in Providers, NEW q, q = Recent(p), NEW S, S = stamps[p], NeverFalls(S)
  PROVE  KeptOf(q, S, clock)
<1> USE RouterAssumption
<1>1. S \in Seq(Nat) /\ clock \in Nat /\ Window \in Nat BY DEF RouterTypes
<1>2. PICK L : L = {i \in DOMAIN S : S[i] > clock - Window} OBVIOUS
<1>3. L = Live(p) BY <1>2 DEF Live
<1>4. L \in SUBSET (1..Len(S)) /\ DOMAIN S = 1..Len(S) /\ Len(S) \in Nat BY <1>1, <1>2
<1>5. \A i \in 1..Len(S) : S[i] \in Nat BY <1>1
<1>6. CASE L = {}
  <2>1. q = <<>> BY <1>3, <1>6 DEF Recent
  <2>2. Len(q) = 0 /\ q \in Seq(Nat) BY <2>1
  <2>3. \A i \in 1..Len(S) : S[i] <= clock - Window
    <3>1. \A i \in 1..Len(S) : ~(S[i] > clock - Window) BY <1>2, <1>4, <1>6
    <3> QED BY <1>1, <1>5, <3>1
  <2> QED BY <1>4, <2>2, <2>3 DEF KeptOf
<1>7. CASE L # {}
  <2>1. PICK m \in L : m = Min(L) /\ \A k \in L : m <= k
    <3>1. L \in SUBSET Nat BY <1>4
    <3> QED BY <1>7, <3>1, MinIs
  <2>2. m \in 1..Len(S) BY <1>4, <2>1
  <2>3. q = SubSeq(S, m, Len(S)) BY <1>3, <1>7, <2>1 DEF Recent
  <2>4. /\ q \in Seq(Nat) /\ Len(q) = Len(S) - m + 1
        /\ \A k \in 1..(Len(S) - m + 1) : q[k] = S[m + k - 1]
    <3>1. m \in Int /\ Len(S) \in Int /\ m <= Len(S) /\ \A k \in m..Len(S) : S[k] \in Nat
      BY <1>4, <1>5, <2>2
    <3> QED BY <2>3, <3>1, SubSeqProperties
  <2>5. \A k \in 1..Len(q) : q[k] = S[Len(S) - Len(q) + k]
    <3> SUFFICES ASSUME NEW k \in 1..Len(q) PROVE q[k] = S[Len(S) - Len(q) + k] OBVIOUS
    <3>1. k \in 1..(Len(S) - m + 1) /\ m + k - 1 = Len(S) - Len(q) + k BY <1>4, <2>2, <2>4
    <3>2. q[k] = S[m + k - 1] BY <2>4, <3>1
    <3> QED BY <3>1, <3>2
  <2>6. \A i \in 1..(Len(S) - Len(q)) : S[i] <= clock - Window
    <3> SUFFICES ASSUME NEW i \in 1..(Len(S) - Len(q)) PROVE S[i] <= clock - Window OBVIOUS
    <3>1. i \in 1..Len(S) /\ i < m BY <1>4, <2>2, <2>4
    <3>2. ~(m <= i) BY <2>2, <3>1
    <3>3. i \notin L BY <2>1, <3>2
    <3>4. ~(S[i] > clock - Window) BY <1>2, <1>4, <3>1, <3>3
    <3> QED BY <1>1, <1>5, <3>1, <3>4
  <2>7. Len(q) <= Len(S) BY <1>4, <2>2, <2>4
  <2> QED BY <2>4, <2>5, <2>6, <2>7 DEF KeptOf
<1> QED BY <1>6, <1>7

\* Letting one more request through, when the window has room for it, keeps the rate.
LEMMA RateKept ==
  ASSUME NEW S \in Seq(Nat), NEW A \in Seq(Nat), NEW q \in Seq(Nat), NEW now \in Nat, RateOK(S, A, now),
         KeptOf(q, S, now), Len(q) < Limit
  PROVE  RateOK(Append(q, now), Append(A, now), now)
<1> USE RouterAssumption
<1>1. PICK n \in Nat, s \in Nat, r \in Nat : n = Len(A) /\ s = Len(S) /\ r = Len(q) OBVIOUS
<1>2. r <= s /\ s <= n /\ r < Limit /\ Limit \in Nat /\ Window \in Nat BY <1>1 DEF RateOK, KeptOf
<1>3. PICK B, Q : B = Append(A, now) /\ Q = Append(q, now) OBVIOUS
<1>4. /\ Len(B) = n + 1 /\ Len(Q) = r + 1 /\ B[n + 1] = now /\ Q[r + 1] = now
      /\ \A i \in 1..n : B[i] = A[i]
      /\ \A k \in 1..r : Q[k] = q[k]
  BY <1>1, <1>3, AppendProperties
<1>5. /\ \A k \in 1..s : S[k] = A[n - s + k]
      /\ \A i \in 1..(n - s) : A[i] <= now - Window
      /\ \A i \in 1..n : A[i] <= now
      /\ \A i, j \in 1..n : i <= j => A[i] <= A[j]
      /\ \A i \in 1..n : i + Limit \in 1..n => A[i + Limit] - A[i] >= Window
  BY <1>1 DEF RateOK
<1>6. \A i \in 1..n : A[i] \in Nat BY <1>1
<1>7. ASSUME NEW k \in 1..(r + 1) PROVE Q[k] = B[(n + 1) - (r + 1) + k]
  <2>1. CASE k = r + 1 BY <1>2, <1>4, <2>1
  <2>2. CASE k # r + 1
    <3>0. k \in Nat /\ n \in Nat /\ s \in Nat /\ r \in Nat /\ k >= 1 /\ k <= r /\ r <= s /\ s <= n
      <4>1. r <= s /\ s <= n BY ONLY <1>2
      <4>2. k \in Nat /\ k >= 1 /\ k <= r BY ONLY <2>2, k \in 1..(r + 1), r \in Nat
      <4> QED BY ONLY <4>1, <4>2, n \in Nat, s \in Nat, r \in Nat
    <3>1. k \in 1..r /\ s - r + k \in 1..s /\ n - s + (s - r + k) = n - r + k /\ n - r + k \in 1..n BY ONLY <3>0
    <3>2. q[k] = S[s - r + k] BY <1>1, <3>1 DEF KeptOf
    <3>3. S[s - r + k] = A[n - r + k] BY <1>5, <3>1
    <3>4. (n + 1) - (r + 1) + k = n - r + k BY <3>1
    <3> QED BY <1>4, <3>1, <3>2, <3>3, <3>4
  <2> QED BY <2>1, <2>2
<1>8. ASSUME NEW i \in 1..(n - r) PROVE A[i] <= now - Window
  <2>1. CASE i <= n - s BY <1>2, <1>5, <2>1
  <2>2. CASE ~(i <= n - s)
    <3>1. i - (n - s) \in 1..(s - r) /\ i - (n - s) \in 1..s /\ n - s + (i - (n - s)) = i BY <1>2, <2>2
    <3>2. S[i - (n - s)] <= now - Window BY <1>1, <3>1 DEF KeptOf
    <3>3. S[i - (n - s)] = A[i] BY <1>5, <3>1
    <3> QED BY <3>2, <3>3
  <2> QED BY <2>1, <2>2
<1>9. ASSUME NEW i \in 1..((n + 1) - (r + 1)) PROVE B[i] <= now - Window
  <2>1. i \in 1..(n - r) /\ i \in 1..n BY <1>2
  <2> QED BY <1>4, <1>8, <2>1
<1>10. ASSUME NEW i \in 1..(n + 1) PROVE B[i] <= now /\ B[i] \in Nat
  <2>1. CASE i = n + 1 BY <1>4, <2>1
  <2>2. CASE i # n + 1
    <3>1. i \in 1..n BY <2>2
    <3> QED BY <1>4, <1>5, <1>6, <3>1
  <2> QED BY <2>1, <2>2
<1>11. ASSUME NEW i \in 1..(n + 1), NEW j \in 1..(n + 1), i <= j PROVE B[i] <= B[j]
  <2>1. CASE j = n + 1 BY <1>4, <1>10, <2>1
  <2>2. CASE j # n + 1
    <3>1. i \in 1..n /\ j \in 1..n BY <1>11, <2>2
    <3> QED BY <1>4, <1>5, <1>11, <3>1
  <2> QED BY <2>1, <2>2
<1>12. ASSUME NEW i \in 1..(n + 1), i + Limit \in 1..(n + 1) PROVE B[i + Limit] - B[i] >= Window
  <2>1. CASE i + Limit = n + 1
    <3>1. i \in 1..(n - r) /\ i \in 1..n BY <1>2, <1>12, <2>1
    <3>2. B[i] = A[i] /\ A[i] <= now - Window /\ B[i + Limit] = now /\ A[i] \in Nat BY <1>4, <1>6, <1>8, <2>1, <3>1
    <3> QED BY <1>2, <3>2
  <2>2. CASE i + Limit # n + 1
    <3>1. i \in 1..n /\ i + Limit \in 1..n BY <1>2, <1>12, <2>2
    <3>2. B[i + Limit] = A[i + Limit] /\ B[i] = A[i] BY <1>4, <3>1
    <3> QED BY <1>5, <3>1, <3>2
  <2> QED BY <2>1, <2>2
<1>13. Len(Q) <= Len(B) BY <1>2, <1>4
<1> QED BY <1>3, <1>4, <1>7, <1>9, <1>10, <1>11, <1>12, <1>13 DEF RateOK

\* The moments in a provider's window rise.
LEMMA StampsRise ==
  ASSUME NEW S \in Seq(Nat), NEW A \in Seq(Nat), NEW now, RateOK(S, A, now)
  PROVE  NeverFalls(S)
<1>1. PICK n \in Nat, s \in Nat : n = Len(A) /\ s = Len(S) OBVIOUS
<1>2. s <= n /\ (\A k \in 1..s : S[k] = A[n - s + k]) /\ \A i, j \in 1..n : i <= j => A[i] <= A[j]
  BY <1>1 DEF RateOK
<1>3. ASSUME NEW i \in 1..s, NEW j \in 1..s, i <= j PROVE S[i] <= S[j]
  <2>1. n - s + i \in 1..n /\ n - s + j \in 1..n /\ n - s + i <= n - s + j BY <1>2, <1>3
  <2> QED BY <1>2, <2>1
<1> QED BY <1>1, <1>3 DEF NeverFalls

\* A call that the limiter lets through.
LEMMA RouterAcquire ==
  ASSUME RouterInv, NEW c \in ModelCalls, Acquire(c)
  PROVE  RouterInv'
<1> USE RouterAssumption
<1>1. PICK r \in CallRecord : r = rcall[c] BY CallBefore
<1>2. /\ ticket[c] \in Tickets /\ ticket' = [ticket EXCEPT ![c] = ticket[c]] /\ CallOK(r, ticket[c])
      /\ r.at = "acquire" /\ ticket[c] # "held" /\ r.result # "meter_failed"
  <2>1. CallOK(rcall[c], ticket[c]) /\ ticket[c] \in Tickets /\ ticket = [ticket EXCEPT ![c] = ticket[c]] BY CallBefore
  <2>2. r.at = "acquire" /\ ticket' = ticket BY <1>1 DEF Acquire
  <2> QED BY <1>1, <2>1, <2>2 DEF CallOK
<1>3. PICK v : v = [r EXCEPT !.at = "reserve"] OBVIOUS
<1>4. v \in CallRecord /\ v.at = "reserve" /\ v.todo = r.todo /\ v.result = r.result BY <1>3 DEF CallRecord
<1>5. rcall' = [rcall EXCEPT ![c] = v]
  <2>1. rcall \in [ModelCalls -> CallRecord] BY DEF RouterInv, RouterTypes
  <2> QED BY <1>1, <1>3, <2>1 DEF Acquire
<1>6. CallOK(v, ticket[c]) BY <1>2, <1>4 DEF CallOK
<1>7. CallsInv' /\ rcall' \in [ModelCalls -> CallRecord] /\ ticket' \in [ModelCalls -> Tickets]
  BY <1>2, <1>4, <1>5, <1>6, CallStep
<1>8. PICK p \in Providers : p = Chosen(c)
  <2>1. AllAble(r.todo) /\ r.todo # <<>> BY <1>2 DEF CallOK
  <2>2. 1 \in DOMAIN r.todo BY <2>1 DEF AllAble
  <2>3. CanAnswer(r.todo[1]) BY <2>1, <2>2 DEF AllAble
  <2> QED BY <1>1, <2>3 DEF CanAnswer, Chosen
<1>9. PICK q : q = Recent(p) OBVIOUS
<1>10. /\ Len(q) < Limit /\ UNCHANGED <<health, clock>>
       /\ stamps' = [stamps EXCEPT ![p] = Append(q, clock)]
       /\ admitted' = [admitted EXCEPT ![p] = Append(admitted[p], clock)]
  BY <1>8, <1>9 DEF Acquire
<1>11. stamps \in [Providers -> Seq(Nat)] /\ admitted \in [Providers -> Seq(Nat)] /\ clock \in Nat
  BY DEF RouterInv, RouterTypes
<1>12. \A x \in Providers : RateOK(stamps[x], admitted[x], clock) BY DEF RouterInv, RatesInv
<1>13. PICK S \in Seq(Nat), A \in Seq(Nat) : S = stamps[p] /\ A = admitted[p] BY <1>11
<1>14. NeverFalls(S) BY <1>12, <1>13, StampsRise
<1>15. KeptOf(q, S, clock) /\ q \in Seq(Nat)
  <2>1. RouterTypes BY DEF RouterInv
  <2>2. KeptOf(q, S, clock) BY <1>9, <1>13, <1>14, <2>1, RecentIs
  <2> QED BY <2>2 DEF KeptOf
<1>16. RateOK(S, A, clock) BY <1>12, <1>13
<1>17. RateOK(Append(q, clock), Append(A, clock), clock) BY <1>10, <1>11, <1>13, <1>15, <1>16, RateKept
<1>18. Append(q, clock) \in Seq(Nat) /\ Append(A, clock) \in Seq(Nat) BY <1>11, <1>13, <1>15
<1>19. stamps' \in [Providers -> Seq(Nat)] /\ admitted' \in [Providers -> Seq(Nat)] BY <1>10, <1>11, <1>13, <1>18
<1>20. ASSUME NEW x \in Providers PROVE RateOK(stamps'[x], admitted'[x], clock')
  <2>1. CASE x = p
    <3>1. stamps'[x] = Append(q, clock) /\ admitted'[x] = Append(A, clock) /\ clock' = clock
      BY <1>10, <1>11, <1>13, <2>1
    <3> QED BY <1>17, <3>1
  <2>2. CASE x # p
    <3>1. stamps'[x] = stamps[x] /\ admitted'[x] = admitted[x] /\ clock' = clock BY <1>10, <1>11, <2>2
    <3> QED BY <1>12, <3>1
  <2> QED BY <2>1, <2>2
<1>21. RatesInv' BY <1>20 DEF RatesInv
<1>22. RouterTypes' BY <1>7, <1>10, <1>19 DEF RouterInv, RouterTypes
<1>23. CircuitFollowsFailures' BY <1>10 DEF RouterInv, CircuitFollowsFailures
<1> QED BY <1>7, <1>21, <1>22, <1>23 DEF RouterInv

\* What a provider is when it has answered, and when it has failed once more.
LEMMA HealthAfter ==
  ASSUME RouterInv, NEW p \in Providers, NEW h, health' = [health EXCEPT ![p] = h],
         \/ \E slow \in 0..1 : h = Recovered(health[p], slow)
         \/ h = Failed(health[p])
  PROVE  health' \in [Providers -> HealthRecord] /\ CircuitFollowsFailures'
<1> USE RouterAssumption
<1>1. health \in [Providers -> HealthRecord] /\ clock \in 0..MaxClock BY DEF RouterInv, RouterTypes
<1>2. \A x \in Providers : (health[x].opened = Unopened) = (health[x].fails < Threshold)
  BY DEF RouterInv, CircuitFollowsFailures
<1>3. PICK g \in HealthRecord : g = health[p] BY <1>1
<1>4. h \in HealthRecord /\ (h.opened = Unopened) = (h.fails < Threshold)
  <2>1. ASSUME NEW slow \in 0..1, h = Recovered(g, slow)
        PROVE  h \in HealthRecord /\ (h.opened = Unopened) = (h.fails < Threshold)
    BY <2>1 DEF Recovered, HealthRecord
  <2>2. ASSUME h = Failed(g) PROVE h \in HealthRecord /\ (h.opened = Unopened) = (h.fails < Threshold)
    <3>1. PICK n \in Nat, o \in {Unopened} \cup 0..MaxClock : n = g.fails /\ o = g.opened BY DEF HealthRecord
    <3>2. PICK w : w = IF n + 1 >= Threshold THEN clock ELSE o OBVIOUS
    <3>3. w \in {Unopened} \cup 0..MaxClock BY <1>1, <3>1, <3>2
    <3>4. h = [g EXCEPT !.fails = n + 1, !.opened = w]
      <4>1. h = [g EXCEPT !.fails = g.fails + 1, !.opened = IF g.fails + 1 >= Threshold THEN clock ELSE g.opened]
        BY ONLY <2>2 DEF Failed
      <4> QED BY ONLY <3>1, <3>2, <4>1
    <3>5. n + 1 \in Nat /\ g \in [fails : Nat, opened : {Unopened} \cup 0..MaxClock, slow : 0..1]
      BY <3>1 DEF HealthRecord
    <3>6. h \in HealthRecord /\ h.fails = n + 1 /\ h.opened = w BY <3>3, <3>4, <3>5, Zenon DEF HealthRecord
    <3>7. (o = Unopened) = (n < Threshold) BY <1>2, <1>3, <3>1
    <3>8. (w = Unopened) = (n + 1 < Threshold)
      <4>1. clock # Unopened BY <1>1 DEF Unopened
      <4>2. CASE n + 1 >= Threshold BY <3>1, <3>2, <4>1, <4>2
      <4>3. CASE ~(n + 1 >= Threshold) BY <3>1, <3>2, <3>7, <4>3
      <4> QED BY <4>2, <4>3
    <3> QED BY <3>6, <3>8
  <2> QED BY <1>3, <2>1, <2>2
<1>5. health' \in [Providers -> HealthRecord] BY <1>1, <1>4
<1>6. ASSUME NEW x \in Providers PROVE (health'[x].opened = Unopened) = (health'[x].fails < Threshold)
  <2>1. CASE x = p
    <3>1. health'[x] = h BY <1>1, <2>1
    <3> QED BY <1>4, <3>1
  <2>2. CASE x # p
    <3>1. health'[x] = health[x] BY <1>1, <2>2
    <3> QED BY <1>2, <3>1
  <2> QED BY <2>1, <2>2
<1> QED BY <1>5, <1>6 DEF CircuitFollowsFailures

\* The provider of a call that was sent is registered.
LEMMA ChosenIs ==
  ASSUME RouterInv, NEW c \in ModelCalls, Sent(c)
  PROVE  /\ Chosen(c) \in Providers /\ rcall[c].todo # <<>> /\ rcall[c].todo[1] \in Nat
         /\ AllAble(rcall[c].todo)
<1>1. CallOK(rcall[c], ticket[c]) BY CallBefore
<1>2. AllAble(rcall[c].todo) /\ rcall[c].todo # <<>> BY <1>1 DEF CallOK, Sent
<1>3. 1 \in DOMAIN rcall[c].todo /\ rcall[c].todo[1] \in Nat BY <1>2 DEF AllAble
<1>4. CanAnswer(rcall[c].todo[1]) BY <1>2, <1>3 DEF AllAble
<1>5. Chosen(c) \in Providers BY <1>4, RouterAssumption DEF CanAnswer, Chosen
<1> QED BY <1>2, <1>3, <1>5

\* A call that is answered; its usage is still to be settled.
LEMMA RouterAnswers ==
  ASSUME RouterInv, NEW c \in ModelCalls, NEW slow \in 0..1, Answers(c, slow)
  PROVE  RouterInv'
<1>1. PICK r \in CallRecord : r = rcall[c] BY CallBefore
<1>2. Sent(c) /\ r.at = "sent" BY <1>1 DEF Answers, Sent
<1>3. /\ ticket[c] \in Tickets /\ ticket' = [ticket EXCEPT ![c] = ticket[c]] /\ CallOK(r, ticket[c])
  <2>1. CallOK(rcall[c], ticket[c]) /\ ticket[c] \in Tickets /\ ticket = [ticket EXCEPT ![c] = ticket[c]] BY CallBefore
  <2> QED BY <1>1, <2>1 DEF Answers
<1>4. PICK v : v = [r EXCEPT !.at = "settle"] OBVIOUS
<1>5. v \in CallRecord /\ v.at = "settle" /\ v.todo = r.todo /\ v.result = r.result BY <1>4 DEF CallRecord
<1>6. rcall' = [rcall EXCEPT ![c] = v]
  <2>1. rcall \in [ModelCalls -> CallRecord] BY DEF RouterInv, RouterTypes
  <2> QED BY <1>1, <1>4, <2>1 DEF Answers
<1>7. CallOK(v, ticket[c]) BY <1>2, <1>3, <1>5 DEF CallOK
<1>8. CallsInv' /\ rcall' \in [ModelCalls -> CallRecord] /\ ticket' \in [ModelCalls -> Tickets]
  BY <1>3, <1>5, <1>6, <1>7, CallStep
<1>9. PICK p \in Providers : p = Chosen(c) BY <1>2, ChosenIs
<1>10. health' = [health EXCEPT ![p] = Recovered(health[p], slow)] BY <1>9 DEF Answers
<1>11. health' \in [Providers -> HealthRecord] /\ CircuitFollowsFailures' BY <1>10, HealthAfter
<1>12. UNCHANGED <<stamps, clock, admitted>> BY DEF Answers
<1>13. RouterTypes' BY <1>8, <1>11, <1>12 DEF RouterInv, RouterTypes
<1>14. RatesInv' BY <1>12 DEF RouterInv, RatesInv
<1> QED BY <1>8, <1>11, <1>13, <1>14 DEF RouterInv

\* A call whose provider refuses it: it ends, or goes on to the candidates that are left.
LEMMA RouterRefuses ==
  ASSUME RouterInv, NEW c \in ModelCalls, NEW kind \in {"invalid_request", "invalid_tool_call", "error"},
         Refuses(c, kind)
  PROVE  RouterInv'
<1>1. PICK r \in CallRecord : r = rcall[c] BY CallBefore
<1>2. Sent(c) /\ r.at = "sent" /\ ticket' = [ticket EXCEPT ![c] = "released"] /\ UNCHANGED <<stamps, clock, admitted>>
  BY <1>1 DEF Refuses, Sent, ReleaseUsage
<1>3. "released" \in Tickets /\ "released" # "held" /\ "invalid_request" \in Results BY DEF Tickets, Results
<1>4. CASE kind = "invalid_request"
  <2>1. EndCall(c, "invalid_request") /\ UNCHANGED health BY <1>4 DEF Refuses
  <2> QED BY <1>2, <1>3, <2>1, RouterEnd
<1>5. CASE kind # "invalid_request"
  <2>1. rcall' = [rcall EXCEPT ![c].at = "pick", ![c].todo = Tail(@), ![c].tried = Append(@, rcall[c].todo[1])]
    BY <1>5 DEF Refuses
  <2>2. PICK first \in Nat : first = r.todo[1] BY <1>1, <1>2, ChosenIs
  <2> DEFINE rest == Tail(r.todo)
  <2>3. PICK more : more = Append(r.tried, first) OBVIOUS
  <2>4. more \in Seq(Nat) BY <2>3 DEF CallRecord
  <2>5. AllAble(rest) /\ rest \in Seq(Nat)
    <3>1. AllAble(r.todo) /\ r.todo # <<>> BY <1>1, <1>2, ChosenIs
    <3>2. r.todo \in Seq(Nat) BY <3>1 DEF AllAble
    <3>3. /\ rest \in Seq(Nat) /\ DOMAIN rest = 1..(Len(r.todo) - 1)
          /\ \A k \in 1..(Len(r.todo) - 1) : rest[k] = r.todo[k + 1]
      BY <3>1, <3>2
    <3>4. ASSUME NEW k \in DOMAIN rest PROVE CanAnswer(rest[k])
      <4>1. k \in 1..(Len(r.todo) - 1) /\ k + 1 \in DOMAIN r.todo BY <3>2, <3>3
      <4> QED BY <3>1, <3>3, <4>1 DEF AllAble
    <3> QED BY <3>3, <3>4 DEF AllAble
  <2> HIDE DEF rest
  <2>6. PICK v : v = [r EXCEPT !.at = "pick", !.todo = rest, !.tried = more] OBVIOUS
  <2>7. v \in CallRecord /\ v.at = "pick" /\ v.todo = rest /\ v.result = r.result BY <2>4, <2>5, <2>6 DEF CallRecord
  <2>8. rcall' = [rcall EXCEPT ![c] = v]
    <3>1. rcall \in [ModelCalls -> CallRecord] BY DEF RouterInv, RouterTypes
    <3> QED BY <1>1, <2>1, <2>2, <2>3, <2>6, <3>1 DEF rest
  <2>9. CallOK(v, "released")
    <3>1. CallOK(r, ticket[c]) BY <1>1, CallBefore
    <3> QED BY <1>2, <2>5, <2>7, <3>1 DEF CallOK
  <2>10. CallsInv' /\ rcall' \in [ModelCalls -> CallRecord] /\ ticket' \in [ModelCalls -> Tickets]
    BY <1>2, <1>3, <2>7, <2>8, <2>9, CallStep
  <2>11. CASE kind = "invalid_tool_call"
    <3>1. UNCHANGED health BY <2>11 DEF Refuses
    <3> QED BY <1>2, <2>10, <3>1, ProvidersSame
  <2>12. CASE kind = "error"
    <3>1. PICK p \in Providers : p = Chosen(c) BY <1>2, ChosenIs
    <3>2. health' = [health EXCEPT ![p] = Failed(health[p])] BY <2>12, <3>1 DEF Refuses
    <3>3. health' \in [Providers -> HealthRecord] /\ CircuitFollowsFailures' BY <3>2, HealthAfter
    <3>4. RouterTypes' BY <1>2, <2>10, <3>3 DEF RouterInv, RouterTypes
    <3>5. RatesInv' BY <1>2 DEF RouterInv, RatesInv
    <3> QED BY <2>10, <3>3, <3>4, <3>5 DEF RouterInv
  <2> QED BY <1>5, <2>11, <2>12
<1> QED BY <1>4, <1>5

\* Time passes.
LEMMA RouterTick ==
  ASSUME RouterInv, Tick
  PROVE  RouterInv'
<1> USE RouterAssumption
<1>1. clock' = clock + 1 /\ UNCHANGED <<health, stamps, rcall, ticket, admitted>> /\ clock < MaxClock BY DEF Tick
<1>2. clock \in 0..MaxClock BY DEF RouterInv, RouterTypes
<1>3. clock' \in 0..MaxClock BY <1>1, <1>2
<1>4. RouterTypes' BY <1>1, <1>3 DEF RouterInv, RouterTypes
<1>5. CallsInv' BY <1>1 DEF RouterInv, CallsInv
<1>6. CircuitFollowsFailures' BY <1>1 DEF RouterInv, CircuitFollowsFailures
<1>7. ASSUME NEW p \in Providers PROVE RateOK(stamps'[p], admitted'[p], clock')
  <2>1. PICK S \in Seq(Nat), A \in Seq(Nat) : S = stamps[p] /\ A = admitted[p] BY DEF RouterInv, RouterTypes
  <2>2. RateOK(S, A, clock) BY <2>1 DEF RouterInv, RatesInv
  <2>3. PICK now \in Nat : now = clock BY <1>2
  <2>4. PICK n \in Nat, s \in Nat : n = Len(A) /\ s = Len(S) OBVIOUS
  <2>5. s <= n /\ \A i \in 1..n : A[i] \in Nat BY <2>2, <2>4 DEF RateOK
  <2>6. \A i \in 1..(n - s) : A[i] <= (now + 1) - Window
    <3>1. \A i \in 1..(n - s) : i \in 1..n /\ A[i] <= now - Window BY <2>2, <2>3, <2>4, <2>5 DEF RateOK
    <3> QED BY <2>5, <3>1
  <2>7. \A i \in 1..n : A[i] <= now + 1
    <3>1. \A i \in 1..n : A[i] <= now BY <2>2, <2>3, <2>4 DEF RateOK
    <3> QED BY <2>5, <3>1
  <2>8. RateOK(S, A, now + 1) BY <2>2, <2>3, <2>4, <2>6, <2>7 DEF RateOK
  <2> QED BY <1>1, <2>1, <2>3, <2>8
<1>8. RatesInv' BY <1>7 DEF RatesInv
<1> QED BY <1>4, <1>5, <1>6, <1>8 DEF RouterInv

\* Nothing was let through yet, and no call has begun.
LEMMA RouterBegins == RouterInit => RouterInv
<1> SUFFICES ASSUME RouterInit PROVE RouterInv OBVIOUS
<1> USE RouterAssumption
<1>1. <<>> \in Seq(Nat) /\ Len(<<>>) = 0 /\ AllAble(<<>>) BY DEF AllAble
<1>2. IdleCall \in CallRecord /\ IdleCall.at = "idle" /\ IdleCall.todo = <<>> /\ IdleCall.result = "none"
  BY <1>1 DEF IdleCall, CallRecord
<1>3. [fails |-> 0, opened |-> Unopened, slow |-> 0] \in HealthRecord BY DEF HealthRecord
<1>4. RouterTypes
  <2>1. rcall \in [ModelCalls -> CallRecord] BY <1>2 DEF RouterInit
  <2>2. ticket \in [ModelCalls -> Tickets] BY DEF RouterInit, Tickets
  <2>3. health \in [Providers -> HealthRecord] BY <1>3 DEF RouterInit
  <2>4. stamps \in [Providers -> Seq(Nat)] /\ admitted \in [Providers -> Seq(Nat)] /\ clock \in 0..MaxClock
    BY <1>1 DEF RouterInit
  <2> QED BY <2>1, <2>2, <2>3, <2>4 DEF RouterTypes
<1>5. CallsInv
  <2>1. CallOK(IdleCall, "none") BY <1>1, <1>2 DEF CallOK
  <2> QED BY <2>1 DEF CallsInv, RouterInit
<1>6. RatesInv
  <2>1. RateOK(<<>>, <<>>, 0) BY <1>1 DEF RateOK
  <2> QED BY <2>1 DEF RatesInv, RouterInit
<1>7. CircuitFollowsFailures BY DEF CircuitFollowsFailures, RouterInit
<1> QED BY <1>4, <1>5, <1>6, <1>7 DEF RouterInv

\* The router (generate, stream, candidates, acquire and the meter around a dispatch): calls that share
\* the providers keep their rates and circuits, reach only models that can answer them, and close what
\* they reserved, for every number of calls, providers and profiles, every limit, window and threshold.
THEOREM RouterIsSafe == RouterSpec => []RouterSafe
<1>1. RouterInit => RouterInv BY RouterBegins
<1>2. RouterInv /\ [RouterNext]_routerVars => RouterInv'
  <2> SUFFICES ASSUME RouterInv, [RouterNext]_routerVars PROVE RouterInv' OBVIOUS
  <2>1. CASE Tick BY <2>1, RouterTick
  <2>2. ASSUME NEW c \in ModelCalls, NEW big \in BOOLEAN, NEW streaming \in BOOLEAN, StartCall(c, big, streaming)
        PROVE  RouterInv'
    BY <2>2, RouterStart
  <2>3. ASSUME NEW c \in ModelCalls, PickCandidate(c) PROVE RouterInv' BY <2>3, RouterPick
  <2>4. ASSUME NEW c \in ModelCalls, Acquire(c) PROVE RouterInv' BY <2>4, RouterAcquire
  <2>5. ASSUME NEW c \in ModelCalls, ReserveUsage(c) PROVE RouterInv' BY <2>5, RouterReserve
  <2>6. ASSUME NEW c \in ModelCalls, NEW slow \in 0..1, Answers(c, slow) PROVE RouterInv' BY <2>6, RouterAnswers
  <2>7. ASSUME NEW c \in ModelCalls,
               SettleUsage(c) \/ Interrupted(c) \/ (\E whole \in BOOLEAN : StreamEnds(c, whole))
        PROVE  RouterInv'
    BY <2>7, RouterCloses
  <2>8. ASSUME NEW c \in ModelCalls, NEW kind \in {"invalid_request", "invalid_tool_call", "error"}, Refuses(c, kind)
        PROVE  RouterInv'
    BY <2>8, RouterRefuses
  <2>9. CASE UNCHANGED routerVars
    <3>1. UNCHANGED <<health, stamps, clock, rcall, ticket, admitted>> BY <2>9 DEF routerVars
    <3>2. CallsInv' BY <3>1 DEF RouterInv, CallsInv
    <3>3. RouterTypes' BY <3>1 DEF RouterInv, RouterTypes
    <3> QED BY <3>1, <3>2, <3>3, ProvidersSame DEF RouterTypes
  <2> QED BY <2>1, <2>2, <2>3, <2>4, <2>5, <2>6, <2>7, <2>8, <2>9 DEF RouterNext
<1>3. RouterInv => RouterSafe BY RouterInvSafe
<1> QED BY <1>1, <1>2, <1>3, PTL DEF RouterSpec

-----------------------------------------------------------------------------
(* ProviderWire.  First, pieces put together at the places they arrived.   *)

\* A number above all others comes last in their order.
LEMMA OrderedMore ==
  ASSUME NEW S \in SUBSET Nat, IsFiniteSet(S), NEW m \in Nat, \A x \in S : x < m
  PROVE  /\ Cardinality(S \cup {m}) = Cardinality(S) + 1 /\ Cardinality(S) \in Nat
         /\ \A k \in 1..Cardinality(S) : Ordered(S \cup {m})[k] = Ordered(S)[k] /\ Ordered(S)[k] \in S
         /\ Ordered(S \cup {m})[Cardinality(S) + 1] = m
         /\ DOMAIN Ordered(S \cup {m}) = 1..(Cardinality(S) + 1) /\ DOMAIN Ordered(S) = 1..Cardinality(S)
<1>1. PICK T : T = S \cup {m} OBVIOUS
<1>2. m \notin S /\ T \in SUBSET Nat BY <1>1
<1>3. IsFiniteSet(T) /\ Cardinality(T) = Cardinality(S) + 1 BY <1>1, <1>2, FS_AddElement
<1>4. PICK R, Q : R = {e \in S \X S : e[1] < e[2]} /\ Q = {e \in T \X T : e[1] < e[2]} OBVIOUS
<1>5. Ranking(S, R) /\ Ranking(T, Q) BY <1>2, <1>4, NumbersRank
<1>6. PICK n \in Nat : n = Cardinality(S) BY FS_CardinalityType
<1>7. PICK f, g : f = Ordered(S) /\ g = Ordered(T) OBVIOUS
<1>8. f = InOrder(S, R) /\ g = InOrder(T, Q) BY <1>4, <1>7 DEF Ordered
<1>9. /\ f \in [1..n -> S]
      /\ \A k \in 1..n : Cardinality(Ahead(S, R, f[k])) = k - 1
  BY <1>5, <1>6, <1>8, InOrderIs
<1>10. /\ g \in [1..(n + 1) -> T]
       /\ \A i \in T : g[Cardinality(Ahead(T, Q, i)) + 1] = i
  BY <1>3, <1>5, <1>6, <1>8, InOrderIs
<1>11. ASSUME NEW i \in S PROVE Ahead(T, Q, i) = Ahead(S, R, i)
  <2>1. \A j \in T : <<j, i>> \in Q <=> j \in S /\ <<j, i>> \in R BY <1>1, <1>2, <1>4
  <2> QED BY <1>1, <2>1 DEF Ahead
<1>12. Ahead(T, Q, m) = S
  <2>1. \A j \in T : <<j, m>> \in Q <=> j \in S BY <1>1, <1>2, <1>4
  <2> QED BY <1>1, <2>1 DEF Ahead
<1>13. ASSUME NEW k \in 1..n PROVE g[k] = f[k] /\ f[k] \in S
  <2>1. f[k] \in S /\ Cardinality(Ahead(S, R, f[k])) = k - 1 BY <1>9
  <2>2. f[k] \in T /\ Cardinality(Ahead(T, Q, f[k])) = k - 1 BY <1>1, <1>11, <2>1
  <2>3. (k - 1) + 1 = k OBVIOUS
  <2> QED BY <1>10, <2>1, <2>2, <2>3
<1>14. g[n + 1] = m
  <2>1. m \in T /\ Cardinality(Ahead(T, Q, m)) = n BY <1>1, <1>6, <1>12
  <2> QED BY <1>10, <2>1
<1> QED BY <1>1, <1>3, <1>6, <1>7, <1>9, <1>10, <1>13, <1>14

\* Places of a sequence.
LEMMA PlacesFinite ==
  ASSUME NEW n \in Nat, NEW S \in SUBSET (1..n)
  PROVE  IsFiniteSet(S) /\ S \in SUBSET Nat
<1>1. IsFiniteSet(1..n) BY FS_Interval
<1>2. IsFiniteSet(S) BY <1>1, FS_Subset
<1>3. S \in SUBSET Nat OBVIOUS
<1> QED BY <1>2, <1>3

\* What stands at the places of a sequence does not change when it grows.
LEMMA PiecesStay ==
  ASSUME NEW q, NEW r, NEW n \in Nat, NEW S \in SUBSET (1..n), \A k \in 1..n : r[k] = q[k]
  PROVE  PiecesAt(r, S) = PiecesAt(q, S)
<1>1. IsFiniteSet(S) /\ S \in SUBSET Nat BY PlacesFinite
<1>2. PICK at : at = Ordered(S) OBVIOUS
<1>3. PICK c \in Nat : at \in [1..c -> S] BY <1>1, <1>2, OrderedNumbers
<1>4. \A k \in DOMAIN at : r[at[k]] = q[at[k]] BY <1>3
<1>5. [k \in DOMAIN at |-> r[at[k]].piece] = [k \in DOMAIN at |-> q[at[k]].piece] BY <1>4
<1> QED BY <1>2, <1>5 DEF PiecesAt

\* One more place adds the piece that stands there at the end.
LEMMA PiecesMore ==
  ASSUME NEW q, NEW r, NEW n \in Nat, NEW S \in SUBSET (1..n), \A k \in 1..n : r[k] = q[k]
  PROVE  PiecesAt(r, S \cup {n + 1}) = Append(PiecesAt(q, S), r[n + 1].piece)
<1>1. IsFiniteSet(S) /\ S \in SUBSET Nat BY PlacesFinite
<1>2. n + 1 \in Nat /\ \A x \in S : x < n + 1 OBVIOUS
<1>3. PICK c \in Nat : c = Cardinality(S) BY <1>1, FS_CardinalityType
<1>4. PICK f, g : f = Ordered(S) /\ g = Ordered(S \cup {n + 1}) OBVIOUS
<1>5. /\ DOMAIN f = 1..c /\ DOMAIN g = 1..(c + 1) /\ g[c + 1] = n + 1
      /\ \A k \in 1..c : g[k] = f[k] /\ f[k] \in S
  BY <1>1, <1>2, <1>3, <1>4, OrderedMore
<1>6. PICK u : u = [k \in 1..c |-> q[f[k]].piece] OBVIOUS
<1>7. PiecesAt(q, S) = u BY <1>4, <1>5, <1>6 DEF PiecesAt
<1>8. PICK w : w = [k \in 1..(c + 1) |-> r[g[k]].piece] OBVIOUS
<1>9. PiecesAt(r, S \cup {n + 1}) = w BY <1>4, <1>5, <1>8 DEF PiecesAt
<1>10. PICK e : e = r[n + 1].piece OBVIOUS
<1>11. PICK X : X = {u[k] : k \in 1..c} \cup {e} OBVIOUS
<1>12. u \in Seq(X) /\ Len(u) = c /\ e \in X
  <2>1. u \in [1..c -> X] BY <1>6, <1>11
  <2> QED BY <1>11, <2>1
<1>13. /\ Append(u, e) \in Seq(X) /\ Len(Append(u, e)) = c + 1 /\ Append(u, e)[c + 1] = e
       /\ \A k \in 1..c : Append(u, e)[k] = u[k]
  BY <1>12, AppendProperties
<1>14. w[c + 1] = e BY <1>5, <1>8, <1>10
<1>15. ASSUME NEW k \in 1..c PROVE w[k] = u[k]
  <2>1. f[k] \in 1..n /\ g[k] = f[k] BY <1>5
  <2>2. r[f[k]] = q[f[k]] BY <2>1
  <2>3. w[k] = r[g[k]].piece BY <1>8
  <2> QED BY <1>6, <2>1, <2>2, <2>3
<1>16. w = Append(u, e)
  <2>1. PICK a : a = Append(u, e) OBVIOUS
  <2>2. a \in [1..(c + 1) -> X]
    <3>1. a \in Seq(X) /\ Len(a) = c + 1 BY <1>13, <2>1
    <3> QED BY ONLY <3>1
  <2>3. ASSUME NEW k \in 1..(c + 1) PROVE w[k] = a[k]
    <3>1. k \in 1..c \/ k = c + 1 OBVIOUS
    <3> QED BY <1>13, <1>14, <1>15, <2>1, <3>1
  <2>4. DOMAIN w = 1..(c + 1) /\ w = [k \in 1..(c + 1) |-> w[k]] BY <1>8
  <2> QED BY <2>1, <2>2, <2>3, <2>4
<1> QED BY <1>7, <1>9, <1>10, <1>16

\* No places, no pieces.
LEMMA PiecesNone ==
  ASSUME NEW q
  PROVE  PiecesAt(q, {}) = <<>>
<1>1. IsFiniteSet({}) /\ Cardinality({}) = 0 BY FS_EmptySet
<1>2. PICK at : at = Ordered({}) OBVIOUS
<1>3. at \in [1..0 -> {}] BY <1>1, <1>2, OrderedNumbers
<1>4. DOMAIN at = {} BY <1>3
<1>5. [k \in DOMAIN at |-> q[at[k]].piece] = <<>> BY <1>4
<1> QED BY <1>2, <1>5 DEF PiecesAt

-----------------------------------------------------------------------------
(* The names of tools.                                                     *)

\* Every name that was sent has its alias in both tables, and every alias is one of those of the tool it
\* stands for.
AliasInv ==
    /\ \A n \in DOMAIN wireOf : n \in WireNames /\ wireOf[n] \in DOMAIN runtimeOf /\ runtimeOf[wireOf[n]] = n
    /\ \A a \in DOMAIN runtimeOf : a \in {Plain(runtimeOf[a]), Plain(Readable[runtimeOf[a]]), Hashed(runtimeOf[a])}

\* The alias of a tool is free, or the tool's own.
LEMMA AliasFree ==
  ASSUME AliasInv, NEW name \in WireNames
  PROVE  Taken(Alias(name)) => runtimeOf[Alias(name)] = name
<1> SUFFICES ASSUME Taken(Alias(name)) PROVE runtimeOf[Alias(name)] = name OBVIOUS
<1>1. CASE Alias(name) = Plain(name) /\ (Taken(Plain(name)) => runtimeOf[Plain(name)] = name) BY <1>1
<1>2. CASE Alias(name) = Plain(Readable[name]) /\ ~Taken(Plain(Readable[name])) BY <1>2
<1>3. CASE Alias(name) = Hashed(name)
  <2>1. PICK n : n = runtimeOf[Hashed(name)] OBVIOUS
  <2>2. Hashed(name) \in {Plain(n), Plain(Readable[n]), Hashed(n)} BY <1>3, <2>1 DEF AliasInv, Taken
  <2>3. name # NoHash BY WireAssumption
  <2>4. Hashed(name) # Plain(n) /\ Hashed(name) # Plain(Readable[n]) BY <2>3 DEF Hashed, Plain
  <2>5. Hashed(name) = Hashed(n) BY <2>2, <2>4
  <2>6. n = name BY <2>5 DEF Hashed
  <2> QED BY <1>3, <2>1, <2>6
<1> QED BY <1>1, <1>2, <1>3 DEF Alias

\* Every tool that was sent comes back, and every other can be sent.
LEMMA AliasesCome == AliasInv => AliasesInvert
<1> SUFFICES ASSUME AliasInv PROVE AliasesInvert OBVIOUS
<1>1. \A name \in WireNames : ~Collides(name) BY AliasFree DEF Collides
<1>2. ASSUME NEW name \in DOMAIN wireOf PROVE RuntimeName(wireOf[name]) = name
  <2>1. wireOf[name] \in DOMAIN runtimeOf /\ runtimeOf[wireOf[name]] = name BY DEF AliasInv
  <2> QED BY <2>1 DEF RuntimeName, Taken
<1> QED BY <1>1, <1>2 DEF AliasesInvert

\* A tool that is sent for the first time.
LEMMA AliasSent ==
  ASSUME AliasInv, NEW name \in WireNames, SendTool(name)
  PROVE  AliasInv'
<1>1. PICK a : a = Alias(name) OBVIOUS
<1>2. /\ name \notin DOMAIN wireOf
      /\ wireOf' = [n \in DOMAIN wireOf \cup {name} |-> IF n = name THEN a ELSE wireOf[n]]
      /\ runtimeOf' = [b \in DOMAIN runtimeOf \cup {a} |-> IF b = a THEN name ELSE runtimeOf[b]]
  BY <1>1 DEF SendTool
<1>3. /\ \A n \in DOMAIN wireOf : n \in WireNames /\ wireOf[n] \in DOMAIN runtimeOf /\ runtimeOf[wireOf[n]] = n
      /\ \A b \in DOMAIN runtimeOf :
           b \in {Plain(runtimeOf[b]), Plain(Readable[runtimeOf[b]]), Hashed(runtimeOf[b])}
  BY DEF AliasInv
<1>4. a \in DOMAIN runtimeOf => runtimeOf[a] = name BY <1>1, AliasFree DEF Taken
<1>5. a \in {Plain(name), Plain(Readable[name]), Hashed(name)} BY <1>1 DEF Alias
<1>6. ASSUME NEW n \in DOMAIN wireOf'
      PROVE  n \in WireNames /\ wireOf'[n] \in DOMAIN runtimeOf' /\ runtimeOf'[wireOf'[n]] = n
  <2>1. CASE n = name
    <3>1. wireOf'[n] = a /\ a \in DOMAIN runtimeOf' /\ runtimeOf'[a] = name BY <1>2, <2>1
    <3> QED BY <2>1, <3>1
  <2>2. CASE n # name
    <3>1. n \in DOMAIN wireOf /\ wireOf'[n] = wireOf[n] BY <1>2, <2>2
    <3>2. n \in WireNames /\ wireOf[n] \in DOMAIN runtimeOf /\ runtimeOf[wireOf[n]] = n BY <1>3, <3>1
    <3>3. wireOf[n] # a BY <1>4, <2>2, <3>2
    <3>4. wireOf[n] \in DOMAIN runtimeOf' /\ runtimeOf'[wireOf[n]] = runtimeOf[wireOf[n]] BY <1>2, <3>2, <3>3
    <3> QED BY <3>1, <3>2, <3>4
  <2> QED BY <2>1, <2>2
<1>7. ASSUME NEW b \in DOMAIN runtimeOf'
      PROVE  b \in {Plain(runtimeOf'[b]), Plain(Readable[runtimeOf'[b]]), Hashed(runtimeOf'[b])}
  <2>1. CASE b = a
    <3>1. runtimeOf'[b] = name BY <1>2, <2>1
    <3> QED BY <1>5, <2>1, <3>1
  <2>2. CASE b # a
    <3>1. b \in DOMAIN runtimeOf /\ runtimeOf'[b] = runtimeOf[b] BY <1>2, <2>2
    <3> QED BY <1>3, <3>1
  <2> QED BY <2>1, <2>2
<1> QED BY <1>6, <1>7 DEF AliasInv, Plain, Hashed

-----------------------------------------------------------------------------
(* A streamed reply.                                                       *)

\* What the client has put together is what the server has said so far.
Parts(q, text, parts, finish, usage) ==
    /\ text = PiecesAt(q, KindAt(q, "text"))
    /\ DOMAIN parts = {i \in Indexes : CallAt(q, i) # {}}
    /\ \A i \in DOMAIN parts : parts[i] = PiecesAt(q, CallAt(q, i))
    /\ finish = IF KindAt(q, "finish") = {} THEN "stop" ELSE q[Max(KindAt(q, "finish"))].reason
    /\ usage = IF KindAt(q, "usage") # {} THEN 1 ELSE 0
Assembled(g, q) ==
    /\ g = [text |-> g.text, parts |-> g.parts, finish |-> g.finish, usage |-> g.usage]
    /\ Parts(q, g.text, g.parts, g.finish, g.usage)

\* So the reply it reports is the reply as a whole.
LEMMA AssembledIsReply ==
  ASSUME NEW g, NEW q, Assembled(g, q)
  PROVE  Response(g) = WholeReply(q)
<1>1. PICK D : D = {i \in Indexes : CallAt(q, i) # {}} OBVIOUS
<1>2. D \in SUBSET Nat /\ IsFiniteSet(D) /\ DOMAIN g.parts = D
  <2>1. D \in SUBSET Indexes BY <1>1
  <2> QED BY <1>1, <2>1, WireAssumption, FS_Subset DEF Assembled, Parts
<1>3. PICK order : order = Ordered(D) OBVIOUS
<1>4. PICK n \in Nat : n = Cardinality(D) BY <1>2, FS_CardinalityType
<1>5. order \in [1..n -> D] /\ \A x \in D : \E i \in 1..n : order[i] = x BY <1>2, <1>3, <1>4, OrderedNumbers
<1>6. \A k \in DOMAIN order : g.parts[order[k]] = PiecesAt(q, CallAt(q, order[k])) BY <1>2, <1>5 DEF Assembled, Parts
<1>7. PICK calls : calls = [k \in DOMAIN order |-> PiecesAt(q, CallAt(q, order[k]))] OBVIOUS
<1>8. CallsOf(g) = calls
  <2>1. [k \in DOMAIN order |-> g.parts[order[k]]] = calls BY <1>6, <1>7
  <2> QED BY <1>2, <1>3, <2>1 DEF CallsOf
<1>9. order = <<>> <=> D = {}
  <2>1. CASE D = {}
    <3>1. DOMAIN order = {} BY <1>5, <2>1, FS_EmptySet
    <3>2. order = [k \in {} |-> order[k]] BY <1>5, <3>1
    <3> QED BY <2>1, <3>2
  <2>2. CASE D # {}
    <3>1. PICK i \in 1..n : TRUE BY <1>5, <2>2
    <3>2. DOMAIN order # {} BY <1>5, <3>1
    <3> QED BY <2>2, <3>2
  <2> QED BY <2>1, <2>2
<1>10. PICK text, usage, stop :
         /\ text = PiecesAt(q, KindAt(q, "text"))
         /\ usage = IF KindAt(q, "usage") # {} THEN 1 ELSE 0
         /\ stop = IF KindAt(q, "finish") = {} THEN "stop" ELSE q[Max(KindAt(q, "finish"))].reason
  OBVIOUS
<1>11. g.text = text /\ g.usage = usage /\ g.finish = stop BY <1>10 DEF Assembled, Parts
<1>12. PICK finish : finish = IF D # {} THEN "tool_calls" ELSE stop OBVIOUS
<1>13. Response(g) = [text |-> text, calls |-> calls, usage |-> usage, finish |-> finish]
  BY <1>2, <1>8, <1>11, <1>12 DEF Response
<1>14. WholeReply(q) = [text |-> text, calls |-> calls, usage |-> usage, finish |-> finish]
  <2>1. WholeReply(q) = [text |-> text, calls |-> calls, usage |-> usage,
                         finish |-> IF order # <<>> THEN "tool_calls" ELSE stop]
    BY <1>1, <1>3, <1>7, <1>10, Zenon DEF WholeReply
  <2> QED BY <1>9, <1>12, <2>1
<1> QED BY <1>13, <1>14

\* The places of a kind of chunk, when one more arrives.
Joins(q, chunk, r, n) ==
    /\ DOMAIN q = 1..n /\ DOMAIN r = 1..(n + 1) /\ r[n + 1] = chunk /\ \A k \in 1..n : r[k] = q[k]
    /\ \A kind : /\ KindAt(q, kind) \in SUBSET (1..n)
                 /\ KindAt(r, kind) = IF chunk.kind = kind THEN KindAt(q, kind) \cup {n + 1} ELSE KindAt(q, kind)
    /\ \A i : /\ CallAt(q, i) \in SUBSET (1..n)
              /\ CallAt(r, i) = IF chunk.kind = "call" /\ chunk.index = i THEN CallAt(q, i) \cup {n + 1}
                                ELSE CallAt(q, i)
\* They are one more place of its kind, and of its call when it is of one.
LEMMA KindMore ==
  ASSUME NEW q \in Seq(Chunks), NEW chunk \in Chunks, NEW r, r = Append(q, chunk), NEW n \in Nat, n = Len(q)
  PROVE  Joins(q, chunk, r, n)
<1>1. DOMAIN q = 1..n /\ DOMAIN r = 1..(n + 1) /\ r[n + 1] = chunk /\ \A k \in 1..n : r[k] = q[k]
  BY AppendProperties
<1>2. ASSUME NEW kind
      PROVE  /\ KindAt(q, kind) \in SUBSET (1..n)
             /\ KindAt(r, kind) = IF chunk.kind = kind THEN KindAt(q, kind) \cup {n + 1} ELSE KindAt(q, kind)
  <2>1. KindAt(q, kind) = {k \in 1..n : q[k].kind = kind} BY <1>1 DEF KindAt
  <2>2. KindAt(r, kind) = {k \in 1..(n + 1) : r[k].kind = kind} BY <1>1 DEF KindAt
  <2>3. \A k \in 1..(n + 1) : k \in 1..n \/ k = n + 1 OBVIOUS
  <2>4. \A k \in 1..n : k \in 1..(n + 1) /\ k # n + 1 OBVIOUS
  <2>5. n + 1 \in 1..(n + 1) OBVIOUS
  <2>6. CASE chunk.kind = kind BY <1>1, <2>1, <2>2, <2>3, <2>4, <2>5, <2>6
  <2>7. CASE chunk.kind # kind BY <1>1, <2>1, <2>2, <2>3, <2>4, <2>5, <2>7
  <2> QED BY <2>1, <2>6, <2>7
<1>3. ASSUME NEW i
      PROVE  /\ CallAt(q, i) \in SUBSET (1..n)
             /\ CallAt(r, i) = IF chunk.kind = "call" /\ chunk.index = i THEN CallAt(q, i) \cup {n + 1} ELSE CallAt(q, i)
  <2>1. PICK K : K = KindAt(q, "call") OBVIOUS
  <2>2. PICK J : J = KindAt(r, "call") OBVIOUS
  <2>3. K \in SUBSET (1..n) /\ J = IF chunk.kind = "call" THEN K \cup {n + 1} ELSE K BY <1>2, <2>1, <2>2
  <2>4. CallAt(q, i) = {k \in K : q[k].index = i} /\ CallAt(r, i) = {k \in J : r[k].index = i}
    BY <2>1, <2>2 DEF CallAt
  <2>5. \A k \in K : r[k] = q[k] BY <1>1, <2>3
  <2>6. CASE chunk.kind = "call" /\ chunk.index = i BY <1>1, <2>3, <2>4, <2>5, <2>6
  <2>7. CASE ~(chunk.kind = "call" /\ chunk.index = i)
    <3>1. \A k \in J : k \in K \/ (k = n + 1 /\ chunk.kind = "call") BY <2>3
    <3>2. \A k \in J : r[k].index = i => k \in K BY <1>1, <2>7, <3>1
    <3>3. K \subseteq J BY <2>3
    <3>4. CallAt(r, i) = CallAt(q, i) BY <2>4, <2>5, <3>2, <3>3
    <3> QED BY <2>3, <2>4, <2>7, <3>4
  <2> QED BY <2>3, <2>4, <2>6, <2>7
<1> QED BY <1>1, <1>2, <1>3 DEF Joins

\* The greatest of a set that a number above all others joins.
LEMMA MaxJoins ==
  ASSUME NEW S \in SUBSET Nat, NEW m \in Nat, \A x \in S : x < m
  PROVE  Max(S \cup {m}) = m
<1>1. m \in S \cup {m} /\ \A y \in S \cup {m} : m >= y OBVIOUS
<1>2. ASSUME NEW x \in S \cup {m}, \A y \in S \cup {m} : x >= y PROVE x = m
  <2>1. x >= m BY <1>2
  <2> QED BY <2>1
<1> QED BY <1>1, <1>2 DEF Max

\* The greatest of the places of a sequence is one of them.
LEMMA MaxIs ==
  ASSUME NEW n \in Nat, NEW F \in SUBSET (1..n), F # {}
  PROVE  Max(F) \in F /\ \A k \in F : k <= Max(F)
<1>1. PICK T : T = {k \in 0..n : n - k \in F} OBVIOUS
<1>2. T \in SUBSET Nat BY <1>1
<1>3. T # {}
  <2>1. PICK k \in F : TRUE OBVIOUS
  <2>2. n - k \in 0..n /\ n - (n - k) = k OBVIOUS
  <2> QED BY <1>1, <2>1, <2>2
<1>4. PICK m \in T : \A k \in T : m <= k BY <1>2, <1>3, LeastNatural
<1>5. n - m \in F /\ m \in 0..n BY <1>1, <1>4
<1>6. ASSUME NEW k \in F PROVE n - m >= k /\ k <= n - m
  <2>1. n - k \in 0..n /\ n - (n - k) = k OBVIOUS
  <2>2. m <= n - k BY <1>1, <1>4, <2>1
  <2> QED BY <1>5, <2>2
<1>7. \E x \in F : \A y \in F : x >= y BY <1>5, <1>6
<1>8. Max(F) \in F /\ \A y \in F : Max(F) >= y BY <1>7 DEF Max
<1> QED BY <1>8

\* One more chunk (stream) keeps what the client has put together equal to what was said.
LEMMA ChunkTaken ==
  ASSUME NEW q \in Seq(Chunks), NEW g, Assembled(g, q), NEW chunk \in Chunks
  PROVE  Assembled(Take(g, chunk), Append(q, chunk))
<1>1. PICK r : r = Append(q, chunk) OBVIOUS
<1>2. PICK n \in Nat : n = Len(q) OBVIOUS
<1>3. Joins(q, chunk, r, n) BY <1>1, <1>2, KindMore
<1>4. PICK h : h = Take(g, chunk) OBVIOUS
<1>5. PICK text, parts, finish, usage :
        g = [text |-> text, parts |-> parts, finish |-> finish, usage |-> usage]
  BY DEF Assembled
<1>6. g.text = text /\ g.parts = parts /\ g.finish = finish /\ g.usage = usage BY <1>5
<1>7. Parts(q, text, parts, finish, usage) BY <1>6 DEF Assembled
<1>8. ASSUME NEW kind, chunk.kind # kind PROVE PiecesAt(r, KindAt(r, kind)) = PiecesAt(q, KindAt(q, kind))
  <2>1. PICK S : S = KindAt(q, kind) OBVIOUS
  <2>2. S \in SUBSET (1..n) /\ KindAt(r, kind) = S /\ \A k \in 1..n : r[k] = q[k] BY <1>3, <1>8, <2>1 DEF Joins
  <2> QED BY <2>1, <2>2, PiecesStay
<1>9. ASSUME NEW i, ~(chunk.kind = "call" /\ chunk.index = i)
      PROVE  PiecesAt(r, CallAt(r, i)) = PiecesAt(q, CallAt(q, i))
  <2>1. PICK S : S = CallAt(q, i) OBVIOUS
  <2>2. S \in SUBSET (1..n) /\ CallAt(r, i) = S /\ \A k \in 1..n : r[k] = q[k] BY <1>3, <1>9, <2>1 DEF Joins
  <2> QED BY <2>1, <2>2, PiecesStay
<1>10. chunk.kind # "finish" =>
         (IF KindAt(r, "finish") = {} THEN "stop" ELSE r[Max(KindAt(r, "finish"))].reason) = finish
  <2> SUFFICES ASSUME chunk.kind # "finish"
               PROVE  (IF KindAt(r, "finish") = {} THEN "stop" ELSE r[Max(KindAt(r, "finish"))].reason) = finish
    OBVIOUS
  <2>1. PICK F : F = KindAt(q, "finish") OBVIOUS
  <2>2. KindAt(r, "finish") = F /\ F \in SUBSET (1..n) BY <1>3, <2>1 DEF Joins
  <2>3. CASE F = {} BY <1>7, <2>1, <2>2, <2>3 DEF Parts
  <2>4. CASE F # {}
    <3>1. Max(F) \in 1..n BY <2>2, <2>4, MaxIs
    <3>2. r[Max(F)] = q[Max(F)] BY <1>3, <3>1 DEF Joins
    <3> QED BY <1>7, <2>1, <2>2, <2>4, <3>2 DEF Parts
  <2> QED BY <2>3, <2>4
<1>11. chunk.kind # "usage" => (IF KindAt(r, "usage") # {} THEN 1 ELSE 0) = usage BY <1>3, <1>7 DEF Joins, Parts
<1>12. chunk.kind # "call" => \A i : CallAt(r, i) = CallAt(q, i) BY <1>3 DEF Joins
<1>13. chunk.kind # "call" =>
         /\ DOMAIN parts = {i \in Indexes : CallAt(r, i) # {}}
         /\ \A i \in DOMAIN parts : parts[i] = PiecesAt(r, CallAt(r, i))
  BY <1>7, <1>9, <1>12 DEF Parts
<1>14. chunk.kind # "text" => text = PiecesAt(r, KindAt(r, "text")) BY <1>7, <1>8 DEF Parts
<1>15. ASSUME NEW u, NEW p, NEW f, NEW w, h = [text |-> u, parts |-> p, finish |-> f, usage |-> w],
              Parts(r, u, p, f, w)
       PROVE  Assembled(Take(g, chunk), Append(q, chunk))
  <2>1. h.text = u /\ h.parts = p /\ h.finish = f /\ h.usage = w BY <1>15
  <2>2. Assembled(h, r) BY <1>15, <2>1 DEF Assembled
  <2> QED BY <1>1, <1>4, <2>2
<1>16. CASE chunk.kind = "text"
  <2>1. PICK u : u = Append(text, chunk.piece) OBVIOUS
  <2>2. h = [text |-> u, parts |-> parts, finish |-> finish, usage |-> usage] BY <1>4, <1>5, <1>16, <2>1 DEF Take
  <2>3. PICK S \in SUBSET (1..n) : S = KindAt(q, "text") BY <1>3 DEF Joins
  <2>4. KindAt(r, "text") = S \cup {n + 1} BY <1>3, <1>16, <2>3 DEF Joins
  <2>5. PiecesAt(r, S \cup {n + 1}) = Append(PiecesAt(q, S), r[n + 1].piece) BY <1>3, PiecesMore DEF Joins
  <2>6. u = PiecesAt(r, KindAt(r, "text")) BY <1>3, <1>7, <2>1, <2>3, <2>4, <2>5 DEF Joins, Parts
  <2>7. Parts(r, u, parts, finish, usage) BY <1>10, <1>11, <1>13, <1>16, <2>6 DEF Parts
  <2> QED BY <1>15, <2>2, <2>7
<1>17. CASE chunk.kind = "call"
  <2>1. PICK x \in Indexes : x = chunk.index BY <1>17 DEF Chunks
  <2>2. PICK p : p = [i \in DOMAIN parts \cup {x} |->
                       IF i # x THEN parts[i]
                       ELSE IF i \in DOMAIN parts THEN Append(parts[i], chunk.piece) ELSE <<chunk.piece>>]
    OBVIOUS
  <2>3. h = [text |-> text, parts |-> p, finish |-> finish, usage |-> usage]
    BY <1>4, <1>5, <1>17, <2>1, <2>2 DEF Take
  <2>4. PICK S \in SUBSET (1..n) : S = CallAt(q, x) BY <1>3 DEF Joins
  <2>5. CallAt(r, x) = S \cup {n + 1} BY <1>3, <1>17, <2>1, <2>4 DEF Joins
  <2>6. PiecesAt(r, CallAt(r, x)) = Append(PiecesAt(q, S), chunk.piece)
    <3>1. PiecesAt(r, S \cup {n + 1}) = Append(PiecesAt(q, S), r[n + 1].piece) BY <1>3, PiecesMore DEF Joins
    <3> QED BY <1>3, <2>5, <3>1 DEF Joins
  <2>7. \A i : i # x => CallAt(r, i) = CallAt(q, i) /\ PiecesAt(r, CallAt(r, i)) = PiecesAt(q, CallAt(q, i))
    BY <1>3, <1>9, <2>1 DEF Joins
  <2>8. DOMAIN p = {i \in Indexes : CallAt(r, i) # {}}
    <3>1. DOMAIN p = {i \in Indexes : CallAt(q, i) # {}} \cup {x} BY <1>7, <2>2 DEF Parts
    <3>2. CallAt(r, x) # {} BY <2>5
    <3> QED BY <2>7, <3>1, <3>2
  <2>9. ASSUME NEW i \in DOMAIN p PROVE p[i] = PiecesAt(r, CallAt(r, i))
    <3>1. CASE i # x
      <4>1. i \in DOMAIN parts /\ p[i] = parts[i] BY <2>2, <3>1
      <4> QED BY <1>7, <2>7, <3>1, <4>1 DEF Parts
    <3>2. CASE i = x
      <4>1. CASE x \in DOMAIN parts
        <5>1. p[x] = Append(parts[x], chunk.piece) BY <2>2, <4>1
        <5> QED BY <1>7, <2>4, <2>6, <3>2, <4>1, <5>1 DEF Parts
      <4>2. CASE x \notin DOMAIN parts
        <5>1. p[x] = <<chunk.piece>> BY <2>2, <4>2
        <5>2. S = {} BY <1>7, <2>4, <4>2 DEF Parts
        <5>3. PiecesAt(q, S) = <<>> BY <5>2, PiecesNone
        <5>4. Append(<<>>, chunk.piece) = <<chunk.piece>> OBVIOUS
        <5> QED BY <2>6, <3>2, <5>1, <5>3, <5>4
      <4> QED BY <4>1, <4>2
    <3> QED BY <3>1, <3>2
  <2>10. Parts(r, text, p, finish, usage) BY <1>10, <1>11, <1>14, <1>17, <2>8, <2>9 DEF Parts
  <2> QED BY <1>15, <2>3, <2>10
<1>18. CASE chunk.kind = "finish"
  <2>1. h = [text |-> text, parts |-> parts, finish |-> chunk.reason, usage |-> usage]
    BY <1>4, <1>5, <1>18 DEF Take
  <2>2. PICK S \in SUBSET (1..n) : S = KindAt(q, "finish") BY <1>3 DEF Joins
  <2>3. KindAt(r, "finish") = S \cup {n + 1} BY <1>3, <1>18, <2>2 DEF Joins
  <2>4. Max(S \cup {n + 1}) = n + 1
    <3>1. S \in SUBSET Nat /\ n + 1 \in Nat /\ \A x \in S : x < n + 1 OBVIOUS
    <3> QED BY <3>1, MaxJoins
  <2>5. chunk.reason = IF KindAt(r, "finish") = {} THEN "stop" ELSE r[Max(KindAt(r, "finish"))].reason
    BY <1>3, <2>3, <2>4 DEF Joins
  <2>6. Parts(r, text, parts, chunk.reason, usage) BY <1>11, <1>13, <1>14, <1>18, <2>5 DEF Parts
  <2> QED BY <1>15, <2>1, <2>6
<1>19. CASE chunk.kind = "usage"
  <2>1. chunk.tokens = 1 BY <1>19 DEF Chunks
  <2>2. h = [text |-> text, parts |-> parts, finish |-> finish, usage |-> 1]
    BY <1>4, <1>5, <1>19, <2>1 DEF Take
  <2>3. KindAt(r, "usage") # {} BY <1>3, <1>19 DEF Joins
  <2>4. Parts(r, text, parts, finish, 1) BY <1>10, <1>13, <1>14, <1>19, <2>3 DEF Parts
  <2> QED BY <1>15, <2>2, <2>4
<1>20. chunk.kind \in {"text", "call", "finish", "usage"} BY DEF Chunks
<1> QED BY <1>16, <1>17, <1>18, <1>19, <1>20

-----------------------------------------------------------------------------
(* Leaked reasoning.  First, what is left of text without blanks in front. *)

\* The first piece that is not blank, if there is one.
FirstWord(q, k) == k \in 1..Len(q) /\ q[k] # "blank" /\ \A j \in 1..Len(q) : q[j] # "blank" => k <= j
AllBlank(q) == \A j \in 1..Len(q) : q[j] = "blank"

\* Text has a first word or is all blank.
LEMMA BlankOrWord ==
  ASSUME NEW q \in Seq(Pieces)
  PROVE  AllBlank(q) \/ \E k : FirstWord(q, k)
<1> SUFFICES ASSUME ~AllBlank(q) PROVE \E k : FirstWord(q, k) OBVIOUS
<1>1. PICK K : K = {j \in 1..Len(q) : q[j] # "blank"} OBVIOUS
<1>2. K \in SUBSET Nat /\ K # {} BY <1>1 DEF AllBlank
<1>3. PICK k \in K : \A j \in K : k <= j BY <1>2, LeastNatural
<1>4. FirstWord(q, k) BY <1>1, <1>3 DEF FirstWord
<1> QED BY <1>4

\* Trimmed text starts at its first word.
LEMMA TrimmedIs ==
  ASSUME NEW q \in Seq(Pieces)
  PROVE  /\ AllBlank(q) => Trimmed(q) = <<>>
         /\ \A k : FirstWord(q, k) => Trimmed(q) = SubSeq(q, k, Len(q))
<1>0. DOMAIN q = 1..Len(q) BY LenProperties
<1>1. PICK K : K = {i \in DOMAIN q : q[i] # "blank"} OBVIOUS
<1>2. Trimmed(q) = IF K = {} THEN <<>> ELSE SubSeq(q, CHOOSE i \in K : \A j \in K : i <= j, Len(q))
  BY <1>1 DEF Trimmed
<1>3. ASSUME AllBlank(q) PROVE Trimmed(q) = <<>>
  <2>1. K = {} BY <1>0, <1>1, <1>3 DEF AllBlank
  <2> QED BY <1>2, <2>1
<1>4. ASSUME NEW k, FirstWord(q, k) PROVE Trimmed(q) = SubSeq(q, k, Len(q))
  <2>1. k \in K /\ \A j \in K : k <= j BY <1>0, <1>1, <1>4 DEF FirstWord
  <2>2. K \in SUBSET Int BY <1>0, <1>1
  <2>3. ASSUME NEW i \in K, \A j \in K : i <= j PROVE i = k
    <3>1. i <= k /\ k <= i BY <2>1, <2>3
    <3> QED BY <2>1, <2>2, <3>1
  <2>4. (CHOOSE i \in K : \A j \in K : i <= j) = k BY <2>1, <2>3
  <2> QED BY <1>2, <2>1, <2>4
<1> QED BY <1>3, <1>4

\* What is trimmed is text, and it is empty exactly when there was nothing but blanks.
LEMMA TrimmedSeq ==
  ASSUME NEW q \in Seq(Pieces)
  PROVE  Trimmed(q) \in Seq(Pieces) /\ (Trimmed(q) = <<>> <=> AllBlank(q))
<1>1. CASE AllBlank(q) BY <1>1, TrimmedIs, EmptySeq
<1>2. CASE ~AllBlank(q)
  <2>1. PICK k : FirstWord(q, k) BY <1>2, BlankOrWord
  <2>2. k \in 1..Len(q) BY <2>1 DEF FirstWord
  <2>3. Trimmed(q) = SubSeq(q, k, Len(q)) BY <2>1, TrimmedIs
  <2>4. k \in Int /\ Len(q) \in Int /\ \A i \in k..Len(q) : q[i] \in Pieces BY <2>2, LenProperties, ElementOfSeq
  <2>5. /\ SubSeq(q, k, Len(q)) \in Seq(Pieces)
        /\ Len(SubSeq(q, k, Len(q))) = Len(q) - k + 1
    BY <2>2, <2>4, SubSeqProperties
  <2>6. Len(SubSeq(q, k, Len(q))) # 0 BY <2>2, <2>5
  <2>7. SubSeq(q, k, Len(q)) # <<>> BY <2>6, EmptySeq
  <2> QED BY <1>2, <2>3, <2>5, <2>7
<1> QED BY <1>1, <1>2

\* Text that starts with a word is left as it is.
LEMMA TrimmedFirst ==
  ASSUME NEW q \in Seq(Pieces), q # <<>>, q[1] # "blank"
  PROVE  Trimmed(q) = q
<1>1. Len(q) \in Nat \ {0} BY EmptySeq
<1>2. FirstWord(q, 1) BY <1>1 DEF FirstWord
<1>3. Trimmed(q) = SubSeq(q, 1, Len(q)) BY <1>2, TrimmedIs
<1> QED BY <1>3, SubSeqFull

\* Trimming twice is trimming once.
LEMMA TrimmedTwice ==
  ASSUME NEW q \in Seq(Pieces)
  PROVE  Trimmed(Trimmed(q)) = Trimmed(q)
<1>1. CASE AllBlank(q)
  <2>1. Trimmed(q) = <<>> /\ <<>> \in Seq(Pieces) BY <1>1, TrimmedIs, EmptySeq
  <2>2. AllBlank(<<>>) BY EmptySeq DEF AllBlank
  <2>3. Trimmed(<<>>) = <<>> BY <2>1, <2>2, TrimmedIs
  <2> QED BY <2>1, <2>3
<1>2. CASE ~AllBlank(q)
  <2>1. PICK k : FirstWord(q, k) BY <1>2, BlankOrWord
  <2>2. k \in 1..Len(q) /\ q[k] # "blank" BY <2>1 DEF FirstWord
  <2>3. PICK t : t = Trimmed(q) OBVIOUS
  <2>4. t = SubSeq(q, k, Len(q)) BY <2>1, <2>3, TrimmedIs
  <2>5. k \in Int /\ Len(q) \in Int /\ \A i \in k..Len(q) : q[i] \in Pieces BY <2>2, LenProperties, ElementOfSeq
  <2>6. \A i \in 1..(Len(q) - k + 1) : t[i] = q[k + i - 1] BY <2>4, <2>5, SubSeqProperties
  <2>7. 1 \in 1..(Len(q) - k + 1) /\ k + 1 - 1 = k BY <2>2, <2>5
  <2>8. t[1] # "blank" BY <2>2, <2>6, <2>7
  <2>9. t \in Seq(Pieces) /\ t # <<>> BY <1>2, <2>3, TrimmedSeq
  <2> QED BY <2>3, <2>8, <2>9, TrimmedFirst
<1> QED BY <1>1, <1>2

\* One more piece is trimmed when nothing came before it, and added otherwise.
LEMMA TrimmedMore ==
  ASSUME NEW q \in Seq(Pieces), NEW p \in Pieces
  PROVE  Trimmed(Append(q, p)) = IF Trimmed(q) = <<>> THEN Trimmed(<<p>>) ELSE Append(Trimmed(q), p)
<1>1. PICK r : r = Append(q, p) OBVIOUS
<1>2. PICK n \in Nat : n = Len(q) BY LenProperties
<1>3. r \in Seq(Pieces) /\ Len(r) = n + 1 /\ r[n + 1] = p /\ \A i \in 1..n : r[i] = q[i]
  BY <1>1, <1>2, AppendProperties
<1>4. \A j \in 1..(n + 1) : j \in 1..n \/ j = n + 1 BY <1>2
<1>5. n + 1 \in 1..(n + 1) /\ \A j \in 1..n : j \in 1..(n + 1) BY <1>2
<1>6. CASE AllBlank(q)
  <2>1. Trimmed(q) = <<>> BY <1>6, TrimmedIs
  <2>2. <<p>> \in Seq(Pieces) /\ Len(<<p>>) = 1 /\ <<p>>[1] = p OBVIOUS
  <2>3. CASE p = "blank"
    <3>1. AllBlank(r) BY <1>2, <1>3, <1>4, <1>6, <2>3 DEF AllBlank
    <3>2. AllBlank(<<p>>) BY <2>2, <2>3 DEF AllBlank
    <3>3. Trimmed(r) = <<>> /\ Trimmed(<<p>>) = <<>> BY <1>3, <2>2, <3>1, <3>2, TrimmedIs
    <3> QED BY <1>1, <2>1, <3>3
  <2>4. CASE p # "blank"
    <3>1. FirstWord(r, n + 1)
      <4>1. \A j \in 1..(n + 1) : r[j] # "blank" => n + 1 <= j BY <1>2, <1>3, <1>4, <1>6 DEF AllBlank
      <4> QED BY <1>3, <1>5, <2>4, <4>1 DEF FirstWord
    <3>2. Trimmed(r) = SubSeq(r, n + 1, n + 1) BY <1>3, <3>1, TrimmedIs
    <3>3. Trimmed(<<p>>) = <<p>>
      <4>1. <<p>> # <<>> OBVIOUS
      <4> QED BY <2>2, <2>4, <4>1, TrimmedFirst
    <3>4. SubSeq(r, n + 1, n + 1) = <<p>>
      <4>1. \A i \in (n + 1)..(n + 1) : r[i] \in Pieces BY <1>3
      <4>2. PICK s : s = SubSeq(r, n + 1, n + 1) OBVIOUS
      <4>3. n + 1 \in Int /\ n + 1 <= n + 1 /\ (n + 1) - (n + 1) + 1 = 1 /\ (n + 1) + 1 - 1 = n + 1 /\ 1 \in 1..1
        BY <1>2
      <4>4. s \in Seq(Pieces) /\ Len(s) = 1 /\ s[1] = p BY <1>3, <4>1, <4>2, <4>3, SubSeqProperties
      <4>5. \A i \in 1..Len(s) : s[i] = <<p>>[i] BY <2>2, <4>4
      <4>6. s = <<p>> BY <2>2, <4>4, <4>5, SeqEqual
      <4> QED BY <4>2, <4>6
    <3> QED BY <1>1, <2>1, <3>2, <3>3, <3>4
  <2> QED BY <2>3, <2>4
<1>7. CASE ~AllBlank(q)
  <2>1. PICK k : FirstWord(q, k) BY <1>7, BlankOrWord
  <2>2. k \in 1..n /\ q[k] # "blank" /\ \A j \in 1..n : q[j] # "blank" => k <= j BY <1>2, <2>1 DEF FirstWord
  <2>3. FirstWord(r, k)
    <3>1. k \in 1..(n + 1) /\ r[k] # "blank" BY <1>3, <1>5, <2>2
    <3>2. ASSUME NEW j \in 1..(n + 1), r[j] # "blank" PROVE k <= j
      <4>1. CASE j \in 1..n BY <1>3, <2>2, <3>2, <4>1
      <4>2. CASE j = n + 1 BY <1>2, <2>2, <4>2
      <4> QED BY <1>4, <4>1, <4>2
    <3> QED BY <1>3, <3>1, <3>2 DEF FirstWord
  <2>4. PICK u, w : u = Trimmed(q) /\ w = Trimmed(r) OBVIOUS
  <2>5. u = SubSeq(q, k, n) /\ w = SubSeq(r, k, n + 1) BY <1>2, <1>3, <2>1, <2>3, <2>4, TrimmedIs
  <2>6. /\ \A i \in k..n : q[i] \in Pieces
        /\ \A i \in k..(n + 1) : r[i] \in Pieces
        /\ k \in Int /\ n \in Int /\ n + 1 \in Int /\ k <= n /\ k <= n + 1
    <3>1. \A i \in 1..n : q[i] \in Pieces BY <1>2, ElementOfSeq
    <3>2. \A i \in 1..(n + 1) : r[i] \in Pieces BY <1>3, ElementOfSeq
    <3> QED BY <1>2, <2>2, <3>1, <3>2
  <2>7. u \in Seq(Pieces) /\ Len(u) = n - k + 1 /\ \A i \in 1..(n - k + 1) : u[i] = q[k + i - 1]
    BY <2>5, <2>6, SubSeqProperties
  <2>8. w \in Seq(Pieces) /\ Len(w) = (n + 1) - k + 1 /\ \A i \in 1..((n + 1) - k + 1) : w[i] = r[k + i - 1]
    BY <2>5, <2>6, SubSeqProperties
  <2>9. PICK v : v = Append(u, p) OBVIOUS
  <2>10. v \in Seq(Pieces) /\ Len(v) = Len(u) + 1 /\ v[Len(u) + 1] = p /\ \A i \in 1..Len(u) : v[i] = u[i]
    BY <2>7, <2>9, AppendProperties
  <2>11. ASSUME NEW i \in 1..Len(w) PROVE w[i] = v[i]
    <3>0. Len(u) \in Nat /\ i \in Nat BY <2>6, <2>7, LenProperties
    <3>1. w[i] = r[k + i - 1] BY <2>8
    <3>2. CASE i \in 1..Len(u)
      <4>1. k + i - 1 \in 1..n BY <2>2, <2>6, <2>7, <3>0, <3>2
      <4>2. v[i] = q[k + i - 1] BY <2>7, <2>10, <3>2
      <4> QED BY <1>3, <3>1, <4>1, <4>2
    <3>3. CASE i = Len(u) + 1
      <4>1. k + i - 1 = n + 1 BY <2>6, <2>7, <3>3
      <4> QED BY <1>3, <2>10, <3>1, <3>3, <4>1
    <3> QED BY <2>6, <2>7, <2>8, <3>0, <3>2, <3>3
  <2>12. Len(w) = Len(v) BY <2>6, <2>7, <2>8, <2>10
  <2>13. w = v BY <2>8, <2>10, <2>11, <2>12, SeqEqual
  <2>14. u # <<>> BY <1>7, <2>4, TrimmedSeq
  <2> QED BY <1>1, <2>4, <2>9, <2>13, <2>14
<1> QED BY <1>6, <1>7

\* What comes after the first closing tag.
LEMMA AfterCloseIs ==
  ASSUME NEW q \in Seq(Pieces), Contains(q, "close")
  PROVE  \E k \in 1..Len(q) : /\ q[k] = "close" /\ \A j \in 1..Len(q) : q[j] = "close" => k <= j
                              /\ Position(q, "close") = k /\ AfterClose(q) = SubSeq(q, k + 1, Len(q))
<1>0. DOMAIN q = 1..Len(q) BY LenProperties
<1>1. PICK K : K = {j \in 1..Len(q) : q[j] = "close"} OBVIOUS
<1>2. K \in SUBSET Nat /\ K # {} BY <1>1 DEF Contains
<1>3. PICK k \in K : \A j \in K : k <= j BY <1>2, LeastNatural
<1>4. k \in 1..Len(q) /\ q[k] = "close" /\ \A j \in 1..Len(q) : q[j] = "close" => k <= j BY <1>1, <1>3
<1>5. Position(q, "close") = k
  <2>1. ASSUME NEW i \in 1..Len(q), q[i] = "close", \A j \in 1..Len(q) : q[j] = "close" => i <= j PROVE i = k
    <3>1. i <= k /\ k <= i BY <1>4, <2>1
    <3> QED BY <1>4, <3>1
  <2>2. (CHOOSE i \in 1..Len(q) : q[i] = "close" /\ \A j \in 1..Len(q) : q[j] = "close" => i <= j) = k BY <1>4, <2>1
  <2> QED BY <1>0, <2>2 DEF Position
<1>6. AfterClose(q) = SubSeq(q, k + 1, Len(q)) BY <1>5 DEF AfterClose
<1> QED BY <1>4, <1>5, <1>6

\* It is text, to which the next piece is added.
LEMMA AfterCloseMore ==
  ASSUME NEW q \in Seq(Pieces), Contains(q, "close"), NEW p \in Pieces
  PROVE  /\ AfterClose(q) \in Seq(Pieces) /\ Contains(Append(q, p), "close")
         /\ AfterClose(Append(q, p)) = Append(AfterClose(q), p)
<1>0. PICK n \in Nat : n = Len(q) BY LenProperties
<1>1. PICK r : n = Len(q) /\ r = Append(q, p) BY <1>0
<1>2. r \in Seq(Pieces) /\ Len(r) = n + 1 /\ r[n + 1] = p /\ \A i \in 1..n : r[i] = q[i]
  BY <1>1, AppendProperties
<1>3. PICK k \in 1..n : /\ q[k] = "close" /\ \A j \in 1..n : q[j] = "close" => k <= j
                        /\ AfterClose(q) = SubSeq(q, k + 1, n)
  BY <1>1, AfterCloseIs
<1>4. k \in 1..(n + 1) /\ r[k] = "close" BY <1>1, <1>2, <1>3
<1>5. Contains(r, "close") BY <1>2, <1>4 DEF Contains
<1>6. PICK m \in 1..(n + 1) : /\ r[m] = "close" /\ \A j \in 1..(n + 1) : r[j] = "close" => m <= j
                              /\ AfterClose(r) = SubSeq(r, m + 1, n + 1)
  BY <1>2, <1>5, AfterCloseIs
<1>7. m = k
  <2>1. m <= k BY <1>4, <1>6
  <2>2. m \in 1..n BY <1>1, <1>3, <1>6, <2>1
  <2>3. k <= m BY <1>2, <1>3, <1>6, <2>2
  <2> QED BY <1>3, <1>6, <2>1, <2>3
<1>8. PICK u, w : u = SubSeq(q, k + 1, n) /\ w = SubSeq(r, k + 1, n + 1) OBVIOUS
<1>9. /\ \A i \in (k + 1)..n : q[i] \in Pieces
      /\ \A i \in (k + 1)..(n + 1) : r[i] \in Pieces
      /\ k + 1 \in Int /\ n \in Int /\ n + 1 \in Int /\ k \in Nat /\ k <= n
  <2>1. \A i \in 1..n : q[i] \in Pieces BY <1>1, ElementOfSeq
  <2>2. \A i \in 1..(n + 1) : r[i] \in Pieces BY <1>2, ElementOfSeq
  <2> QED BY <1>1, <1>3, <2>1, <2>2
<1>10. u \in Seq(Pieces) /\ Len(u) = n - k /\ \A i \in 1..(n - k) : u[i] = q[k + i]
  <2>1. /\ u \in Seq(Pieces) /\ Len(u) = IF k + 1 <= n THEN n - (k + 1) + 1 ELSE 0
        /\ \A i \in 1..(n - (k + 1) + 1) : u[i] = q[(k + 1) + i - 1]
    BY <1>8, <1>9, SubSeqProperties
  <2> QED BY <1>9, <2>1
<1>11. w \in Seq(Pieces) /\ Len(w) = n + 1 - k /\ \A i \in 1..(n + 1 - k) : w[i] = r[k + i]
  <2>1. /\ w \in Seq(Pieces) /\ Len(w) = IF k + 1 <= n + 1 THEN (n + 1) - (k + 1) + 1 ELSE 0
        /\ \A i \in 1..((n + 1) - (k + 1) + 1) : w[i] = r[(k + 1) + i - 1]
    BY <1>8, <1>9, SubSeqProperties
  <2>2. k + 1 <= n + 1 /\ (n + 1) - (k + 1) + 1 = n + 1 - k BY <1>9
  <2>3. \A i \in 1..(n + 1 - k) : (k + 1) + i - 1 = k + i BY <1>9
  <2> QED BY <2>1, <2>2, <2>3
<1>12. PICK v : v = Append(u, p) OBVIOUS
<1>13. v \in Seq(Pieces) /\ Len(v) = Len(u) + 1 /\ v[Len(u) + 1] = p /\ \A i \in 1..Len(u) : v[i] = u[i]
  <2>1. u \in Seq(Pieces) BY <1>10
  <2> QED BY ONLY <1>12, <2>1, p \in Pieces, AppendProperties
<1>14. ASSUME NEW i \in 1..Len(w) PROVE w[i] = v[i]
  <2>1. i \in Nat /\ w[i] = r[k + i] BY <1>9, <1>11
  <2>2. CASE i \in 1..Len(u)
    <3>1. k + i \in 1..n BY <1>9, <1>10, <2>2
    <3>2. v[i] = q[k + i] BY <1>10, <1>13, <2>2
    <3> QED BY <1>2, <2>1, <3>1, <3>2
  <2>3. CASE i = Len(u) + 1
    <3>1. k + i = n + 1 BY <1>9, <1>10, <2>3
    <3> QED BY <1>2, <1>13, <2>1, <2>3, <3>1
  <2> QED BY <1>9, <1>10, <1>11, <2>1, <2>2, <2>3
<1>15. Len(w) = Len(v) BY <1>9, <1>10, <1>11, <1>13
<1>16. w = v BY <1>11, <1>13, <1>14, <1>15, SeqEqual
<1> QED BY <1>1, <1>3, <1>5, <1>6, <1>7, <1>8, <1>10, <1>12, <1>16

\* What is shown of text that opens with reasoning (strip_leaked_reasoning).
LEMMA StrippedIs ==
  ASSUME NEW q \in Seq(Pieces), OpensWith(q)
  PROVE  Trimmed(q) = q /\ Stripped(q) = IF Contains(q, "close") THEN Trimmed(AfterClose(q)) ELSE <<>>
<1>1. q # <<>>
  <2>1. Len(q) # 0 BY LenProperties DEF OpensWith
  <2> QED BY <2>1, EmptySeq
<1>2. q[1] # "blank" BY DEF OpensWith
<1>3. Trimmed(q) = q BY <1>1, <1>2, TrimmedFirst
<1> QED BY <1>3 DEF Stripped

\* Whether text opens with reasoning is settled by its first two pieces.
LEMMA OpensMore ==
  ASSUME NEW q \in Seq(Pieces), NEW p \in Pieces
  PROVE  /\ q # <<>> /\ q # <<"open1">> /\ OpensWith(Append(q, p)) => OpensWith(q)
         /\ q # <<>> => Append(q, p) # <<>> /\ Append(q, p) # <<"open1">>
<1>0. PICK n \in Nat : n = Len(q) BY LenProperties
<1>1. PICK r : n = Len(q) /\ r = Append(q, p) BY <1>0
<1>2. r \in Seq(Pieces) /\ Len(r) = n + 1 /\ \A i \in 1..n : r[i] = q[i] BY <1>1, AppendProperties
<1>3. q # <<>> => n >= 1 BY <1>1, EmptySeq
<1>4. ASSUME q # <<>>, q # <<"open1">>, OpensWith(r) PROVE OpensWith(q)
  <2>1. r[1] = "open1" /\ r[2] = "open2" BY <1>4 DEF OpensWith
  <2>2. CASE n >= 2
    <3>1. 1 \in 1..n /\ 2 \in 1..n BY <1>1, <2>2
    <3> QED BY <1>1, <1>2, <2>1, <2>2, <3>1 DEF OpensWith
  <2>3. CASE n < 2
    <3>1. n = 1 /\ 1 \in 1..n BY <1>1, <1>3, <1>4, <2>3
    <3>2. q[1] = "open1" BY <1>2, <2>1, <3>1
    <3>3. PICK s : s = <<"open1">> OBVIOUS
    <3>4. s \in Seq(Pieces) /\ Len(s) = 1 /\ s[1] = "open1" BY <3>3 DEF Pieces
    <3>5. \A i \in 1..Len(q) : q[i] = s[i] BY <1>1, <3>1, <3>2, <3>4
    <3>6. q = s BY <1>1, <3>1, <3>4, <3>5, SeqEqual
    <3> QED BY <1>4, <3>3, <3>6
  <2> QED BY <1>1, <2>2, <2>3
<1>5. ASSUME q # <<>> PROVE r # <<>> /\ r # <<"open1">>
  <2>1. Len(r) # 1 /\ Len(r) # 0 BY <1>2, <1>3, <1>5
  <2>2. PICK s : s = <<"open1">> OBVIOUS
  <2>3. Len(s) = 1 BY <2>2
  <2>4. Len(<<>>) = 0 OBVIOUS
  <2>5. r # s BY <2>1, <2>3
  <2>6. r # <<>> BY <2>1, <2>4
  <2> QED BY <2>2, <2>5, <2>6
<1> QED BY <1>1, <1>4, <1>5

\* The pieces of text that arrived.
Arrived(q) == [i \in DOMAIN q |-> q[i].piece]
\* What the filter holds and what it has shown, after text a.
Filtered(a, held, passing, trim, out) ==
    /\ a \in Seq(Pieces) /\ out \in Seq(Pieces) /\ passing \in BOOLEAN /\ trim \in BOOLEAN
    /\ ~passing => held = a /\ out = <<>>
    /\ passing => a # <<>> /\ a # <<"open1">>
    /\ passing /\ OpensWith(a) =>
         Contains(a, "close") /\ out = Trimmed(AfterClose(a)) /\ (trim <=> out = <<>>)

\* A piece of text after the filter has let something through (feed).
LEMMA PassedOn ==
  ASSUME NEW a, NEW held, NEW trim, NEW out, Filtered(a, held, TRUE, trim, out), NEW p \in Pieces,
         NEW more, more = IF trim THEN Trimmed(<<p>>) ELSE <<p>>
  PROVE  Filtered(Append(a, p), held, TRUE, trim /\ more = <<>>, out \o more)
<1>1. /\ a \in Seq(Pieces) /\ out \in Seq(Pieces) /\ trim \in BOOLEAN /\ a # <<>> /\ a # <<"open1">>
      /\ OpensWith(a) => Contains(a, "close") /\ out = Trimmed(AfterClose(a)) /\ (trim <=> out = <<>>)
  BY DEF Filtered
<1>2. PICK b : b = Append(a, p) OBVIOUS
<1>3. b \in Seq(Pieces) /\ b # <<>> /\ b # <<"open1">> BY <1>1, <1>2, AppendProperties, OpensMore
<1>4. PICK one : one = <<p>> OBVIOUS
<1>5. one \in Seq(Pieces) /\ one # <<>> BY <1>4
<1>6. more \in Seq(Pieces) BY <1>4, <1>5, TrimmedSeq
<1>7. out \o more \in Seq(Pieces) BY <1>1, <1>6, ConcatProperties
<1>8. ASSUME OpensWith(b)
      PROVE  /\ Contains(b, "close") /\ out \o more = Trimmed(AfterClose(b))
             /\ (trim /\ more = <<>>) <=> out \o more = <<>>
  <2>1. OpensWith(a) BY <1>1, <1>2, <1>8, OpensMore
  <2>2. Contains(a, "close") /\ out = Trimmed(AfterClose(a)) /\ (trim <=> out = <<>>) BY <1>1, <2>1
  <2>3. PICK u : u = AfterClose(a) OBVIOUS
  <2>4. u \in Seq(Pieces) /\ Contains(b, "close") /\ AfterClose(b) = Append(u, p)
    BY <1>1, <1>2, <2>2, <2>3, AfterCloseMore
  <2>5. Trimmed(Append(u, p)) = IF Trimmed(u) = <<>> THEN Trimmed(one) ELSE Append(Trimmed(u), p)
    BY <1>4, <2>4, TrimmedMore
  <2>6. CASE trim
    <3>1. out = <<>> /\ more = Trimmed(one) BY <1>4, <2>2, <2>6
    <3>2. out \o more = more BY <1>6, <3>1, ConcatEmptySeq
    <3> QED BY <2>2, <2>3, <2>4, <2>5, <2>6, <3>1, <3>2
  <2>7. CASE ~trim
    <3>1. out # <<>> /\ more = one BY <1>4, <2>2, <2>7
    <3>2. out \o more = Append(out, p) /\ Append(out, p) # <<>> BY <1>1, <1>4, <3>1, AppendIsConcat, AppendProperties
    <3> QED BY <2>2, <2>3, <2>4, <2>5, <2>7, <3>1, <3>2
  <2> QED BY <1>1, <2>6, <2>7
<1>9. (trim /\ more = <<>>) \in BOOLEAN OBVIOUS
<1> QED BY <1>2, <1>3, <1>7, <1>8, <1>9 DEF Filtered

\* Text that is held back until it is known what it is, and the first of it that is let through (feed).
LEMMA LetThrough ==
  ASSUME NEW a, NEW held, NEW trim, NEW out, Filtered(a, held, FALSE, trim, out), NEW p \in Pieces,
         NEW b, b = Append(a, p), ~StillPrivate(Trimmed(b)),
         NEW more, more = IF OpensWith(Trimmed(b)) THEN Trimmed(Stripped(b)) ELSE Stripped(b),
         NEW y \in BOOLEAN, y <=> OpensWith(Trimmed(b)) /\ more = <<>>
  PROVE  Filtered(b, b, TRUE, y, out \o more)
<1>1. a \in Seq(Pieces) /\ held = a /\ out = <<>> BY DEF Filtered
<1>2. b \in Seq(Pieces) /\ b # <<>> BY <1>1, AppendProperties
<1>3. b # <<"open1">>
  <2> SUFFICES ASSUME b = <<"open1">> PROVE FALSE OBVIOUS
  <2>1. Len(b) = 1 /\ b[1] = "open1" OBVIOUS
  <2>2. Trimmed(b) = b BY <1>2, <2>1, TrimmedFirst
  <2>3. ~OpensWith(b) BY <2>1 DEF OpensWith
  <2> QED BY <2>2, <2>3 DEF StillPrivate
<1>4. Stripped(b) \in Seq(Pieces)
  <2>1. PICK t : t = Trimmed(b) OBVIOUS
  <2>2. t \in Seq(Pieces) BY <1>2, <2>1, TrimmedSeq
  <2>3. Contains(t, "close") => Trimmed(AfterClose(t)) \in Seq(Pieces) BY <2>2, AfterCloseMore, TrimmedSeq
  <2>4. Contains(b, "close") => Trimmed(AfterClose(b)) \in Seq(Pieces) BY <1>2, AfterCloseMore, TrimmedSeq
  <2>5. <<>> \in Seq(Pieces) BY EmptySeq
  <2> QED BY <1>2, <2>1, <2>3, <2>4, <2>5 DEF Stripped
<1>5. more \in Seq(Pieces) /\ out \o more = more BY <1>1, <1>4, TrimmedSeq, ConcatEmptySeq
<1>6. ASSUME OpensWith(b)
      PROVE  Contains(b, "close") /\ more = Trimmed(AfterClose(b)) /\ OpensWith(Trimmed(b))
  <2>1. Trimmed(b) = b /\ Stripped(b) = IF Contains(b, "close") THEN Trimmed(AfterClose(b)) ELSE <<>>
    BY <1>2, <1>6, StrippedIs
  <2>2. Contains(b, "close") BY <1>6, <2>1 DEF StillPrivate
  <2>3. OpensWith(Trimmed(b)) BY <1>6, <2>1
  <2>4. PICK u : u = AfterClose(b) OBVIOUS
  <2>5. u \in Seq(Pieces) BY <1>2, <2>2, <2>4, AfterCloseMore
  <2>6. Trimmed(Trimmed(u)) = Trimmed(u) BY <2>5, TrimmedTwice
  <2> QED BY <2>1, <2>2, <2>3, <2>4, <2>6
<1> QED BY <1>1, <1>2, <1>3, <1>5, <1>6 DEF Filtered

\* What is shown so far is the beginning of what is left without the reasoning, and at the end all of it.
LEMMA ShownIs ==
  ASSUME NEW a, NEW held, NEW passing, NEW trim, NEW out, Filtered(a, held, passing, trim, out), OpensWith(a)
  PROVE  IsPrefix(out, Stripped(a)) /\ (IF passing THEN out ELSE out \o Stripped(held)) = Stripped(a)
<1>1. a \in Seq(Pieces) /\ out \in Seq(Pieces) /\ passing \in BOOLEAN BY DEF Filtered
<1>2. Stripped(a) = IF Contains(a, "close") THEN Trimmed(AfterClose(a)) ELSE <<>> BY <1>1, StrippedIs
<1>3. PICK t : t = Stripped(a) OBVIOUS
<1>4. t \in Seq(Pieces)
  <2>1. "blank" \in Pieces BY DEF Pieces
  <2>2. Contains(a, "close") => AfterClose(a) \in Seq(Pieces) BY <1>1, <2>1, AfterCloseMore
  <2>3. Contains(a, "close") => Trimmed(AfterClose(a)) \in Seq(Pieces) BY <2>2, TrimmedSeq
  <2>4. <<>> \in Seq(Pieces) BY EmptySeq
  <2> QED BY <1>2, <1>3, <2>3, <2>4
<1>5. CASE passing
  <2>1. out = t BY <1>2, <1>3, <1>5 DEF Filtered
  <2>2. Len(t) <= Len(t) BY <1>4, LenProperties
  <2> QED BY <1>3, <1>5, <2>1, <2>2 DEF IsPrefix
<1>6. CASE ~passing
  <2>1. held = a /\ out = <<>> BY <1>6 DEF Filtered
  <2>2. <<>> \o t = t BY <1>4, ConcatEmptySeq
  <2>3. Len(<<>>) = 0 /\ Len(t) >= 0 BY <1>4, LenProperties
  <2>4. SubSeq(<<>>, 1, 0) = <<>> /\ SubSeq(t, 1, 0) = <<>> BY SubSeqEmpty
  <2>5. IsPrefix(<<>>, t) BY <2>3, <2>4 DEF IsPrefix
  <2> QED BY <1>3, <1>6, <2>1, <2>2, <2>5
<1> QED BY <1>1, <1>5, <1>6

-----------------------------------------------------------------------------
(* The turns of a transcript.                                              *)

Messages == [role : Roles, calls : 0..2]
Items == {"text", "call", "result"}
TurnShape == [role : {"user", "assistant"}, items : Seq(Items)]
ItemsOf(turn, what) == {i \in DOMAIN turn.items : turn.items[i] = what}
AskedBy(turn) == Cardinality(ItemsOf(turn, "call"))
ToldBy(turn) == Cardinality(ItemsOf(turn, "result"))

\* The numbers of a claim that holds of nought and of every successor.
LEMMA Induction ==
  ASSUME NEW S, 0 \in S, \A n \in Nat : n \in S => n + 1 \in S
  PROVE  Nat \subseteq S
<1> SUFFICES ASSUME Nat \ S # {} PROVE FALSE OBVIOUS
<1>1. PICK x \in Nat \ S : \A y \in Nat \ S : x <= y BY LeastNatural
<1>2. x # 0 /\ x - 1 \in Nat OBVIOUS
<1>3. x - 1 \in S BY <1>1, <1>2
<1> QED BY <1>2, <1>3

\* The recursion over the messages (the loop of _payload) is defined.
RenderSteps(q, n, f) == f = [i \in 0..n |-> IF i = 0 THEN <<>> ELSE TurnAdded(f[i - 1], q[i])]
\* Rendered is the last of its steps.
LEMMA RenderDefined ==
  ASSUME NEW q, Len(q) \in Nat
  PROVE  \E f : RenderSteps(q, Len(q), f) /\ Rendered(q) = f[Len(q)]
<1> DEFINE Fun(n, f) == f = [i \in 0..n |-> IF i = 0 THEN <<>> ELSE TurnAdded(f[i - 1], q[i])]
<1> DEFINE S == {n \in Nat : \E f : Fun(n, f)}
<1>1. 0 \in S
  <2>1. Fun(0, [i \in 0..0 |-> <<>>])
    <3> DEFINE f == [i \in 0..0 |-> <<>>]
    <3>1. \A i \in 0..0 : f[i] = IF i = 0 THEN <<>> ELSE TurnAdded(f[i - 1], q[i]) OBVIOUS
    <3> QED BY <3>1
  <2> QED BY <2>1
<1>2. \A n \in Nat : n \in S => n + 1 \in S
  <2> SUFFICES ASSUME NEW n \in Nat, n \in S PROVE n + 1 \in S OBVIOUS
  <2>1. PICK f : Fun(n, f) OBVIOUS
  <2> DEFINE g == [i \in 0..(n + 1) |-> IF i = n + 1 THEN TurnAdded(f[n], q[n + 1]) ELSE f[i]]
  <2>2. \A i \in 0..n : f[i] = IF i = 0 THEN <<>> ELSE TurnAdded(f[i - 1], q[i]) BY <2>1
  <2>3. ASSUME NEW i \in 0..(n + 1)
        PROVE  g[i] = IF i = 0 THEN <<>> ELSE TurnAdded(g[i - 1], q[i])
    <3>1. CASE i = n + 1 BY <3>1
    <3>2. CASE i # n + 1
      <4>1. i \in 0..n BY <3>2
      <4>2. g[i] = f[i] BY <3>2
      <4>3. i # 0 => i - 1 \in 0..(n + 1) /\ i - 1 # n + 1 BY <4>1
      <4>4. i # 0 => g[i - 1] = f[i - 1] BY <4>3
      <4> HIDE DEF g
      <4> QED BY <2>2, <4>1, <4>2, <4>4
    <3> QED BY <3>1, <3>2
  <2>4. Fun(n + 1, g) BY <2>3
  <2>5. \E h : Fun(n + 1, h)
    <3> HIDE DEF g, Fun
    <3> QED BY <2>4
  <2> HIDE DEF Fun
  <2> QED BY <2>5
<1>3. Len(q) \in S
  <2> HIDE DEF S
  <2> QED BY <1>1, <1>2, Induction
<1>4. \E f : Fun(Len(q), f) BY <1>3
<1>5. Fun(Len(q), CHOOSE f : Fun(Len(q), f))
  <2> HIDE DEF Fun
  <2> QED BY <1>4
<1>6. Rendered(q) = (CHOOSE f : Fun(Len(q), f))[Len(q)] BY DEF Rendered
<1> QED BY <1>5, <1>6 DEF RenderSteps

\* No messages, no turns.
LEMMA RenderedNone == Rendered(<<>>) = <<>>
<1>1. Len(<<>>) = 0 OBVIOUS
<1>2. PICK h : RenderSteps(<<>>, 0, h) /\ Rendered(<<>>) = h[0] BY <1>1, RenderDefined
<1>3. 0 \in 0..0 OBVIOUS
<1>4. h[0] = <<>> BY <1>2, <1>3 DEF RenderSteps
<1> QED BY <1>2, <1>4

\* A message is rendered after those before it, whatever follows.
LEMMA RenderedMore ==
  ASSUME NEW S, NEW q \in Seq(S), NEW m \in S
  PROVE  Rendered(Append(q, m)) = TurnAdded(Rendered(q), m)
<1>1. PICK n \in Nat : n = Len(q) BY LenProperties
<1>2. PICK r : r = Append(q, m) OBVIOUS
<1>3. Len(r) = n + 1 /\ r[n + 1] = m /\ \A i \in 1..n : r[i] = q[i] BY <1>1, <1>2, AppendProperties
<1>4. PICK f : RenderSteps(q, n, f) /\ Rendered(q) = f[n] BY <1>1, RenderDefined
<1>5. Len(r) \in Nat BY <1>1, <1>3
<1>6. PICK g : RenderSteps(r, n + 1, g) /\ Rendered(r) = g[n + 1] BY <1>3, <1>5, RenderDefined
<1>7. \A i \in 0..n : f[i] = IF i = 0 THEN <<>> ELSE TurnAdded(f[i - 1], q[i])
  BY <1>4 DEF RenderSteps
<1>8. \A i \in 0..(n + 1) : g[i] = IF i = 0 THEN <<>> ELSE TurnAdded(g[i - 1], r[i])
  BY <1>6 DEF RenderSteps
<1>9. PICK T : T = {i \in Nat : i <= n => g[i] = f[i]} OBVIOUS
<1>10. 0 \in T
  <2>1. 0 \in 0..n /\ 0 \in 0..(n + 1) OBVIOUS
  <2> QED BY <1>7, <1>8, <1>9, <2>1
<1>11. ASSUME NEW i \in Nat, i \in T PROVE i + 1 \in T
  <2> SUFFICES ASSUME i + 1 <= n PROVE g[i + 1] = f[i + 1] BY <1>9
  <2>1. i + 1 \in 0..n /\ i + 1 \in 0..(n + 1) /\ i + 1 # 0 /\ (i + 1) - 1 = i /\ i + 1 \in 1..n /\ i <= n OBVIOUS
  <2>2. g[i] = f[i] /\ r[i + 1] = q[i + 1] BY <1>3, <1>9, <1>11, <2>1
  <2>3. g[i + 1] = TurnAdded(g[i], r[i + 1]) BY <1>8, <2>1
  <2>4. f[i + 1] = TurnAdded(f[i], q[i + 1]) BY <1>7, <2>1
  <2> QED BY <2>2, <2>3, <2>4
<1>12. n \in T BY <1>10, <1>11, Induction
<1>13. g[n] = f[n] BY <1>9, <1>12
<1>14. n + 1 \in 0..(n + 1) /\ n + 1 # 0 /\ (n + 1) - 1 = n OBVIOUS
<1>15. g[n + 1] = TurnAdded(g[n], r[n + 1]) BY <1>8, <1>14
<1> QED BY <1>2, <1>3, <1>4, <1>6, <1>13, <1>15

\* The calls still open, when one more message comes.
LEMMA OpenMore ==
  ASSUME NEW q \in Seq(Messages), NEW m \in Messages, OpenCalls(q) \in Nat, (m.role = "tool") => OpenCalls(q) > 0
  PROVE  OpenCalls(Append(q, m)) = IF m.role = "assistant" THEN m.calls
                                   ELSE IF m.role = "tool" THEN OpenCalls(q) - 1 ELSE OpenCalls(q)
<1>1. PICK n \in Nat : n = Len(q) BY LenProperties
<1>2. PICK r : r = Append(q, m) OBVIOUS
<1>3. Len(r) = n + 1 /\ r[n + 1] = m /\ (\A i \in 1..n : r[i] = q[i]) /\ DOMAIN q = 1..n /\ DOMAIN r = 1..(n + 1)
  BY <1>1, <1>2, AppendProperties
<1>4. PICK A, B : A = {i \in 1..n : q[i].role = "assistant"} /\ B = {i \in 1..(n + 1) : r[i].role = "assistant"}
  OBVIOUS
<1>5. \A i \in 1..(n + 1) : i \in 1..n \/ i = n + 1 OBVIOUS
<1>6. n + 1 \in 1..(n + 1) /\ \A i \in 1..n : i \in 1..(n + 1) /\ i < n + 1 OBVIOUS
<1>7. B = IF m.role = "assistant" THEN A \cup {n + 1} ELSE A
  <2>1. CASE m.role = "assistant" BY <1>3, <1>4, <1>5, <1>6, <2>1
  <2>2. CASE m.role # "assistant" BY <1>3, <1>4, <1>5, <1>6, <2>2
  <2> QED BY <2>1, <2>2
<1>8. ASSUME NEW a, a = (CHOOSE i \in A : \A j \in A : j <= i)
      PROVE  OpenCalls(q) = IF A = {} THEN 0 ELSE q[a].calls - Cardinality({i \in a..n : q[i].role = "tool"})
  BY <1>1, <1>3, <1>4, <1>8 DEF OpenCalls
<1>9. ASSUME NEW b, b = (CHOOSE i \in B : \A j \in B : j <= i)
      PROVE  OpenCalls(r) = IF B = {} THEN 0
                            ELSE r[b].calls - Cardinality({i \in b..(n + 1) : r[i].role = "tool"})
  BY <1>3, <1>4, <1>9 DEF OpenCalls
<1>10. CASE m.role = "assistant"
  <2>1. (CHOOSE i \in B : \A j \in B : j <= i) = n + 1
    <3>1. n + 1 \in B /\ \A j \in B : j <= n + 1 BY <1>4, <1>5, <1>6, <1>7, <1>10
    <3>2. ASSUME NEW i \in B, \A j \in B : j <= i PROVE i = n + 1
      <4>1. n + 1 <= i /\ i <= n + 1 /\ i \in Nat BY <1>4, <3>1, <3>2
      <4> QED BY <4>1
    <3> QED BY <3>1, <3>2
  <2>2. PICK Z : Z = {i \in (n + 1)..(n + 1) : r[i].role = "tool"} OBVIOUS
  <2>3. Z = {} BY <1>3, <1>10, <2>2
  <2>4. Cardinality(Z) = 0 BY <2>3, FS_EmptySet
  <2>5. B # {} BY <1>7, <1>10
  <2>6. OpenCalls(r) = r[n + 1].calls - Cardinality(Z) BY <1>9, <2>1, <2>2, <2>5
  <2>7. m.calls \in Nat BY DEF Messages
  <2> QED BY <1>2, <1>3, <1>10, <2>4, <2>6, <2>7
<1>11. CASE m.role # "assistant"
  <2>1. B = A BY <1>7, <1>11
  <2>2. PICK a : a = (CHOOSE i \in A : \A j \in A : j <= i) OBVIOUS
  <2>3. CASE A = {}
    <3>1. OpenCalls(q) = 0 BY <1>8, <2>2, <2>3
    <3>2. OpenCalls(r) = 0 BY <1>9, <2>1, <2>2, <2>3
    <3>3. m.role # "tool" BY <3>1
    <3> QED BY <1>2, <1>11, <3>1, <3>2, <3>3
  <2>4. CASE A # {}
    <3>1. a \in A
      <4>1. A \in SUBSET (1..n) BY <1>4
      <4>2. PICK T : T = {k \in 0..n : n - k \in A} OBVIOUS
      <4>3. T \in SUBSET Nat /\ T # {}
        <5>1. PICK k \in A : TRUE BY <2>4
        <5>2. n - k \in 0..n /\ n - (n - k) = k BY <4>1
        <5> QED BY <4>2, <5>1, <5>2
      <4>4. PICK x \in T : \A k \in T : x <= k BY <4>3, LeastNatural
      <4>5. n - x \in A /\ x \in 0..n BY <4>2, <4>4
      <4>6. ASSUME NEW k \in A PROVE k <= n - x
        <5>1. n - k \in 0..n /\ n - (n - k) = k BY <4>1
        <5>2. x <= n - k BY <4>2, <4>4, <5>1
        <5> QED BY <4>1, <4>5, <5>2
      <4> QED BY <2>2, <4>5, <4>6
    <3>2. a \in 1..n /\ r[a] = q[a] BY <1>3, <1>4, <3>1
    <3>3. PICK U, V : U = {i \in a..n : q[i].role = "tool"} /\ V = {i \in a..(n + 1) : r[i].role = "tool"} OBVIOUS
    <3>4. OpenCalls(q) = q[a].calls - Cardinality(U) BY <1>8, <2>2, <2>4, <3>3
    <3>5. OpenCalls(r) = q[a].calls - Cardinality(V) BY <1>9, <2>1, <2>2, <2>4, <3>2, <3>3
    <3>6. U \in SUBSET (1..n) /\ IsFiniteSet(U)
      <4>1. U \in SUBSET (1..n) BY <3>2, <3>3
      <4> QED BY <4>1, PlacesFinite
    <3>7. V = IF m.role = "tool" THEN U \cup {n + 1} ELSE U
      <4>1. \A i \in a..(n + 1) : i \in a..n \/ i = n + 1 BY <3>2
      <4>2. n + 1 \in a..(n + 1) /\ \A i \in a..n : i \in a..(n + 1) /\ i \in 1..n BY <3>2
      <4>3. CASE m.role = "tool" BY <1>3, <3>3, <4>1, <4>2, <4>3
      <4>4. CASE m.role # "tool" BY <1>3, <3>3, <4>1, <4>2, <4>4
      <4> QED BY <4>3, <4>4
    <3>8. n + 1 \notin U BY <3>6
    <3>9. Cardinality(U) \in Nat /\ Cardinality(U \cup {n + 1}) = Cardinality(U) + 1
      BY <3>6, <3>8, FS_CardinalityType, FS_AddElement
    <3>10. q[a].calls \in Int
      <4>1. q[a] \in Messages BY <1>1, <3>2, ElementOfSeq
      <4> QED BY <4>1 DEF Messages
    <3>11. CASE m.role = "tool"
      <4>1. Cardinality(V) = Cardinality(U) + 1 BY <3>7, <3>9, <3>11
      <4>2. OpenCalls(r) = OpenCalls(q) - 1 BY <3>4, <3>5, <3>9, <3>10, <4>1
      <4> QED BY <1>2, <3>11, <4>2
    <3>12. CASE m.role # "tool"
      <4>1. V = U BY <3>7, <3>12
      <4> QED BY <1>2, <1>11, <3>4, <3>5, <3>12, <4>1
    <3> QED BY <3>11, <3>12
  <2> QED BY <2>3, <2>4
<1> QED BY <1>10, <1>11

\* What a turn asks and tells: the text and calls of a reply, one result, the closing text.
LEMMA TurnContents ==
  ASSUME NEW role, NEW k \in Nat
  PROVE  /\ <<"text">> \o [c \in 1..k |-> "call"] \in Seq(Items)
         /\ AskedBy(Turn(role, <<"text">> \o [c \in 1..k |-> "call"])) = k
         /\ <<"result">> \in Seq(Items) /\ <<"result">> \in Seq({"result"})
         /\ AskedBy(Turn(role, <<"text">>)) = 0 /\ <<"text">> \in Seq(Items)
<1>1. PICK t, w : t = <<"text">> /\ w = [c \in 1..k |-> "call"] OBVIOUS
<1>2. t \in Seq(Items) /\ Len(t) = 1 /\ t[1] = "text" BY <1>1 DEF Items
<1>3. w \in Seq(Items) /\ Len(w) = k /\ \A i \in 1..k : w[i] = "call"
  <2>1. w \in [1..k -> Items] BY <1>1 DEF Items
  <2> QED BY <1>1, <2>1
<1>4. PICK s : s = t \o w OBVIOUS
<1>5. s \in Seq(Items) /\ Len(s) = 1 + k /\ \A i \in 1..(1 + k) : s[i] = IF i <= 1 THEN t[i] ELSE w[i - 1]
  <2>1. t \in Seq(Items) /\ w \in Seq(Items) BY <1>2, <1>3
  <2>2. /\ t \o w \in Seq(Items) /\ Len(t \o w) = Len(t) + Len(w)
        /\ \A i \in 1..(Len(t) + Len(w)) : (t \o w)[i] = IF i <= Len(t) THEN t[i] ELSE w[i - Len(t)]
    BY ONLY <2>1, ConcatProperties
  <2> QED BY <1>2, <1>3, <1>4, <2>2
<1>6. PICK C : C = {i \in 1..(1 + k) : s[i] = "call"} OBVIOUS
<1>7. C = 2..(1 + k)
  <2>1. ASSUME NEW i \in 1..(1 + k) PROVE s[i] = "call" <=> i >= 2
    <3>1. CASE i = 1 BY <1>2, <1>5, <3>1
    <3>2. CASE i # 1
      <4>1. i - 1 \in 1..k /\ i >= 2 /\ ~(i <= 1) BY <3>2
      <4> QED BY <1>3, <1>5, <4>1
    <3> QED BY <3>1, <3>2
  <2> QED BY <1>6, <2>1
<1>8. Cardinality(C) = k BY <1>7, FS_Interval
<1>9. Turn(role, s).items = s BY DEF Turn
<1>10. DOMAIN s = 1..(1 + k) BY <1>5, LenProperties
<1>11. AskedBy(Turn(role, s)) = k BY <1>6, <1>8, <1>9, <1>10 DEF AskedBy, ItemsOf
<1>12. <<"result">> \in Seq(Items) /\ <<"result">> \in Seq({"result"}) BY DEF Items
<1>13. AskedBy(Turn(role, t)) = 0
  <2>1. Turn(role, t).items = t BY DEF Turn
  <2>2. DOMAIN t = 1..1 BY <1>1
  <2>3. ItemsOf(Turn(role, t), "call") = {} BY <1>2, <2>1, <2>2 DEF ItemsOf
  <2> QED BY <2>3, FS_EmptySet DEF AskedBy
<1> QED BY <1>1, <1>2, <1>4, <1>5, <1>11, <1>12, <1>13

\* A turn of results only tells as many results as it has items.
LEMMA ResultsOnly ==
  ASSUME NEW role, NEW s \in Seq({"result"})
  PROVE  AskedBy(Turn(role, s)) = 0 /\ ToldBy(Turn(role, s)) = Len(s)
<1>1. Turn(role, s).items = s /\ DOMAIN s = 1..Len(s) /\ Len(s) \in Nat BY LenProperties DEF Turn
<1>2. \A i \in 1..Len(s) : s[i] = "result" BY ElementOfSeq
<1>3. ItemsOf(Turn(role, s), "call") = {} BY <1>1, <1>2 DEF ItemsOf
<1>4. ItemsOf(Turn(role, s), "result") = 1..Len(s) BY <1>1, <1>2 DEF ItemsOf
<1>5. Cardinality(1..Len(s)) = Len(s) BY <1>1, FS_Interval
<1> QED BY <1>3, <1>4, <1>5, FS_EmptySet DEF AskedBy, ToldBy

\* Turns t of a transcript with o calls still open: the calls of a turn are answered by the next turn,
\* and what is open is what the last reply asked less the results that follow it.
AnsweredAt(t, n, o, i) ==
    AskedBy(t[i]) > 0 =>
      IF i = n THEN o = AskedBy(t[i])
      ELSE t[i + 1].role = "user" /\ ToldBy(t[i + 1]) = AskedBy(t[i]) - (IF i = n - 1 THEN o ELSE 0)
Opened(t, n, o) ==
    o > 0 => /\ n > 0
             /\ \/ t[n].role = "assistant" /\ AskedBy(t[n]) = o
                \/ t[n].role = "user" /\ t[n].items \in Seq({"result"})
Answered(t, o) ==
    /\ t \in Seq(TurnShape) /\ o \in Nat
    /\ \A i \in 1..Len(t) : AnsweredAt(t, Len(t), o, i)
    /\ Opened(t, Len(t), o)

\* A turn is what its role and its items are.
LEMMA TurnIs ==
  ASSUME NEW turn \in TurnShape
  PROVE  turn = Turn(turn.role, turn.items) /\ AskedBy(turn) \in Nat /\ ToldBy(turn) \in Nat
<1>1. turn = Turn(turn.role, turn.items) /\ turn.items \in Seq(Items) BY DEF TurnShape, Turn
<1>2. DOMAIN turn.items = 1..Len(turn.items) /\ Len(turn.items) \in Nat BY <1>1, LenProperties
<1>3. \A what : ItemsOf(turn, what) \in SUBSET (1..Len(turn.items)) BY <1>2 DEF ItemsOf
<1>4. \A what : IsFiniteSet(ItemsOf(turn, what)) BY <1>2, <1>3, PlacesFinite
<1> QED BY <1>1, <1>4, FS_CardinalityType DEF AskedBy, ToldBy

\* A turn is added where no call is open, or where it is the first result of the last reply.
LEMMA TurnJoins ==
  ASSUME NEW t, NEW o, Answered(t, o), NEW turn \in TurnShape, NEW p,
         \/ o = 0 /\ p = AskedBy(turn) /\ (p > 0 => turn.role = "assistant")
         \/ /\ o > 0 /\ p = o - 1 /\ turn.role = "user" /\ turn.items = <<"result">>
            /\ t[Len(t)].role = "assistant" /\ AskedBy(t[Len(t)]) = o
  PROVE  Answered(Append(t, turn), p)
<1>1. t \in Seq(TurnShape) /\ o \in Nat /\ \A i \in 1..Len(t) : AnsweredAt(t, Len(t), o, i) BY DEF Answered
<1>2. PICK n \in Nat : n = Len(t) BY <1>1, LenProperties
<1>3. PICK r : r = Append(t, turn) OBVIOUS
<1>4. r \in Seq(TurnShape) /\ Len(r) = n + 1 /\ r[n + 1] = turn /\ \A i \in 1..n : r[i] = t[i]
  BY <1>1, <1>2, <1>3, AppendProperties
<1>5. AskedBy(turn) \in Nat /\ ToldBy(turn) \in Nat BY TurnIs
<1>6. p \in Nat BY <1>1, <1>5
<1>7. \A i \in 1..n : t[i] \in TurnShape /\ AskedBy(t[i]) \in Nat BY <1>1, <1>2, ElementOfSeq, TurnIs
<1>8. turn.items = <<"result">> => AskedBy(turn) = 0 /\ ToldBy(turn) = 1 /\ turn.items \in Seq({"result"})
  <2> SUFFICES ASSUME turn.items = <<"result">> PROVE AskedBy(turn) = 0 /\ ToldBy(turn) = 1 /\ turn.items \in Seq({"result"})
    OBVIOUS
  <2>1. PICK s : s = <<"result">> OBVIOUS
  <2>2. s \in Seq({"result"}) /\ Len(s) = 1 BY <2>1
  <2>3. turn = Turn(turn.role, s) BY <2>1, TurnIs
  <2>4. AskedBy(Turn(turn.role, s)) = 0 /\ ToldBy(Turn(turn.role, s)) = 1 BY <2>2, ResultsOnly
  <2> QED BY <2>1, <2>2, <2>3, <2>4
<1>9. ASSUME NEW i \in 1..(n + 1) PROVE AnsweredAt(r, n + 1, p, i)
  <2>1. CASE i = n + 1
    <3>1. AskedBy(turn) > 0 => p = AskedBy(turn) BY <1>5, <1>8
    <3> QED BY <1>4, <2>1, <3>1 DEF AnsweredAt
  <2>2. CASE i = n
    <3>1. i \in 1..n /\ r[i] = t[i] /\ r[i + 1] = turn /\ i # n + 1 /\ i = (n + 1) - 1 BY <1>4, <2>2
    <3>2. AskedBy(t[n]) > 0 => o = AskedBy(t[n]) BY <1>1, <1>2, <2>2, <3>1 DEF AnsweredAt
    <3>3. CASE o = 0
      <4>1. ~(AskedBy(t[n]) > 0) BY <1>1, <3>2, <3>3
      <4> QED BY <2>2, <3>1, <4>1 DEF AnsweredAt
    <3>4. CASE o > 0
      <4>1. /\ p = o - 1 /\ turn.role = "user" /\ ToldBy(turn) = 1 /\ AskedBy(t[n]) = o BY <1>2, <1>8, <3>4
      <4>2. ToldBy(turn) = AskedBy(t[n]) - p BY <1>1, <4>1
      <4> QED BY <2>2, <3>1, <4>1, <4>2 DEF AnsweredAt
    <3> QED BY <1>1, <3>3, <3>4
  <2>3. CASE i < n
    <3>1. /\ i \in 1..n /\ i + 1 \in 1..n /\ i # n /\ i # n + 1 /\ i # (n + 1) - 1
          /\ r[i] = t[i] /\ r[i + 1] = t[i + 1]
      BY <1>4, <2>3
    <3>2. AskedBy(t[i]) > 0 => t[i + 1].role = "user" /\ ToldBy(t[i + 1]) = AskedBy(t[i]) - (IF i = n - 1 THEN o ELSE 0)
      BY <1>1, <1>2, <3>1 DEF AnsweredAt
    <3>3. AskedBy(t[i]) > 0 => t[i + 1].role = "user" /\ ToldBy(t[i + 1]) = AskedBy(t[i]) - 0
      <4> SUFFICES ASSUME AskedBy(t[i]) > 0 PROVE t[i + 1].role = "user" /\ ToldBy(t[i + 1]) = AskedBy(t[i]) - 0 OBVIOUS
      <4>1. CASE i # n - 1 BY <3>2, <4>1
      <4>2. CASE i = n - 1
        <5>1. i + 1 = n /\ t[n].role = "user" BY <3>2, <4>2
        <5>2. o = 0 BY <1>2, <5>1
        <5> QED BY <3>2, <4>2, <5>2
      <4> QED BY <4>1, <4>2
    <3> QED BY <3>1, <3>3 DEF AnsweredAt
  <2> QED BY <2>1, <2>2, <2>3
<1>10. Opened(r, n + 1, p)
  <2> SUFFICES ASSUME p > 0
               PROVE  \/ turn.role = "assistant" /\ AskedBy(turn) = p
                      \/ turn.role = "user" /\ turn.items \in Seq({"result"})
    BY <1>4 DEF Opened
  <2> QED BY <1>8
<1> QED BY <1>3, <1>4, <1>6, <1>9, <1>10 DEF Answered

\* A further result goes into the turn of results.
LEMMA ResultJoins ==
  ASSUME NEW t, NEW o, Answered(t, o), o > 0, t[Len(t)].role = "user", NEW told, told = t[Len(t)].items,
         told \in Seq({"result"}), NEW r, r = [t EXCEPT ![Len(t)].items = Append(@, "result")]
  PROVE  Answered(r, o - 1)
<1>1. t \in Seq(TurnShape) /\ o \in Nat /\ \A i \in 1..Len(t) : AnsweredAt(t, Len(t), o, i) BY DEF Answered
<1>2. PICK n \in Nat : n = Len(t) BY <1>1, LenProperties
<1>3. n > 0 /\ n \in 1..n BY <1>2 DEF Answered, Opened
<1>4. t[n] \in TurnShape BY <1>1, <1>2, <1>3, ElementOfSeq
<1>5. PICK more : more = Append(told, "result") OBVIOUS
<1>6. more \in Seq({"result"}) /\ Len(more) = Len(told) + 1 /\ Len(told) \in Nat
  <2>1. "result" \in {"result"} OBVIOUS
  <2> QED BY <1>5, <2>1, AppendProperties, LenProperties
<1>7. PICK turn : turn = Turn("user", more) OBVIOUS
<1>8. turn \in TurnShape
  <2>1. more \in Seq(Items)
    <3>1. {"result"} \subseteq Items BY DEF Items
    <3> QED BY <1>6, <3>1, SeqMonotonic
  <2> QED BY <1>7, <2>1 DEF TurnShape, Turn
<1>9. t[n] = Turn("user", told) BY <1>2, <1>4, TurnIs
<1>10. [t[n] EXCEPT !.items = Append(@, "result")] = turn
  <2>1. PICK e : e = t[n] OBVIOUS
  <2>2. e = [role |-> "user", items |-> told] BY <1>9, <2>1 DEF Turn
  <2>3. e.items = told BY <2>2
  <2>4. [e EXCEPT !.items = more] = [role |-> "user", items |-> more] BY <2>2
  <2>5. turn = [role |-> "user", items |-> more] BY <1>7 DEF Turn
  <2> QED BY <1>5, <2>1, <2>3, <2>4, <2>5
<1>11. r = [t EXCEPT ![n] = turn]
  <2>1. r = [t EXCEPT ![n] = [t[n] EXCEPT !.items = Append(@, "result")]] BY <1>2
  <2> QED BY <1>10, <2>1
<1>12. r \in Seq(TurnShape) /\ Len(r) = n /\ \A j \in 1..n : r[j] = IF j = n THEN turn ELSE t[j]
  <2>1. t \in Seq(TurnShape) /\ n \in 1..Len(t) BY <1>1, <1>2, <1>3
  <2>2. PICK s : s = [t EXCEPT ![n] = turn] OBVIOUS
  <2>3. s \in Seq(TurnShape) /\ Len(s) = Len(t) /\ \A j \in 1..Len(t) : s[j] = IF j = n THEN turn ELSE t[j]
    BY ONLY <1>8, <2>1, <2>2, ExceptSeq
  <2> QED BY <1>2, <1>11, <2>2, <2>3
<1>13. AskedBy(turn) = 0 /\ ToldBy(turn) = Len(told) + 1 BY <1>6, <1>7, ResultsOnly
<1>14. AskedBy(t[n]) = 0 /\ ToldBy(t[n]) = Len(told) BY <1>9, ResultsOnly
<1>15. o - 1 \in Nat BY <1>1
<1>16. ASSUME NEW i \in 1..n PROVE AnsweredAt(r, n, o - 1, i)
  <2>1. CASE i = n
    <3>1. r[i] = turn BY <1>12, <2>1
    <3>2. AskedBy(r[i]) = 0 BY <1>13, <3>1
    <3>3. ~(AskedBy(r[i]) > 0) BY ONLY <3>2
    <3> QED BY <3>3 DEF AnsweredAt
  <2>2. CASE i = n - 1
    <3>1. i # n /\ i + 1 = n /\ r[i] = t[i] /\ r[i + 1] = turn BY <1>3, <1>12, <2>2
    <3>2. AskedBy(t[i]) > 0 => ToldBy(t[n]) = AskedBy(t[i]) - o BY <1>1, <1>2, <2>2, <3>1 DEF AnsweredAt
    <3>3. AskedBy(t[i]) \in Nat BY <1>1, <1>2, ElementOfSeq, TurnIs
    <3>4. AskedBy(t[i]) > 0 => ToldBy(turn) = AskedBy(t[i]) - (o - 1)
      BY <1>1, <1>6, <1>13, <1>14, <3>2, <3>3
    <3>5. turn.role = "user" BY <1>7 DEF Turn
    <3> QED BY <2>2, <3>1, <3>4, <3>5 DEF AnsweredAt
  <2>3. CASE i < n - 1
    <3>1. i # n /\ i # n - 1 /\ i + 1 # n /\ i + 1 \in 1..n /\ r[i] = t[i] /\ r[i + 1] = t[i + 1] BY <1>12, <2>3
    <3>2. AnsweredAt(t, n, o, i) BY <1>1, <1>2
    <3> QED BY <3>1, <3>2 DEF AnsweredAt
  <2> QED BY <2>1, <2>2, <2>3
<1>17. Opened(r, n, o - 1)
  <2>1. r[n] = turn /\ turn.role = "user" /\ turn.items = more BY <1>3, <1>7, <1>12 DEF Turn
  <2> QED BY <1>3, <1>6, <2>1 DEF Opened
<1> QED BY <1>12, <1>15, <1>16, <1>17 DEF Answered

\* One more message of a transcript in which calls are answered before anything else (AddMessage).
LEMMA MessageAnswered ==
  ASSUME NEW t, NEW o, Answered(t, o), NEW m \in Messages, m.calls > 0 => m.role = "assistant",
         (m.role = "tool") = (o > 0), NEW p,
         p = IF m.role = "assistant" THEN m.calls ELSE IF m.role = "tool" THEN o - 1 ELSE o
  PROVE  Answered(TurnAdded(t, m), p)
<1>1. t \in Seq(TurnShape) /\ o \in Nat /\ Opened(t, Len(t), o) BY DEF Answered
<1>2. m.role \in Roles /\ m.calls \in Nat BY DEF Messages
<1>3. PICK n \in Nat : n = Len(t) BY <1>1, LenProperties
<1>4. CASE m.role = "system"
  <2>1. TurnAdded(t, m) = t /\ p = o BY <1>4 DEF TurnAdded
  <2> QED BY <2>1
<1>5. CASE m.role \in {"user", "assistant"}
  <2>1. o = 0 BY <1>1, <1>5
  <2>2. PICK told : told = <<"text">> \o [c \in 1..m.calls |-> "call"] OBVIOUS
  <2>3. PICK turn : turn = Turn(m.role, told) OBVIOUS
  <2>4. told \in Seq(Items) /\ AskedBy(turn) = m.calls BY <1>2, <2>2, <2>3, TurnContents
  <2>5. turn \in TurnShape /\ turn.role = m.role BY <1>5, <2>3, <2>4 DEF TurnShape, Turn
  <2>6. p = AskedBy(turn) BY <1>2, <1>5, <2>1, <2>4
  <2>7. p > 0 => turn.role = "assistant" BY <2>4, <2>5, <2>6
  <2>8. TurnAdded(t, m) = Append(t, turn) BY <1>5, <2>2, <2>3 DEF TurnAdded
  <2>9. Answered(Append(t, turn), p) BY <2>1, <2>5, <2>6, <2>7, TurnJoins
  <2> QED BY <2>8, <2>9
<1>6. CASE m.role = "tool"
  <2>1. o > 0 /\ p = o - 1 BY <1>6
  <2>2. /\ n > 0
        /\ \/ t[n].role = "assistant" /\ AskedBy(t[n]) = o
           \/ t[n].role = "user" /\ t[n].items \in Seq({"result"})
    BY <1>1, <1>3, <2>1 DEF Opened
  <2>3. t # <<>>
    <3>1. Len(t) # 0 BY <1>3, <2>2
    <3> QED BY <1>1, <3>1, EmptySeq
  <2>4. Last(t) = t[n] BY <1>3 DEF Last
  <2>5. CASE t[n].role = "assistant" /\ AskedBy(t[n]) = o
    <3>1. ~MergesResult(t) BY <2>4, <2>5 DEF MergesResult
    <3>2. PICK told : told = <<"result">> OBVIOUS
    <3>3. PICK turn : turn = Turn("user", told) OBVIOUS
    <3>4. told \in Seq(Items) BY <3>2, TurnContents
    <3>5. turn \in TurnShape /\ turn.role = "user" /\ turn.items = told BY <3>3, <3>4 DEF TurnShape, Turn
    <3>6. TurnAdded(t, m) = Append(t, turn) BY <1>6, <3>1, <3>2, <3>3 DEF TurnAdded
    <3>7. Answered(Append(t, turn), p) BY <1>3, <2>1, <2>5, <3>2, <3>5, TurnJoins
    <3> QED BY <3>6, <3>7
  <2>6. CASE t[n].role = "user" /\ t[n].items \in Seq({"result"})
    <3>1. PICK told : told = t[n].items OBVIOUS
    <3>2. told \in Seq({"result"}) BY <2>6, <3>1
    <3>3. \A i \in DOMAIN told : told[i] = "result" BY <3>2, ElementOfSeq, LenProperties
    <3>4. MergesResult(t) BY <2>3, <2>4, <2>6, <3>1, <3>3 DEF MergesResult
    <3>5. PICK r : r = [t EXCEPT ![Len(t)].items = Append(@, "result")] OBVIOUS
    <3>6. TurnAdded(t, m) = r BY <1>6, <3>4, <3>5 DEF TurnAdded
    <3>7. Answered(r, o - 1) BY <1>3, <2>1, <2>6, <3>1, <3>2, <3>5, ResultJoins
    <3> QED BY <2>1, <3>6, <3>7
  <2> QED BY <2>2, <2>5, <2>6
<1> QED BY <1>2, <1>4, <1>5, <1>6 DEF Roles

\* A transcript without open calls, as it is sent: its calls are answered in the next turn, and it ends
\* with the user.
PaidOut(turns) ==
    /\ turns # <<>> => Last(turns).role = "user"
    /\ \A i \in DOMAIN turns : AskedBy(turns[i]) > 0 => i < Len(turns) /\ ToldBy(turns[i + 1]) = AskedBy(turns[i])
LEMMA AnsweredPays ==
  ASSUME NEW q, Answered(Rendered(q), 0)
  PROVE  PaidOut(TurnsOf(q))
<1>1. PICK t : t = Rendered(q) OBVIOUS
<1>2. t \in Seq(TurnShape) /\ (\A i \in 1..Len(t) : AnsweredAt(t, Len(t), 0, i)) BY <1>1 DEF Answered
<1>3. PICK n \in Nat : n = Len(t) BY <1>2, LenProperties
<1>4. \A i \in 1..n : t[i] \in TurnShape /\ AskedBy(t[i]) \in Nat BY <1>2, <1>3, ElementOfSeq, TurnIs
<1>5. ASSUME NEW i \in 1..n, AskedBy(t[i]) > 0 PROVE i < n /\ ToldBy(t[i + 1]) = AskedBy(t[i])
  <2>1. AnsweredAt(t, n, 0, i) BY <1>2, <1>3
  <2>2. i # n BY <1>5, <2>1 DEF AnsweredAt
  <2>3. ToldBy(t[i + 1]) = AskedBy(t[i]) - 0 BY <1>5, <2>1, <2>2 DEF AnsweredAt
  <2> QED BY <1>4, <2>2, <2>3
<1>6. DOMAIN t = 1..n BY <1>2, <1>3, LenProperties
<1>7. CASE t # <<>> /\ Last(t).role = "assistant"
  <2>1. PICK turn : turn = Turn("user", <<"text">>) OBVIOUS
  <2>2. PICK r : r = Append(t, turn) OBVIOUS
  <2>3. TurnsOf(q) = r BY <1>1, <1>7, <2>1, <2>2 DEF TurnsOf
  <2>4. turn \in TurnShape /\ turn.role = "user" /\ AskedBy(turn) = 0
    <3>1. <<"text">> \in Seq(Items) /\ AskedBy(Turn("user", <<"text">>)) = 0
      <4>1. 0 \in Nat OBVIOUS
      <4> QED BY <4>1, TurnContents
    <3> QED BY <2>1, <3>1 DEF TurnShape, Turn
  <2>5. r \in Seq(TurnShape) /\ Len(r) = n + 1 /\ r[n + 1] = turn /\ \A i \in 1..n : r[i] = t[i]
    BY <1>2, <1>3, <2>2, <2>4, AppendProperties
  <2>6. DOMAIN r = 1..(n + 1) BY <2>5, LenProperties
  <2>7. Last(r).role = "user" BY <2>4, <2>5 DEF Last
  <2>8. ASSUME NEW i \in 1..(n + 1), AskedBy(r[i]) > 0 PROVE i < n + 1 /\ ToldBy(r[i + 1]) = AskedBy(r[i])
    <3>1. i # n + 1
      <4> SUFFICES ASSUME i = n + 1 PROVE FALSE OBVIOUS
      <4>1. AskedBy(r[i]) = 0 BY <2>4, <2>5
      <4> QED BY ONLY <2>8, <4>1
    <3>2. i \in 1..n /\ r[i] = t[i] BY <2>5, <3>1
    <3>3. i < n /\ ToldBy(t[i + 1]) = AskedBy(t[i]) BY <1>5, <2>8, <3>2
    <3>4. i + 1 \in 1..n BY <3>2, <3>3
    <3> QED BY <2>5, <3>2, <3>3, <3>4
  <2> QED BY <2>3, <2>5, <2>6, <2>7, <2>8 DEF PaidOut
<1>8. CASE ~(t # <<>> /\ Last(t).role = "assistant")
  <2>1. TurnsOf(q) = t BY <1>1, <1>8 DEF TurnsOf
  <2>2. t # <<>> => Last(t).role = "user"
    <3> SUFFICES ASSUME t # <<>> PROVE Last(t).role = "user" OBVIOUS
    <3>1. n \in 1..n BY <1>2, <1>3, EmptySeq
    <3>2. t[n] \in TurnShape /\ Last(t) = t[n] BY <1>3, <1>4, <3>1 DEF Last
    <3> QED BY <1>8, <3>2 DEF TurnShape
  <2> QED BY <1>3, <1>5, <1>6, <2>1, <2>2 DEF PaidOut
<1> QED BY <1>7, <1>8

-----------------------------------------------------------------------------
(* All of it, step by step.                                                *)

TextChunks == [kind : {"text"}, piece : Pieces]
Hidden(q, f, out) ==
    /\ q \in Seq(TextChunks)
    /\ f = [held |-> f.held, passing |-> f.passing, trim |-> f.trim, all |-> f.all]
    /\ Filtered(Arrived(q), f.held, f.passing, f.trim, out)
Scripted(q) == q \in Seq(Messages) /\ Answered(Rendered(q), OpenCalls(q))
Revealed(q, out) == OpensWith(Arrived(q)) => out = Stripped(Arrived(q))
Streamed(q, g) == q \in Seq(Chunks) /\ Assembled(g, q)
WireInv ==
    /\ AliasInv
    /\ strand \in {"idle", "chunks", "done", "broken"} => Streamed(said, got)
    /\ strand \in {"idle", "text"} => Hidden(said, filter, shown)
    /\ strand = "shown" => Revealed(said, shown)
    /\ strand \in {"idle", "script"} => Scripted(said)

\* A piece of text is the next that arrived.
LEMMA ArrivedMore ==
  ASSUME NEW q \in Seq(TextChunks), NEW p \in Pieces
  PROVE  LET chunk == [kind |-> "text", piece |-> p]
         IN  Append(q, chunk) \in Seq(TextChunks) /\ Arrived(q) \in Seq(Pieces)
             /\ Arrived(Append(q, chunk)) = Append(Arrived(q), p)
<1>1. PICK chunk : chunk = [kind |-> "text", piece |-> p] OBVIOUS
<1>2. chunk \in TextChunks /\ chunk.piece = p BY <1>1 DEF TextChunks
<1>3. PICK n \in Nat : n = Len(q) BY LenProperties
<1>4. PICK r : r = Append(q, chunk) OBVIOUS
<1>5. r \in Seq(TextChunks) /\ Len(r) = n + 1 /\ r[n + 1] = chunk /\ \A i \in 1..n : r[i] = q[i]
  BY <1>2, <1>3, <1>4, AppendProperties
<1>6. DOMAIN q = 1..n /\ DOMAIN r = 1..(n + 1) BY <1>3, <1>5, LenProperties
<1>7. \A i \in 1..n : q[i].piece \in Pieces
  <2>1. \A i \in 1..n : q[i] \in TextChunks BY <1>3, ElementOfSeq
  <2> QED BY <2>1 DEF TextChunks
<1>8. PICK a, b : a = Arrived(q) /\ b = Arrived(r) OBVIOUS
<1>9. a = [i \in 1..n |-> q[i].piece] /\ b = [i \in 1..(n + 1) |-> r[i].piece] BY <1>6, <1>8 DEF Arrived
<1>10. a \in Seq(Pieces) /\ Len(a) = n /\ \A i \in 1..n : a[i] = q[i].piece
  <2>1. a \in [1..n -> Pieces] BY <1>7, <1>9
  <2> QED BY <1>9, <2>1
<1>11. PICK c : c = Append(a, p) OBVIOUS
<1>12. c \in Seq(Pieces) /\ Len(c) = n + 1 /\ c[n + 1] = p /\ \A i \in 1..n : c[i] = a[i]
  BY <1>10, <1>11, AppendProperties
<1>13. \A i \in 1..(n + 1) : b[i] = c[i]
  <2> SUFFICES ASSUME NEW i \in 1..(n + 1) PROVE b[i] = c[i] OBVIOUS
  <2>1. b[i] = r[i].piece BY <1>9
  <2>2. CASE i = n + 1 BY <1>2, <1>5, <1>12, <2>1, <2>2
  <2>3. CASE i \in 1..n BY <1>5, <1>10, <1>12, <2>1, <2>3
  <2> QED BY <2>2, <2>3
<1>14. b \in Seq(Pieces) /\ Len(b) = n + 1
  <2>1. \A i \in 1..(n + 1) : c[i] \in Pieces BY <1>12, ElementOfSeq
  <2>2. b \in [1..(n + 1) -> Pieces] BY <1>9, <1>13, <2>1
  <2> QED BY <1>9, <2>2
<1>15. b = c BY <1>12, <1>13, <1>14, SeqEqual
<1> QED BY <1>1, <1>4, <1>5, <1>8, <1>10, <1>11, <1>15

\* A provider that has seen nothing yet.
LEMMA WireStarts == WireInit => WireInv
<1> SUFFICES ASSUME WireInit PROVE WireInv OBVIOUS
<1>1. /\ wireOf = Empty /\ runtimeOf = Empty /\ said = <<>> /\ strand = "idle" /\ shown = <<>>
      /\ got = [text |-> <<>>, parts |-> Empty, finish |-> "stop", usage |-> 0]
      /\ filter \in [held : {<<>>}, passing : {FALSE}, trim : {FALSE}, all : BOOLEAN]
  BY DEF WireInit
<1>2. DOMAIN Empty = {} BY DEF Empty
<1>3. AliasInv BY <1>1, <1>2 DEF AliasInv
<1>4. DOMAIN <<>> = {} /\ Len(<<>>) = 0 OBVIOUS
<1>5. Streamed(said, got)
  <2>1. <<>> \in Seq(Chunks) OBVIOUS
  <2>2. \A kind : KindAt(<<>>, kind) = {} BY <1>4 DEF KindAt
  <2>3. \A i : CallAt(<<>>, i) = {} BY <2>2 DEF CallAt
  <2>4. PiecesAt(<<>>, {}) = <<>> BY PiecesNone
  <2>5. Parts(<<>>, <<>>, Empty, "stop", 0) BY <1>2, <2>2, <2>3, <2>4 DEF Parts
  <2>6. got.text = <<>> /\ got.parts = Empty /\ got.finish = "stop" /\ got.usage = 0 BY <1>1
  <2>7. Assembled(got, <<>>) BY <1>1, <2>5, <2>6 DEF Assembled
  <2> QED BY <1>1, <2>1, <2>7 DEF Streamed
<1>6. Hidden(said, filter, shown)
  <2>1. <<>> \in Seq(TextChunks) /\ <<>> \in Seq(Pieces) OBVIOUS
  <2>2. Arrived(<<>>) = <<>> BY <1>4 DEF Arrived
  <2>3. filter.held = <<>> /\ filter.passing = FALSE /\ filter.trim = FALSE BY <1>1
  <2>4. filter = [held |-> filter.held, passing |-> filter.passing, trim |-> filter.trim, all |-> filter.all] BY <1>1
  <2>5. Filtered(<<>>, <<>>, FALSE, FALSE, <<>>) BY <2>1 DEF Filtered
  <2> QED BY <1>1, <2>1, <2>2, <2>3, <2>4, <2>5 DEF Hidden
<1>7. Scripted(said)
  <2>1. <<>> \in Seq(Messages) /\ <<>> \in Seq(TurnShape) OBVIOUS
  <2>2. OpenCalls(<<>>) = 0 BY <1>4 DEF OpenCalls
  <2>3. Rendered(<<>>) = <<>> BY RenderedNone
  <2>4. Answered(<<>>, 0)
    <3>1. 0 \in Nat /\ \A i \in 1..0 : FALSE OBVIOUS
    <3> QED BY <1>4, <2>1, <3>1 DEF Answered, Opened
  <2> QED BY <1>1, <2>1, <2>2, <2>3, <2>4 DEF Scripted
<1> QED BY <1>1, <1>3, <1>5, <1>6, <1>7 DEF WireInv

\* A piece of text (feed) keeps what is shown to what may be shown.
LEMMA FeedHides ==
  ASSUME Hidden(said, filter, shown), NEW piece \in Pieces, Feed(piece)
  PROVE  Hidden(said', filter', shown')
<1>1. PICK a : a = Arrived(said) OBVIOUS
<1>2. PICK held, passing, trim, all :
        filter = [held |-> held, passing |-> passing, trim |-> trim, all |-> all]
  BY DEF Hidden
<1>3. filter.held = held /\ filter.passing = passing /\ filter.trim = trim /\ filter.all = all BY <1>2
<1>4. said \in Seq(TextChunks) /\ Filtered(a, held, passing, trim, shown) BY <1>1, <1>3 DEF Hidden
<1>5. PICK b : b = Append(a, piece) OBVIOUS
<1>6. said' \in Seq(TextChunks) /\ Arrived(said') = b /\ a \in Seq(Pieces)
  <2>1. said' = Append(said, [kind |-> "text", piece |-> piece]) BY DEF Feed
  <2> QED BY <1>1, <1>4, <1>5, <2>1, ArrivedMore
<1>7. passing \in BOOLEAN /\ trim \in BOOLEAN BY <1>4 DEF Filtered
<1>8. ASSUME NEW h, NEW x, NEW y, filter' = [held |-> h, passing |-> x, trim |-> y, all |-> all],
             Filtered(b, h, x, y, shown')
      PROVE  Hidden(said', filter', shown')
  <2>1. filter'.held = h /\ filter'.passing = x /\ filter'.trim = y /\ filter'.all = all BY <1>8
  <2> QED BY <1>6, <1>8, <2>1 DEF Hidden
<1>9. CASE passing
  <2>1. PICK more : more = IF trim THEN Trimmed(<<piece>>) ELSE <<piece>> OBVIOUS
  <2>2. PICK y : y = (trim /\ more = <<>>) OBVIOUS
  <2>3. shown' = shown \o more /\ filter' = [held |-> held, passing |-> TRUE, trim |-> y, all |-> all]
    BY <1>3, <1>9, <2>1, <2>2 DEF Feed
  <2>4. passing = TRUE BY <1>7, <1>9
  <2>5. Filtered(a, held, TRUE, trim, shown) BY <1>4, <2>4
  <2>6. Filtered(b, held, TRUE, y, shown \o more) BY <1>5, <2>1, <2>2, <2>5, PassedOn
  <2> QED BY <1>8, <2>3, <2>6
<1>10. CASE ~passing
  <2>1. passing = FALSE BY <1>7, <1>10
  <2>2. Filtered(a, held, FALSE, trim, shown) BY <1>4, <2>1
  <2>3. held = a BY <2>2 DEF Filtered
  <2>4. CASE StillPrivate(Trimmed(b))
    <3>1. shown' = shown /\ filter' = [filter EXCEPT !.held = b] BY <1>3, <1>5, <1>10, <2>3, <2>4 DEF Feed
    <3>2. filter' = [held |-> b, passing |-> FALSE, trim |-> trim, all |-> all] BY <1>2, <2>1, <3>1
    <3>3. b \in Seq(Pieces) BY <1>5, <1>6, AppendProperties
    <3>4. Filtered(b, b, FALSE, trim, shown) BY <2>2, <3>3 DEF Filtered
    <3> QED BY <1>8, <3>1, <3>2, <3>4
  <2>5. CASE ~StillPrivate(Trimmed(b))
    <3>1. PICK more : more = IF OpensWith(Trimmed(b)) THEN Trimmed(Stripped(b)) ELSE Stripped(b) OBVIOUS
    <3>2. PICK y \in BOOLEAN : y <=> OpensWith(Trimmed(b)) /\ more = <<>> OBVIOUS
    <3>3. PICK z : z = (OpensWith(Trimmed(b)) /\ more = <<>>) OBVIOUS
    <3>4. shown' = shown \o more /\ filter' = [held |-> b, passing |-> TRUE, trim |-> z, all |-> all]
      BY <1>3, <1>5, <1>10, <2>3, <2>5, <3>1, <3>3 DEF Feed
    <3>5. y = z BY <3>2, <3>3
    <3>6. Filtered(b, b, TRUE, y, shown \o more) BY <1>5, <2>2, <2>5, <3>1, <3>2, LetThrough
    <3> QED BY <1>8, <3>4, <3>5, <3>6
  <2> QED BY <2>4, <2>5
<1> QED BY <1>9, <1>10

\* One more message of a transcript.
LEMMA MessageScripted ==
  ASSUME Scripted(said), NEW role \in Roles, NEW calls \in 0..2, AddMessage(role, calls)
  PROVE  Scripted(said')
<1>1. PICK m : m = [role |-> role, calls |-> calls] OBVIOUS
<1>2. m \in Messages /\ m.role = role /\ m.calls = calls BY <1>1 DEF Messages
<1>3. said' = Append(said, m) /\ (calls > 0 => role = "assistant") /\ (role = "tool") = (OpenCalls(said) > 0)
  BY <1>1 DEF AddMessage
<1>4. PICK o, t : o = OpenCalls(said) /\ t = Rendered(said) OBVIOUS
<1>5. said \in Seq(Messages) /\ Answered(t, o) BY <1>4 DEF Scripted
<1>6. PICK p : p = IF m.role = "assistant" THEN m.calls ELSE IF m.role = "tool" THEN o - 1 ELSE o OBVIOUS
<1>7. Answered(TurnAdded(t, m), p) BY <1>2, <1>3, <1>4, <1>5, <1>6, MessageAnswered
<1>8. Rendered(said') = TurnAdded(t, m) BY <1>2, <1>3, <1>4, <1>5, RenderedMore
<1>9. OpenCalls(said') = p
  <2>1. o \in Nat BY <1>5 DEF Answered
  <2>2. m.role = "tool" => o > 0 BY <1>2, <1>3, <1>4
  <2> QED BY <1>2, <1>3, <1>4, <1>5, <1>6, <2>1, <2>2, OpenMore
<1>10. said' \in Seq(Messages) BY <1>2, <1>3, <1>5, AppendProperties
<1> QED BY <1>7, <1>8, <1>9, <1>10 DEF Scripted

\* A provider goes from one safe state to the next.
LEMMA WireKept == WireInv /\ [WireNext]_wireVars => WireInv'
<1> SUFFICES ASSUME WireInv, [WireNext]_wireVars PROVE WireInv' OBVIOUS
<1>0. /\ AliasInv
      /\ strand \in {"idle", "chunks", "done", "broken"} => Streamed(said, got)
      /\ strand \in {"idle", "text"} => Hidden(said, filter, shown)
      /\ strand = "shown" => Revealed(said, shown)
      /\ strand \in {"idle", "script"} => Scripted(said)
  BY DEF WireInv
<1>1. UNCHANGED <<wireOf, runtimeOf>> => AliasInv'
  BY <1>0 DEF AliasInv, Plain, Hashed
<1>2. CASE UNCHANGED wireVars
  <2>1. UNCHANGED <<wireOf, runtimeOf, said, got, strand, filter, shown>> BY <1>2 DEF wireVars
  <2>2. AliasInv' BY <1>1, <2>1
  <2> QED BY <1>0, <2>1, <2>2 DEF WireInv
<1>3. ASSUME NEW name \in WireNames, SendTool(name) PROVE WireInv'
  <2>1. strand' = "names" BY <1>3 DEF SendTool
  <2>2. AliasInv' BY <1>0, <1>3, AliasSent
  <2> QED BY <2>1, <2>2 DEF WireInv
<1>4. ASSUME NEW chunk \in Chunks, StreamChunk(chunk) PROVE WireInv'
  <2>1. /\ strand \in {"idle", "chunks"} /\ strand' = "chunks" /\ said' = Append(said, chunk)
        /\ got' = Take(got, chunk) /\ UNCHANGED <<wireOf, runtimeOf>>
    BY <1>4 DEF StreamChunk
  <2>2. said \in Seq(Chunks) /\ Assembled(got, said) BY <1>0, <2>1 DEF Streamed
  <2>3. said' \in Seq(Chunks) /\ Assembled(got', said') BY <2>1, <2>2, ChunkTaken, AppendProperties
  <2>4. Streamed(said', got') BY <2>3 DEF Streamed
  <2> QED BY <1>1, <2>1, <2>4 DEF WireInv
<1>5. ASSUME NEW broken \in BOOLEAN, StreamDone(broken) PROVE WireInv'
  <2>1. /\ strand = "chunks" /\ strand' \in {"broken", "done"} /\ UNCHANGED <<wireOf, runtimeOf, said, got>>
    BY <1>5 DEF StreamDone
  <2>2. Streamed(said', got') BY <1>0, <2>1
  <2> QED BY <1>1, <2>1, <2>2 DEF WireInv
<1>6. ASSUME NEW piece \in Pieces, Feed(piece) PROVE WireInv'
  <2>1. strand \in {"idle", "text"} /\ strand' = "text" /\ UNCHANGED <<wireOf, runtimeOf>> BY <1>6 DEF Feed
  <2>2. Hidden(said', filter', shown') BY <1>0, <1>6, <2>1, FeedHides
  <2> QED BY <1>1, <2>1, <2>2 DEF WireInv
<1>7. CASE FinishFilter
  <2>1. /\ strand = "text" /\ strand' = "shown" /\ UNCHANGED <<wireOf, runtimeOf, said>>
        /\ shown' = IF filter.passing THEN shown ELSE shown \o Stripped(filter.held)
    BY <1>7 DEF FinishFilter
  <2>2. Filtered(Arrived(said), filter.held, filter.passing, filter.trim, shown) BY <1>0, <2>1 DEF Hidden
  <2>3. OpensWith(Arrived(said)) => shown' = Stripped(Arrived(said)) BY <2>1, <2>2, ShownIs
  <2>4. Revealed(said', shown') BY <2>1, <2>3 DEF Revealed
  <2> QED BY <1>1, <2>1, <2>4 DEF WireInv
<1>8. ASSUME NEW role \in Roles, NEW calls \in 0..2, AddMessage(role, calls) PROVE WireInv'
  <2>1. strand \in {"idle", "script"} /\ strand' = "script" /\ UNCHANGED <<wireOf, runtimeOf>>
    BY <1>8 DEF AddMessage
  <2>2. Scripted(said') BY <1>0, <1>8, <2>1, MessageScripted
  <2> QED BY <1>1, <2>1, <2>2 DEF WireInv
<1> QED BY <1>2, <1>3, <1>4, <1>5, <1>6, <1>7, <1>8 DEF WireNext

\* What the invariant says of names, replies, hidden reasoning and the order of turns.
LEMMA WireInvSafe == WireInv => WireSafe
<1> SUFFICES ASSUME WireInv PROVE WireSafe OBVIOUS
<1>1. AliasesInvert BY AliasesCome DEF WireInv
<1>2. StreamIsReply
  <2> SUFFICES ASSUME strand = "done" PROVE Response(got) = WholeReply(said) BY DEF StreamIsReply
  <2>1. Assembled(got, said) BY DEF WireInv, Streamed
  <2> QED BY <2>1, AssembledIsReply
<1>3. ReasoningHeldBack
  <2>1. PICK a : a = Arrived(said) OBVIOUS
  <2>2. a = [i \in DOMAIN said |-> said[i].piece] BY <2>1 DEF Arrived
  <2>3. ASSUME strand = "text", OpensWith(a) PROVE IsPrefix(shown, Stripped(a))
    <3>1. Filtered(a, filter.held, filter.passing, filter.trim, shown) BY <2>1, <2>3 DEF WireInv, Hidden
    <3> QED BY <2>3, <3>1, ShownIs
  <2>4. ASSUME strand = "shown", OpensWith(a) PROVE shown = Stripped(a) BY <2>1, <2>4 DEF WireInv, Revealed
  <2> QED BY <2>2, <2>3, <2>4 DEF ReasoningHeldBack
<1>4. ResultsInOneTurn
  <2> SUFFICES ASSUME strand = "script", OpenCalls(said) = 0
               PROVE  LET turns == TurnsOf(said)
                          count(t, what) == Cardinality({i \in DOMAIN t.items : t.items[i] = what})
                      IN  /\ turns # <<>> => Last(turns).role = "user"
                          /\ \A i \in DOMAIN turns : count(turns[i], "call") > 0 =>
                               i < Len(turns) /\ count(turns[i + 1], "result") = count(turns[i], "call")
    BY DEF ResultsInOneTurn
  <2>1. Answered(Rendered(said), 0) BY DEF WireInv, Scripted
  <2>2. PaidOut(TurnsOf(said)) BY <2>1, AnsweredPays
  <2> QED BY <2>2, Zenon DEF PaidOut, AskedBy, ToldBy, ItemsOf
<1> QED BY <1>1, <1>2, <1>3, <1>4 DEF WireSafe

\* What a provider is sent and what it streams back mean what the Runtime means (_wire_tool_name,
\* _runtime_tool_name, stream, the reasoning filter and _payload), for every set of names, indexes and
\* pieces and however long a stream or a transcript is.
THEOREM WireIsSafe == WireSpec => []WireSafe
<1>1. WireSpec => []WireInv BY WireStarts, WireKept, PTL DEF WireSpec
<1> QED BY <1>1, WireInvSafe, PTL

-----------------------------------------------------------------------------
(* Calls of models: the router and the wire.                               *)

\* A call of a model is metered, limited and sent where it can be answered, and what the provider is
\* sent and says means what the Runtime means (models/base.py, metering.py, models/providers/).
THEOREM ModelCallsAreSafe == ModelPathSpec => []ModelCallsSafe
BY RouterIsSafe, WireIsSafe, PTL DEF ModelPathSpec, ModelCallsSafe
=============================================================================
