----------------------------- MODULE ApiGateway ------------------------------
(***************************************************************************)
(* The HTTP API (api/app.py and the route modules beside it): what a       *)
(* request passes on its way to a service.  It is admitted by the rate and *)
(* concurrency limit (api/rate_limiting.py), its body is limited           *)
(* (api/body_limit.py), the route checks the scopes of its principal and   *)
(* whose the thing is that it names, and then calls the service.           *)
(*                                                                         *)
(* A route is what it demands and what it does: the services behind are    *)
(* modelled by what changes for later requests.  Requests give way at      *)
(* every await, so between the check of a route and its call a             *)
(* conversation may go away.                                               *)
(*                                                                         *)
(* The middleware that admits a request returns its slot when the response *)
(* starts (call_next returns then), or the route fails; what is streamed   *)
(* afterwards holds none.                                                  *)
(***************************************************************************)
EXTENDS Integers, FiniteSets

CONSTANTS GateRequests,     \* requests under way at once
          Principals,       \* [tenant, user, scopes]
          RunsKnown,        \* [id, tenant, user, conversation], conversation "" where it has none
          ConversationsKnown,       \* [id, tenant, user]
          Policies,         \* [RouteClasses -> [burst, limit]]: limit 0 where max_concurrent is None; a token per moment
          BodyLimit,        \* bytes of a body
          GateUntil,        \* moments in a behaviour
          NoPrincipal

RouteClasses == {"run_create", "write", "read"}

ASSUME GateAssumption ==
    /\ BodyLimit \in Nat /\ GateUntil \in Nat
    /\ \A c \in RouteClasses : Policies[c].burst \in Nat \ {0} /\ Policies[c].limit \in Nat

\* The runs of a conversation are started for its user; a run is no conversation, and the stand-ins for the
\* records and requests without an owner are neither.
ASSUME GateThings ==
    /\ RunsKnown \cap ConversationsKnown = {}
    /\ \A x \in RunsKnown \cup ConversationsKnown : x.id \notin {"record", "nothing"}
    /\ \A run \in RunsKnown : run.conversation # "" =>
         \E c \in ConversationsKnown : c.id = run.conversation /\ c.user = run.user

VARIABLES gateTime, bucket,   \* [<<tenant, route class>> -> [tokens, refilled, active]]
          greq,               \* a request; slot: the class it was admitted in, until the middleware's finally ran
          live,               \* conversations that exist
          touched,            \* not in the code: who asked a service for what, the last time
          answers             \* not in the code: responses started for a request
gateVars == <<gateTime, bucket, greq, live, touched, answers>>

-----------------------------------------------------------------------------
(* The routes: any of needs suffices; on says what the route looks up. *)
Route(name, needs, on) == [name |-> name, needs |-> needs, on |-> on]
RunRoutes ==
    {Route("create_run", {"runs:write"}, "nothing")}
    \cup {Route(name, {"runs:read"}, "run") : name \in {"read_run", "read_run_narrative"}}
    \cup {Route(name, {"runs:write"}, "run") : name \in {"cancel_run", "clarify_run", "steer_run", "approve_run"}}
ApprovalRoutes ==
    {Route(name, {"approvals:read"}, "tenant") : name \in {"list_approvals", "read_approval"}}
    \cup {Route("storage_usage", {"usage:read"}, "tenant")}
EventRoutes == {Route("stream_events", {"artifacts:read", "runs:read"}, "run")}
ArtifactRoutes ==
    {Route("create_artifact", {"artifacts:write", "runs:write"}, "nothing"),
     Route("delete_artifact", {"artifacts:write", "runs:write"}, "tenant"),
     Route("update_artifact_status", {"artifacts:scan"}, "tenant")}
    \cup {Route(name, {"artifacts:read", "runs:read"}, "tenant") : name \in {"list_artifacts", "read_artifact_metadata", "read_artifact"}}
ConversationRoutes ==
    {Route("create_conversation", {"conversations:write"}, "nothing"),
     Route("list_conversations", {"conversations:read"}, "nothing")}
    \cup {Route(name, {"conversations:read"}, "conversation") : name \in {"read_conversation", "read_conversation_messages"}}
    \cup {Route(name, {"conversations:write"}, "conversation") : name \in {"update_conversation", "delete_conversation"}}
TurnRoutes ==
    {Route(name, {"conversations:write"}, "conversation") :
        name \in {"create_conversation_message", "cancel_conversation_response",
                  "decide_conversation_turn", "answer_conversation_turn"}}
FeedbackRoutes ==
    {Route("put_conversation_feedback", {"feedback:write"}, "conversation"),
     Route("get_conversation_feedback", {"feedback:read"}, "conversation")}
ConversationEventRoutes == {Route("stream_conversation_events", {"conversations:read"}, "conversation")}
ToolExecutionRoutes ==
    {Route(name, {"tool_executions:reconcile"}, "tenant") :
        name \in {"list_tool_executions", "read_tool_execution", "resolve_tool_execution", "reconcile_tool_execution",
                  "compensate_tool_execution", "resume_after_tool_execution"}}
WorkflowRoutes ==
    {Route("list_workflows", {"runs:read"}, "nothing"), Route("start_workflow", {"runs:write"}, "nothing"),
     Route("read_workflow_run", {"runs:read"}, "tenant")}
    \cup {Route(name, {"runs:write"}, "tenant") : name \in {"decide_workflow_approval", "answer_workflow_question"}}
CatalogRoutes ==
    {Route("register_agent", {"agents:write"}, "nothing")}
    \cup {Route(name, {"agents:read"}, "nothing") : name \in {"list_agents", "list_semantic_layers", "read_semantic_layer"}}
Routes == UNION {RunRoutes, ApprovalRoutes, EventRoutes, ArtifactRoutes, ConversationRoutes, TurnRoutes, FeedbackRoutes,
                 ConversationEventRoutes, ToolExecutionRoutes, WorkflowRoutes, CatalogRoutes}
ReadNames ==
    {"read_run", "read_run_narrative", "list_approvals", "read_approval", "storage_usage", "stream_events",
     "list_artifacts", "read_artifact_metadata", "read_artifact", "list_conversations", "read_conversation",
     "read_conversation_messages", "get_conversation_feedback", "stream_conversation_events", "list_tool_executions",
     "read_tool_execution", "list_workflows", "read_workflow_run", "list_agents", "list_semantic_layers",
     "read_semantic_layer"}
\* POST /v1/runs has a class of its own; the others are told apart by their method.
ClassOf(route) == CASE route.name = "create_run" -> "run_create"
                    [] route.name \in ReadNames -> "read"
                    [] OTHER -> "write"
Tenants == {p.tenant : p \in Principals}
Things(route) == CASE route.on = "run" -> RunsKnown
                   [] route.on = "conversation" -> ConversationsKnown
                   [] route.on = "tenant" -> [id : {"record"}, tenant : Tenants, user : {""}]
                   [] OTHER -> [id : {"nothing"}, tenant : {""}, user : {""}]

GateIdle == [at |-> "idle", who |-> NoPrincipal, route |-> "none", thing |-> "none", read |-> 0, slot |-> "none"]
GateInit ==
    /\ gateTime = 0
    /\ bucket = [k \in Tenants \X RouteClasses |-> [tokens |-> Policies[k[2]].burst, refilled |-> 0, active |-> 0]]
    /\ greq = [r \in GateRequests |-> GateIdle]
    /\ live = ConversationsKnown /\ touched = {} /\ answers = [r \in GateRequests |-> 0]

GateTypeOK ==
    /\ gateTime \in 0..GateUntil /\ live \subseteq ConversationsKnown
    /\ \A k \in Tenants \X RouteClasses :
         bucket[k].tokens \in 0..Policies[k[2]].burst /\ bucket[k].active \in 0..Policies[k[2]].limit
    /\ \A r \in GateRequests : greq[r].read \in 0..BodyLimit

-----------------------------------------------------------------------------
(* Admission. *)
Least(a, b) == IF a < b THEN a ELSE b
Refilled(b, policy) == [b EXCEPT !.tokens = Least(policy.burst, @ + (gateTime - b.refilled)), !.refilled = gateTime]
Bounded(policy) == policy.limit # 0

\* acquire: concurrency where the class bounds it, then rate; a refusal takes nothing.
BucketDecision(b, policy) ==
    IF (Bounded(policy) /\ b.active >= policy.limit) \/ b.tokens < 1 THEN [ok |-> FALSE, bucket |-> b]
    ELSE [ok |-> TRUE, bucket |-> [b EXCEPT !.tokens = @ - 1, !.active = IF Bounded(policy) THEN @ + 1 ELSE @]]
\* admission_rate_limit.  A principal that is not authenticated passes it and is refused by the route.
AdmitRequest(r) ==
    /\ greq[r].at = "idle"
    /\ \E p \in Principals, route \in Routes : \E thing \in Things(route) :
         LET key == <<p.tenant, ClassOf(route)>>
             d == BucketDecision(Refilled(bucket[key], Policies[key[2]]), Policies[key[2]])
         IN  /\ bucket' = [bucket EXCEPT ![key] = d.bucket]
             /\ greq' = [greq EXCEPT ![r] = IF d.ok
                           THEN [at |-> "body", who |-> p, route |-> route, thing |-> thing, read |-> 0, slot |-> key[2]]
                           ELSE [GateIdle EXCEPT !.at = "done"]]
             /\ answers' = IF d.ok THEN answers ELSE [answers EXCEPT ![r] = @ + 1]
    /\ UNCHANGED <<gateTime, live, touched>>
\* The finally clause of the middleware, once: the response has started, or the route raised or was cancelled.
ReleaseSlot(r) ==
    /\ greq[r].at \in {"stream", "left"} /\ greq[r].slot # "none"
    /\ bucket' = [bucket EXCEPT ![<<greq[r].who.tenant, greq[r].slot>>].active =
                    IF Bounded(Policies[greq[r].slot]) /\ @ > 0 THEN @ - 1 ELSE @]
    /\ greq' = [greq EXCEPT ![r] = IF greq[r].at = "left" THEN [GateIdle EXCEPT !.at = "done"]
                                   ELSE [greq[r] EXCEPT !.slot = "none"]]
    /\ UNCHANGED <<gateTime, live, touched, answers>>
\* A request is over; its slot may still have to be returned.
Leaving(r) ==
    greq' = [greq EXCEPT ![r] = IF greq[r].slot = "none" THEN [GateIdle EXCEPT !.at = "done"]
                               ELSE [GateIdle EXCEPT !.at = "left", !.who = greq[r].who, !.slot = greq[r].slot]]

\* A 413 is sent only when no response has started.
AnswerOnce(r) == answers' = [answers EXCEPT ![r] = IF @ = 0 THEN 1 ELSE @]
\* limited_receive: the chunk that goes over the limit never reaches the application; a route may still be
\* reading when its response has started.
ReceiveBody(r, size) ==
    /\ greq[r].at \in {"body", "stream"}
    /\ IF greq[r].read + size > BodyLimit THEN Leaving(r) /\ AnswerOnce(r)
       ELSE greq' = [greq EXCEPT ![r].read = @ + size] /\ UNCHANGED answers
    /\ UNCHANGED <<gateTime, bucket, live, touched>>

-----------------------------------------------------------------------------
(* The route. *)
Fails(r) == Leaving(r) /\ answers' = [answers EXCEPT ![r] = @ + 1]
\* The body is read; require_scope and require_any_scope come before the first await of the route.
RequireScope(r) ==
    /\ greq[r].at = "body"
    /\ IF greq[r].route.needs \cap greq[r].who.scopes # {}
       THEN greq' = [greq EXCEPT ![r].at = "owner"] /\ UNCHANGED answers
       ELSE Fails(r)
    /\ UNCHANGED <<gateTime, bucket, live, touched>>
ConversationOf(run) == {c \in live : c.id = run.conversation /\ c.tenant = run.tenant}

\* require_conversation_owner: the conversation's user; without the conversation, the run's.
OwnerOf(run, p) ==
    IF run.conversation = "" THEN p.user
    ELSE IF ConversationOf(run) = {} THEN run.user
    ELSE (CHOOSE c \in ConversationOf(run) : TRUE).user
\* What is another tenant's, or another user's, is not found.
CheckOwner(r) ==
    /\ greq[r].at = "owner"
    /\ LET p == greq[r].who
           x == greq[r].thing
           found == CASE greq[r].route.on = "run" -> x.tenant = p.tenant /\ OwnerOf(x, p) = p.user
                      [] greq[r].route.on = "conversation" -> x \in live /\ x.tenant = p.tenant /\ x.user = p.user
                      [] greq[r].route.on = "tenant" -> x.tenant = p.tenant
                      [] OTHER -> TRUE
       IN  IF found THEN greq' = [greq EXCEPT ![r].at = "call"] /\ UNCHANGED answers ELSE Fails(r)
    /\ UNCHANGED <<gateTime, bucket, live, touched>>
\* The service is called; the conversation may be gone by now, which it reports.
CallService(r) ==
    /\ greq[r].at = "call"
    /\ LET p == greq[r].who
           x == greq[r].thing
           name == greq[r].route.name
       IN  IF greq[r].route.on = "conversation" /\ x \notin live
           THEN Fails(r) /\ UNCHANGED <<live, touched>>
           ELSE /\ live' = IF name = "delete_conversation" THEN live \ {x} ELSE live
                /\ touched' = {[who |-> p, what |-> x]}
                /\ answers' = [answers EXCEPT ![r] = @ + 1]
                /\ IF name \in {"stream_events", "stream_conversation_events"} THEN greq' = [greq EXCEPT ![r].at = "stream"]
                   ELSE Leaving(r)
    /\ UNCHANGED <<gateTime, bucket>>
\* The handler raises, or the client goes away.
Aborted(r) ==
    /\ greq[r].at \in {"body", "owner", "call", "stream"}
    /\ Leaving(r)
    /\ UNCHANGED <<gateTime, bucket, live, touched, answers>>
GateTick == gateTime < GateUntil /\ gateTime' = gateTime + 1 /\ UNCHANGED <<bucket, greq, live, touched, answers>>

GateNext ==
    \/ GateTick
    \/ \E r \in GateRequests :
         \/ \E size \in 1..BodyLimit : ReceiveBody(r, size)
         \/ AdmitRequest(r) \/ RequireScope(r) \/ CheckOwner(r) \/ CallService(r) \/ Aborted(r) \/ ReleaseSlot(r)
GateSpec == GateInit /\ [][GateNext]_gateVars

-----------------------------------------------------------------------------
(* A tenant's count of a bounded class is the number of its requests whose
   slot is still to be returned: a refusal for another reason, an exception,
   a client that goes away, a cut off body or the end of a stream neither
   leaks a slot nor frees one twice.  And a request of such a class has its
   slot until its response starts, so no more of them than the limit are
   worked on at once. *)
Working(r) == greq[r].at \in {"body", "owner", "call"}
SlotsExact ==
    \A t \in Tenants, c \in RouteClasses :
        /\ bucket[<<t, c>>].active = IF Bounded(Policies[c])
                THEN Cardinality({r \in GateRequests : greq[r].slot = c /\ greq[r].who.tenant = t}) ELSE 0
        /\ Bounded(Policies[c]) =>
             Cardinality({r \in GateRequests : Working(r) /\ greq[r].who.tenant = t /\ ClassOf(greq[r].route) = c})
               <= Policies[c].limit

(* A run of a conversation is reached only by the conversation's user, and
   nothing by another tenant, also after and while the conversation is
   deleted. *)
OwnersOnly ==
    \A x \in touched :
        /\ x.what.tenant \in {"", x.who.tenant}
        /\ (x.what \in RunsKnown /\ x.what.conversation # "") =>
             \E c \in ConversationsKnown : c.id = x.what.conversation /\ c.user = x.who.user
        /\ x.what \in ConversationsKnown => x.what.user = x.who.user

(* A request is answered at most once, also when its body goes over the limit
   after the response has started. *)
AnsweredOnce == \A r \in GateRequests : answers[r] <= 1

\* Slots are returned, owners are checked against what still exists, and a request has one answer,
\* whatever overlaps, fails or goes away.
GateSafe == GateTypeOK /\ SlotsExact /\ OwnersOnly /\ AnsweredOnce
=============================================================================
