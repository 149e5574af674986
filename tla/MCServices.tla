---------------------------- MODULE MCServices ----------------------------
(***************************************************************************)
(* What a run's drive talks to, and who talks to the Runtime: its loop,    *)
(* its events, the model router and the provider's wire, the response      *)
(* cache, authentication, the HTTP API and MCP connections, each checked   *)
(* on its own instance in one run of TLC: part says which one moves, and   *)
(* the others stay as they began.                                          *)
(***************************************************************************)
EXTENDS RunLoop, Boundary, ResponseCache, TokenTrust, McpConnections, TLC

CONSTANTS r1, r2

VARIABLE part

-----------------------------------------------------------------------------
(* A run: a tool allowed once, one that needs an approval, a call the      *)
(* schema refuses and a tool the agent does not have.                      *)

MCCallLimit == [t \in {"ping"} |-> 1]
MCBad == {<<"look", "b">>}
MCReplies == {<<>>, <<<<"look", "a">>, <<"look", "a">>>>, <<<<"look", "a">>, <<"change", "a">>>>,
              <<<<"ping", "a">>, <<"ping", "a">>>>, <<<<"look", "b">>, <<"ghost", "a">>>>}

\* Two writers of a run's events in two processes, and a reader in the first.
MCHome == [x \in {"w1", "w2", "r1"} |-> IF x = "w2" THEN 2 ELSE 1]

(* Models: a local and a remote provider behind four profiles of one       *)
(* request, and tool names that meet in a provider's alphabet.             *)

MCRegistration ==
  [near |-> [local |-> TRUE, cost |-> 0, caps |-> {"tools"}, override |-> [f \in {"vision"} |-> TRUE]],
   far |-> [local |-> FALSE, cost |-> 2, caps |-> {"tools", "streaming"}, override |-> [f \in {} |-> TRUE]]]
MCProfile(p, q, prefer, needs, slow, wide) ==
  [provider |-> p, quality |-> q, prefer |-> prefer, needs |-> needs, maxSlow |-> slow, maxCost |-> 5, wide |-> wide]
MCProfiles ==
  <<MCProfile("near", 1, "local_first", {"tools"}, 1, FALSE), MCProfile("far", 2, "balanced", {"tools"}, 0, TRUE),
    MCProfile("near", 0, "balanced", {"tools"}, 1, TRUE), MCProfile("near", 3, "balanced", {"vision"}, 1, TRUE)>>
MCReadable == [n \in WireNames |-> IF n = "a.b" THEN "a__b" ELSE n]
MCStems == [n \in WireNames |-> IF n \in {"a.b", "a b"} THEN "a_b" ELSE n]

\* Callers of the cache: one twice, one of another tenant, and one without tenant or session.
MCContexts ==
  LET one == [tenant |-> "t1", user |-> "u1", session |-> "s1"]
  IN  [q1 |-> one, q2 |-> one, q3 |-> [tenant |-> "t2", user |-> "u1", session |-> "s2"],
       q4 |-> [tenant |-> "", user |-> "u1", session |-> ""]]

-----------------------------------------------------------------------------
(* Callers of the API: two tokens of one subject, two principals of one    *)
(* tenant, a run of another tenant; two users of an MCP server.            *)

MCTokenOf ==
  [a |-> [kid |-> "k1", alg |-> "RS256", iat |-> 0, exp |-> 3, jti |-> "j1", sub |-> "s1"],
   b |-> [kid |-> "k2", alg |-> "RS256", iat |-> 1, exp |-> 3, jti |-> "", sub |-> "s1"]]
MCPrincipals ==
  {[tenant |-> "t1", user |-> "u1",
    scopes |-> {"runs:read", "runs:write", "conversations:write", "conversations:read"}],
   [tenant |-> "t1", user |-> "u2",
    scopes |-> {"runs:write", "approvals:read", "feedback:write"}]}
MCRunsKnown ==
  {[id |-> "run", tenant |-> "t1", user |-> "u1", conversation |-> "c"],
   [id |-> "other", tenant |-> "t2", user |-> "u1", conversation |-> ""]}
MCConversationsKnown == {[id |-> "c", tenant |-> "t1", user |-> "u1"]}
\* Of the runs created and of the reads, one is worked on at a time; writes may overlap.
MCPolicies == [c \in {"run_create", "write", "read"} |-> [burst |-> 1, limit |-> IF c = "write" THEN 0 ELSE 1]]
MCUsers == {[tenant |-> "t", user |-> u] : u \in {"u1", "u2"}}
\* Of two requests under way, at most one is on a route that changes nothing another depends on.
Paired == {"create_run", "read_run", "stream_events", "delete_conversation"}
OneElse ==
  Cardinality({r \in GateRequests : /\ greq'[r].at \in {"body", "owner", "call", "stream"}
                                    /\ greq'[r].route.name \notin Paired}) <= 1
\* Users are alike, and callbacks: the first authorization is the first user's, and a callback that comes first
\* is the one with the number of its authorization.  Only the first user has calls in two processes and tokens
\* that rotate.
Alike ==
  /\ begun = 0 /\ begun' = 1 => pending'[1] = <<"t", "u1">>
  /\ \A b \in Callbacks :
       (\A d \in Callbacks : d # b => callback'[d].at = "idle") /\ callback[b].at = "idle" => callback'[b].id \in {0, b}
  /\ \A c \in McpCalls : mcall'[c].process # Here => mcall'[c].who.user = "u1"
  /\ minted'[<<"t", "u2">>] <= 1

\* Requests, and calls of models and tools, are alike.
ServicesSymmetry == Permutations({r1, r2})

-----------------------------------------------------------------------------
Parts == {"loop", "events", "router", "wire", "cache", "tokens", "gateway", "mcp"}

\* A part that does not move begins in one of its initial states only.
Pinned(moving, v, value) == part # moving => v = value

ServicesInit ==
  /\ part \in Parts
  /\ LoopInit
  /\ StreamInit
  /\ RouterInit
  /\ WireInit /\ Pinned("wire", filter.all, FALSE)
  /\ CacheInit
  /\ TrustInit /\ published = {"k1"}
  /\ GateInit
  /\ McpInit

ServicesNext ==
  /\ UNCHANGED part
  /\ \/ part = "loop" /\ LoopNext
     \/ part = "events" /\ StreamNext
     \/ part = "router" /\ RouterNext
     \/ part = "wire" /\ WireNext
     \/ part = "cache" /\ CacheNext
     \/ part = "tokens" /\ TrustNext
     \/ part = "gateway" /\ GateNext /\ OneElse
     \/ part = "mcp" /\ McpNext /\ Alike
  /\ IF part = "loop" THEN TRUE ELSE UNCHANGED loopVars
  /\ IF part = "events" THEN TRUE ELSE UNCHANGED streamVars
  /\ IF part = "router" THEN TRUE ELSE UNCHANGED routerVars
  /\ IF part = "wire" THEN TRUE ELSE UNCHANGED wireVars
  /\ IF part = "cache" THEN TRUE ELSE UNCHANGED cacheVars
  /\ IF part = "tokens" THEN TRUE ELSE UNCHANGED trustVars
  /\ IF part = "gateway" THEN TRUE ELSE UNCHANGED gateVars
  /\ IF part = "mcp" THEN TRUE ELSE UNCHANGED mcpVars

servicesVars == <<part, loopVars, streamVars, routerVars, wireVars, cacheVars, trustVars, gateVars, mcpVars>>

ServicesSpec == ServicesInit /\ [][ServicesNext]_servicesVars
=============================================================================
