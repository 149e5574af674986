--------------------------- MODULE McpConnections ----------------------------
(***************************************************************************)
(* OAuth connections to MCP servers: authorization, tokens and their       *)
(* refresh (mcp/oauth.py, mcp/tokens.py), the sessions a call runs on      *)
(* (mcp/client.py).                                                        *)
(*                                                                         *)
(* A key is a tenant, or a tenant and user, at one server.  A token set is *)
(* its version: the provider rotates the refresh token, so that only the   *)
(* latest version of a grant can be refreshed.  Calls, callbacks and the   *)
(* revocation of a connection interleave at every await.  The processes    *)
(* share the store and the provider; each has refresh locks and sessions   *)
(* of its own, and the sessions here are those of the process Here.        *)
(***************************************************************************)
EXTENDS Integers, Sequences, FiniteSets, SequencesExt, OrderedTable

CONSTANTS McpCalls,         \* tool calls under way at once
          Processes, Here,  \* worker processes
          McpUsers,         \* who calls: [tenant, user]
          TokenScope,       \* "tenant" or "user"
          Callbacks,        \* callbacks of the browser, replays included
          MaxOAuthConnections,
          MaxToken,         \* versions of a token set
          MaxAuthorizations,
          MaxSessions,      \* sessions opened in a behaviour
          Absent

Free == "free"
Nowhere == "nowhere"

ASSUME McpAssumption ==
    /\ MaxOAuthConnections \in Nat \ {0} /\ TokenScope \in {"tenant", "user"}
    /\ MaxToken \in Nat /\ MaxAuthorizations \in Nat /\ MaxSessions \in Nat
    /\ Free \notin McpCalls /\ Nowhere \notin Processes /\ Here \in Processes

VARIABLES stored,      \* [key -> [version, fresh, renewable] or Absent]
          grants,     \* external: [key -> the versions whose refresh token the provider accepts]
          refreshing,  \* [process, key -> the call that holds the key's refresh lock there]
          minted,      \* external: [key -> the last version the provider made]
          begun,       \* how many authorizations were begun; their number is their state
          pending,     \* [authorization that waits for its callback -> its key]
          callback,    \* [callback -> what it does, for which key, with which version]
          exchanges,   \* not in the code: how often an authorization was used
          conns,       \* OAuth sessions, least recently used first: <<key, session>>
          sessions,    \* external: open sessions, [session -> key]
          opened,      \* how many sessions were opened
          mcall,       \* a tool call
          disowned,     \* not in the code: [key -> the versions the provider stopped to stand by: revoked,
                        \* expired, or refused to the Runtime]
          spent         \* not in the code: [key -> the versions rotated, each with the process that got
                        \* the answer, or Nowhere]
authorizing == <<begun, pending, callback, exchanges>>
mcpVars == <<stored, grants, minted, refreshing, authorizing, conns, sessions, opened, mcall, disowned, spent>>

\* key_for
KeyFor(p) == IF TokenScope = "user" THEN <<p.tenant, p.user>> ELSE <<p.tenant, "">>
Keys == {KeyFor(p) : p \in McpUsers}
KeyOf(c) == KeyFor(mcall[c].who)
Lock(c) == <<mcall[c].process, KeyOf(c)>>
NoCall == [at |-> "idle", who |-> Absent, process |-> Here, used |-> 0, session |-> 0, rejected |-> 0]
McpInit ==
    /\ stored = [k \in Keys |-> Absent] /\ grants = [k \in Keys |-> {}]
    /\ refreshing = [l \in Processes \X Keys |-> Free] /\ minted = [k \in Keys |-> 0]
    /\ begun = 0 /\ pending = [a \in {} |-> Absent] /\ exchanges = [a \in 1..MaxAuthorizations |-> 0]
    /\ callback = [b \in Callbacks |-> [at |-> "idle", key |-> Absent, id |-> 0, version |-> 0, renewable |-> FALSE]]
    /\ conns = <<>> /\ sessions = [s \in {} |-> Absent] /\ opened = 0
    /\ mcall = [c \in McpCalls |-> NoCall]
    /\ disowned = [k \in Keys |-> {}] /\ spent = [k \in Keys |-> {}]

McpTypeOK ==
    /\ \A k \in Keys : stored[k] = Absent \/ stored[k].version \in 1..MaxToken
    /\ DOMAIN pending \subseteq 1..begun /\ opened \in 0..MaxSessions
    /\ \A l \in Processes \X Keys : refreshing[l] \in McpCalls \cup {Free}
    /\ Len(conns) <= MaxOAuthConnections + 1

-----------------------------------------------------------------------------
(* Authorization. *)
Authorize(k) ==
    /\ begun < MaxAuthorizations
    /\ begun' = begun + 1 /\ pending' = [a \in DOMAIN pending \cup {begun'} |-> IF a = begun' THEN k ELSE pending[a]]
    /\ UNCHANGED <<stored, grants, minted, refreshing, callback, exchanges, conns, sessions, opened, mcall, disowned, spent>>

CallbackOver == [at |-> "done", key |-> Absent, id |-> 0, version |-> 0, renewable |-> FALSE]
\* take_pending deletes what it returns.
TakePending(a) == [x \in DOMAIN pending \ {a} |-> pending[x]]
Complete(b, a) ==
    /\ callback[b].at = "idle"
    /\ pending' = TakePending(a)
    /\ callback' = [callback EXCEPT ![b] = IF a \in DOMAIN pending
                       THEN [@ EXCEPT !.at = "exchange", !.key = pending[a], !.id = a] ELSE CallbackOver]
    /\ UNCHANGED <<stored, grants, minted, refreshing, begun, exchanges, conns, sessions, opened, mcall, disowned, spent>>
\* _exchange: the provider grants, with a refresh token or without; an error stores nothing.
Exchange(b, ok, renewable) ==
    /\ callback[b].at = "exchange"
    /\ exchanges' = [exchanges EXCEPT ![callback[b].id] = @ + 1]
    /\ LET k == callback[b].key
           v == minted[k] + 1
       IN  IF ok /\ v <= MaxToken
           THEN /\ minted' = [minted EXCEPT ![k] = v] /\ grants' = [grants EXCEPT ![k] = @ \cup {v}]
                /\ callback' = [callback EXCEPT ![b].at = "put", ![b].version = v, ![b].renewable = renewable]
           ELSE callback' = [callback EXCEPT ![b] = CallbackOver] /\ UNCHANGED <<grants, minted>>
    /\ UNCHANGED <<stored, refreshing, begun, pending, conns, sessions, opened, mcall, disowned, spent>>
PutExchanged(b) ==
    /\ callback[b].at = "put"
    /\ stored' = [stored EXCEPT ![callback[b].key] =
                     [version |-> callback[b].version, fresh |-> TRUE, renewable |-> callback[b].renewable]]
    /\ callback' = [callback EXCEPT ![b] = CallbackOver]
    /\ UNCHANGED <<grants, minted, refreshing, begun, pending, exchanges, conns, sessions, opened, mcall, disowned, spent>>
-----------------------------------------------------------------------------
(* access_token *)
Go(c, at) == mcall' = [mcall EXCEPT ![c].at = at]
\* The call goes on to its session, with the token it has now.
Connect(c) == mcall' = [mcall EXCEPT ![c] = [@ EXCEPT !.at = "connect", !.used = 0]]
\* The call returns, or raises.
End(c) == mcall' = [mcall EXCEPT ![c] = [NoCall EXCEPT !.at = "ended", !.who = mcall[c].who]]
\* _forget: the tokens are deleted, and the listener drops the session of the process.
Forget(k, w) ==
    /\ stored' = [stored EXCEPT ![k] = Absent]
    /\ IF w = Here
       THEN /\ conns' = Drop(conns, k)
            /\ sessions' = [s \in {x \in DOMAIN sessions : \A i \in DOMAIN conns : conns[i] # <<k, x>>} |-> sessions[s]]
       ELSE UNCHANGED <<conns, sessions>>
AskToken(c, p, w) ==
    /\ mcall[c].at = "idle"
    /\ LET t == stored[KeyFor(p)]
       IN  mcall' = [mcall EXCEPT ![c] = IF t = Absent THEN [NoCall EXCEPT !.who = p, !.at = "ended"]
             ELSE [NoCall EXCEPT !.who = p, !.process = w, !.at = IF t.fresh THEN "connect" ELSE "lock"]]
    /\ UNCHANGED <<stored, grants, minted, refreshing, authorizing, conns, sessions, opened, disowned, spent>>

\* Mutant: refreshes of one connection are not serialised.
NoRefreshLock(c) == TRUE

\* One refresh of a key at a time in a process: _refresh_locks.
MayRefresh(c) == refreshing[Lock(c)] = Free
\* Read again under the lock: another call may have refreshed it.
RefreshNeeded(c, t) == IF mcall[c].rejected # 0 THEN t.version = mcall[c].rejected ELSE ~t.fresh
\* Without a refresh token the connection is forgotten at once.
LockRefresh(c) ==
    /\ mcall[c].at = "lock" /\ MayRefresh(c)
    /\ LET t == stored[KeyOf(c)]
       IN  IF t = Absent THEN End(c) /\ UNCHANGED refreshing
           ELSE IF ~RefreshNeeded(c, t) THEN Connect(c) /\ UNCHANGED refreshing
           ELSE /\ refreshing' = [refreshing EXCEPT ![Lock(c)] = c]
                /\ mcall' = [mcall EXCEPT ![c] = IF t.renewable THEN [@ EXCEPT !.at = "refresh", !.used = t.version]
                                                ELSE [@ EXCEPT !.at = "forget", !.used = 0]]
    /\ UNCHANGED <<stored, grants, minted, authorizing, conns, sessions, opened, disowned, spent>>
\* _token_request: the provider is not reached, rotates the latest version of a grant, or refuses one.
\* Its answer may be lost on the way, be unusable, or belong to a call that is cancelled before it is stored.
AskProvider(c, outcome) ==
    /\ mcall[c].at = "refresh"
    /\ LET k == KeyOf(c)
           used == mcall[c].used
           v == minted[k] + 1
           Unlock == refreshing' = [refreshing EXCEPT ![Lock(c)] = Free]
       IN  \/ /\ outcome = "unreached" /\ End(c) /\ Unlock
              /\ UNCHANGED <<grants, minted, disowned, spent>>
           \/ /\ outcome \in {"answered", "lost"} /\ used \in grants[k] /\ v <= MaxToken
              /\ minted' = [minted EXCEPT ![k] = v] /\ grants' = [grants EXCEPT ![k] = (@ \ {used}) \cup {v}]
              /\ spent' = [spent EXCEPT ![k] = @ \cup {<<used, IF outcome = "lost" THEN Nowhere ELSE mcall[c].process>>}]
              /\ IF outcome = "lost" THEN End(c) /\ Unlock
                 ELSE mcall' = [mcall EXCEPT ![c] = [@ EXCEPT !.at = "put", !.used = v]] /\ UNCHANGED refreshing
              /\ UNCHANGED disowned
           \/ /\ outcome = "refused" /\ Go(c, "refused")
              /\ disowned' = [disowned EXCEPT ![k] = @ \cup (grants[k] \cap {used})]
              /\ grants' = [grants EXCEPT ![k] = @ \ {used}]
              /\ UNCHANGED <<minted, spent, refreshing>>
    /\ UNCHANGED <<stored, authorizing, conns, sessions, opened>>
PutRefreshed(c) ==
    /\ mcall[c].at = "put"
    /\ stored' = [stored EXCEPT ![KeyOf(c)] = [version |-> mcall[c].used, fresh |-> TRUE, renewable |-> TRUE]]
    /\ refreshing' = [refreshing EXCEPT ![Lock(c)] = Free] /\ Connect(c)
    /\ UNCHANGED <<grants, minted, authorizing, conns, sessions, opened, disowned, spent>>
\* Refused: a version another worker stored is kept, else the grant is gone.
AfterRefusal(c) ==
    /\ mcall[c].at = "refused"
    /\ LET k == KeyOf(c)
       IN  IF stored[k] # Absent /\ stored[k].version # mcall[c].used
           THEN Connect(c) /\ refreshing' = [refreshing EXCEPT ![Lock(c)] = Free]
           ELSE Go(c, "forget") /\ UNCHANGED refreshing
    /\ UNCHANGED <<stored, grants, minted, authorizing, conns, sessions, opened, disowned, spent>>
ForgetRefused(c) ==
    /\ mcall[c].at = "forget"
    /\ Forget(KeyOf(c), mcall[c].process)
    /\ refreshing' = [refreshing EXCEPT ![Lock(c)] = Free] /\ End(c)
    /\ UNCHANGED <<grants, minted, authorizing, opened, disowned, spent>>
\* revoke: the connection is removed first, then the provider is told, if it can be reached.
Revoke(k, w, reached) ==
    /\ stored[k] # Absent
    /\ Forget(k, w)
    /\ IF reached THEN grants' = [grants EXCEPT ![k] = {}] /\ disowned' = [disowned EXCEPT ![k] = 1..minted[k]]
       ELSE UNCHANGED <<grants, disowned>>
    /\ UNCHANGED <<minted, refreshing, authorizing, opened, mcall, spent>>

-----------------------------------------------------------------------------
(* Sessions. *)
Existing(k) == {conns[i][2] : i \in {j \in DOMAIN conns : conns[j][1] = k}}
\* _connect_oauth, under the key's lock: the session there is, else a new one.
UseSession(c) ==
    /\ mcall[c].at = "connect" /\ mcall[c].process = Here
    /\ LET k == KeyOf(c)
           have == Existing(k)
       IN  IF have # {} THEN /\ conns' = Append(Drop(conns, k), <<k, CHOOSE s \in have : TRUE>>)
                             /\ mcall' = [mcall EXCEPT ![c] = [@ EXCEPT !.at = "call", !.session = CHOOSE s \in have : TRUE]]
           ELSE /\ \A d \in McpCalls \ {c} : mcall[d].at = "opening" => KeyOf(d) # k
                /\ Go(c, "opening") /\ UNCHANGED conns
    /\ UNCHANGED <<stored, grants, minted, refreshing, authorizing, sessions, opened, disowned, spent>>

\* The oldest is closed when there are too many.
Evict(q, open) ==
    IF Len(q) <= MaxOAuthConnections THEN <<q, open>>
    ELSE <<Tail(q), [s \in DOMAIN open \ {Head(q)[2]} |-> open[s]]>>
SessionOpened(c, works) ==
    /\ mcall[c].at = "opening" /\ opened < MaxSessions
    /\ LET k == KeyOf(c)
           s == opened + 1
           e == Evict(Append(conns, <<k, s>>), [x \in DOMAIN sessions \cup {s} |-> IF x = s THEN k ELSE sessions[x]])
       IN  IF works THEN /\ conns' = e[1] /\ sessions' = e[2] /\ opened' = s
                         /\ mcall' = [mcall EXCEPT ![c] = [@ EXCEPT !.at = "call", !.session = s]]
           ELSE End(c) /\ UNCHANGED <<conns, sessions, opened>>
    /\ UNCHANGED <<stored, grants, minted, refreshing, authorizing, disowned, spent>>
\* The tool's invoke, on the caller's own session: a timeout, a cancellation or an error that the server
\* reports keeps the session, another failure drops it.
CallTool(c, outcome) ==
    /\ mcall[c].at = "call"
    /\ outcome = "works" => mcall[c].session \in DOMAIN sessions
    /\ End(c)
    /\ IF outcome = "breaks"
       THEN /\ conns' = Drop(conns, KeyOf(c))
            /\ sessions' = [s \in DOMAIN sessions \ Existing(KeyOf(c)) |-> sessions[s]]
       ELSE UNCHANGED <<conns, sessions>>
    /\ UNCHANGED <<stored, grants, minted, refreshing, authorizing, opened, disowned, spent>>
\* async_auth_flow: a token the server refuses is refreshed once.
TokenRejected(c) ==
    /\ mcall[c].at = (IF mcall[c].process = Here THEN "call" ELSE "connect")
    /\ mcall[c].rejected = 0 /\ stored[KeyOf(c)] # Absent
    /\ mcall' = [mcall EXCEPT ![c] = [@ EXCEPT !.at = "lock", !.rejected = stored[KeyOf(c)].version]]
    /\ UNCHANGED <<stored, grants, minted, refreshing, authorizing, conns, sessions, opened, disowned, spent>>
\* External: a token gets old.
Ages(k) ==
    /\ stored[k] # Absent /\ stored[k].fresh /\ stored' = [stored EXCEPT ![k].fresh = FALSE]
    /\ UNCHANGED <<grants, minted, refreshing, authorizing, conns, sessions, opened, mcall, disowned, spent>>

McpNext ==
    \/ \E k \in Keys : Authorize(k) \/ Ages(k) \/ \E w \in Processes, reached \in BOOLEAN : Revoke(k, w, reached)
    \/ \E b \in Callbacks :
         \/ \E a \in 1..begun : Complete(b, a)
         \/ PutExchanged(b) \/ \E ok, renewable \in BOOLEAN : Exchange(b, ok, renewable)
    \/ \E c \in McpCalls :
         \/ \E p \in McpUsers, w \in Processes : AskToken(c, p, w)
         \/ LockRefresh(c) \/ PutRefreshed(c) \/ AfterRefusal(c) \/ ForgetRefused(c) \/ UseSession(c)
         \/ \E outcome \in {"unreached", "answered", "lost", "refused"} : AskProvider(c, outcome)
         \/ \E works \in BOOLEAN : SessionOpened(c, works)
         \/ \E outcome \in {"works", "errs", "breaks"} : CallTool(c, outcome)
         \/ TokenRejected(c)
McpSpec == McpInit /\ [][McpNext]_mcpVars

-----------------------------------------------------------------------------
(* An authorization is used once, however often and however close together
   its callback arrives. *)
StateUsedOnce == \A a \in 1..MaxAuthorizations : exchanges[a] <= 1

(* A call runs on a session of its own caller, over eviction, revocation and
   sessions opened at the same time. *)
OwnSession ==
    \A c \in McpCalls : (mcall[c].at = "call" /\ mcall[c].session \in DOMAIN sessions) =>
        /\ sessions[mcall[c].session] = KeyOf(c)
        /\ TokenScope = "user" => sessions[mcall[c].session][2] = mcall[c].who.user

(* No session is open that the table does not have, and there are never more
   than the limit. *)
SessionsKept ==
    /\ Len(conns) <= MaxOAuthConnections
    /\ DOMAIN sessions = {conns[i][2] : i \in DOMAIN conns}

(* A connection is given up only if it has no refresh token, the provider has
   ended it, or its version was rotated for an answer that was lost or for
   another process: calls of one process that find an old token at the same
   time do not use one refresh token twice. *)
Elsewhere(c) == \E w \in (Processes \cup {Nowhere}) \ {mcall[c].process} : <<mcall[c].used, w>> \in spent[KeyOf(c)]
RefreshedOnce ==
    \A c \in McpCalls : mcall[c].at = "forget" =>
        mcall[c].used = 0 \/ mcall[c].used \in disowned[KeyOf(c)] \/ Elsewhere(c)

\* Overlapping callbacks, calls, refreshes and revocations use an authorization once, a refresh token once in a process,
\* and a call only its caller's session, of which none is leaked.
McpSafe == McpTypeOK /\ StateUsedOnce /\ OwnSession /\ SessionsKept /\ RefreshedOnce
=============================================================================
