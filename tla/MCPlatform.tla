---------------------------- MODULE MCPlatform ----------------------------
(***************************************************************************)
(* The work queue and the parts of the platform around a run, each         *)
(* checked on its own instance in one run of TLC: part says which one      *)
(* moves, and the others stay as they began.                               *)
(***************************************************************************)
EXTENDS WorkQueue, Decisions, ToolCatalog, Deployment, Analytics, RunContext, MemoryStore, ChildWorkflow,
        Chunking, Retrieval, Storage, Outbound, PluginTrust, TLC

CONSTANTS i1, i2, i3, k1, k2, r1, r2,
          wr1, wr2   \* two calls that write
VARIABLE part

-----------------------------------------------------------------------------
(* The queue: three items, two of them with the same deduplication key,    *)
(* two workers and two attempts: enough for a takeover of an expired       *)
(* lease, a stale claimant that reports late, and a key that is enqueued   *)
(* again after a purge.                                                    *)

MCItems == {i1, i2, i3}
MCKeys == {k1, k2}
MCKeyOf == [i \in MCItems |-> IF i = i3 THEN k2 ELSE k1]
MCRunners == {r1, r2}
MCWorkerOf == [r \in MCRunners |-> r]

-----------------------------------------------------------------------------
(* Policies: two bundles that load, one not signed by a trusted key, and   *)
(* two of one name; agents, tools and payloads that meet every policy.     *)

MCBundle(n, s) ==
  [name |-> n, signer |-> s, readable |-> TRUE, valid |-> TRUE, expired |-> FALSE, future |-> FALSE,
   version |-> 1, minVersion |-> 1, denyTools |-> {"wipe"}, approvalTools |-> {"send"},
   denies |-> {"banned"}, redacts |-> {"masked"},
   points |-> {"input", "after_tool", "before_tool", "final_response"}]
MCBundles ==
  {<<MCBundle("bundle:a", "k"), [MCBundle("bundle:b", "") EXCEPT !.denies = {"secret"}, !.redacts = {"pii"}]>>,
   <<MCBundle("bundle:a", "x")>>,
   <<MCBundle("bundle:a", "k"), MCBundle("bundle:a", "k")>>}
MCGuardedAgents ==
  {[policies |-> {"secrets", "pii", "prompt_injection", "output_validation"}, toolPolicies |-> {"secrets", "pii"}],
   [policies |-> {"pii"}, toolPolicies |-> NoSelection]}
MCTools ==
  {[name |-> "send", writes |-> TRUE, permitted |-> TRUE], [name |-> "read", writes |-> FALSE, permitted |-> TRUE],
   [name |-> "wipe", writes |-> TRUE, permitted |-> FALSE]}
MCPayloads == {{}, {"secret", "pii"}, {"pii", "address"}, {"override", "secret"}, {"marker"},
               {"banned", "secret"}, {"masked", "pii"}, {"address"}}

-----------------------------------------------------------------------------
(* Tools: three MCP servers whose names meet after normalisation or with a *)
(* built-in tool, an HTTP tool, a toolkit and a directory.                 *)

MCTool(n, h) == [name |-> n, hints |-> h]
MCServerTools ==
  [sa |-> <<MCTool("find", {"read"}), MCTool("Wipe", {"destructive"})>>,
   sb |-> <<MCTool("list-all", {"read"}), MCTool("list_all", {}), MCTool("more", {})>>,
   sc |-> <<MCTool("send", {"read"}), MCTool("clock", {"read"})>>]
MCToolNames == {"find", "Wipe", "list-all", "list_all", "send", "clock", "more"}
MCNormal == [n \in MCToolNames |-> CASE n = "Wipe" -> "wipe" [] n = "list-all" -> "list_all" [] OTHER -> n]
MCOperator == [n \in {"find"} |-> "external"]
MCHomeOrigin == [scheme |-> "https", host |-> "h", port |-> 443]
MCOrigins == {MCHomeOrigin, [MCHomeOrigin EXCEPT !.scheme = "http"]}
MCTextFile == {0, 1, 3, 4}
MCDirs ==
  [top |-> <<[name |-> "sub", inside |-> TRUE, dir |-> TRUE], [name |-> "away", inside |-> FALSE, dir |-> TRUE]>>,
   sub |-> <<[name |-> "f", inside |-> TRUE, dir |-> FALSE], [name |-> "g", inside |-> TRUE, dir |-> FALSE]>>,
   away |-> <<>>]

-----------------------------------------------------------------------------
(* Deployments: remote stores and an MCP server, tokens and toolkits, and  *)
(* two that name a tool nobody registers.                                  *)

MCKinds == {"run", "artifact", "token_revocation", "mcp_oauth_token"}
MCBase ==
  [backend |-> [k \in MCKinds |-> "memory"], revocation |-> FALSE, cache |-> "none",
   sameUrl |-> FALSE, mcp |-> {}, toolkits |-> {}, uses |-> {"tool"}, builtin |-> {"tool"},
   pluginNames |-> {}, providers |-> {"provider"}, strict |-> TRUE, requireDurable |-> TRUE,
   requiredNames |-> {}, optionalNames |-> {}, providerRule |-> "any", maintenance |-> TRUE,
   outbound |-> FALSE, distributed |-> FALSE, retrievers |-> {}, adapter |-> "none"]
MCRemote ==
  [MCBase EXCEPT
    !.backend = [k \in MCKinds |-> IF k = "run" THEN "redis" ELSE IF k = "artifact" THEN "s3" ELSE "memory"],
    !.cache = "redis", !.sameUrl = TRUE, !.uses = {"tool", "mcp_x"},
    !.mcp = {[name |-> "server", required |-> TRUE, oauth |-> TRUE, tools |-> {"mcp_x"}]},
    !.requiredNames = {"server"}, !.adapter = "adapter", !.retrievers = {"docs"}, !.maintenance = FALSE]
MCTokens ==
  [MCBase EXCEPT
    !.backend = [k \in MCKinds |-> IF k \in {"run", "token_revocation"} THEN "postgres" ELSE "memory"],
    !.revocation = TRUE,
    !.toolkits = {[name |-> "kit", required |-> FALSE], [name |-> "base", required |-> TRUE]},
    !.uses = {"tool", "plugged"}, !.pluginNames = {"plugged"}, !.cache = "redis",
    !.requiredNames = {"artifact"}, !.outbound = TRUE, !.adapter = "kit", !.optionalNames = {"run"},
    !.providerRule = "all"]
MCUnknown == [MCBase EXCEPT !.uses = {"tool", "misspelt"}, !.requiredNames = {"nothing"}]
MCDeployments == {MCRemote, MCTokens, MCUnknown, [MCUnknown EXCEPT !.strict = FALSE, !.maintenance = FALSE]}

-----------------------------------------------------------------------------
(* Analytics: a graph of three nodes of which two share a concurrency key, *)
(* drives in two processes; governed questions; queries over four models;  *)
(* predictions that fall back.                                             *)

MCDeps == [a |-> {}, b |-> {}, c |-> {"a", "b"}]
MCKey == [a |-> "k", b |-> "k", c |-> ""]
MCProcess == [d \in Drives |-> IF d = "d3" THEN 2 ELSE 1]
MCAsk == [sql |-> "s", auth |-> "x", tenant |-> "t", purpose |-> "p", tags |-> {"g"}, columns |-> {},
          certified |-> TRUE, observed |-> 0, estimate |-> 1, actions |-> {}]
MCQuestions == [q1 |-> MCAsk, q2 |-> MCAsk, q3 |-> [MCAsk EXCEPT !.auth = "y"],
                q4 |-> [MCAsk EXCEPT !.columns = {"secret"}]]
MCPolicy == [purposes |-> {"p"}, tags |-> {"g"}, deniedColumns |-> {"secret"}, certified |-> TRUE,
             maxRows |-> 1, concurrency |-> 1, actions |-> {}]
MCFilter(f, v) == [field |-> f, value |-> v]
MCModel == [certification |-> "verified", sensitivity |-> "internal", tags |-> {}, required |-> {}, defaults |-> {}]
MCModels ==
  [sales |-> [MCModel EXCEPT !.defaults = {MCFilter("live", TRUE)}, !.required = {"day"}],
   shops |-> [MCModel EXCEPT !.defaults = {MCFilter("open", TRUE)}],
   staff |-> [MCModel EXCEPT !.sensitivity = "restricted"], costs |-> MCModel]
MCJoins ==
  {[left |-> "sales", right |-> "shops", tags |-> {}, relationship |-> "many_to_one", fanoutSafe |-> FALSE],
   [left |-> "shops", right |-> "costs", tags |-> {"finance"}, relationship |-> "many_to_one", fanoutSafe |-> FALSE],
   [left |-> "sales", right |-> "staff", tags |-> {}, relationship |-> "one_to_many", fanoutSafe |-> FALSE]}
MCFilterSeqs ==
  {<<>>, <<MCFilter("day", TRUE)>>, <<MCFilter("live", FALSE), MCFilter("day", TRUE)>>,
   <<MCFilter("day", TRUE), MCFilter("day", FALSE)>>, <<MCFilter("open", FALSE), MCFilter("day", TRUE)>>}
MCQueries ==
  {[models |-> m \cup {"sales"}, base |-> "sales", filters |-> f, shape |-> sh] :
     m \in SUBSET {"shops", "staff", "costs"}, f \in MCFilterSeqs, sh \in {"plain", "advanced", "unsupported"}}
MCCaller == [certification |-> "verified", sensitivity |-> "confidential", tags |-> {}]
MCVersions ==
  {[name |-> "m", version |-> 1, enabled |-> TRUE, drifted |-> FALSE, batch |-> 2],
   [name |-> "m", version |-> 2, enabled |-> TRUE, drifted |-> TRUE, batch |-> 2],
   [name |-> "f", version |-> 1, enabled |-> TRUE, drifted |-> FALSE, batch |-> 1],
   [name |-> "f", version |-> 2, enabled |-> FALSE, drifted |-> FALSE, batch |-> 2]}
MCCandidates == {<<[name |-> "m", version |-> 0], [name |-> "f", version |-> 0]>>,
                 <<[name |-> "f", version |-> 2], [name |-> "m", version |-> 1]>>}
MCPredictions == [candidates : MCCandidates, inputs : 1..2, allowDrifted : BOOLEAN]

-----------------------------------------------------------------------------
(* A run's context, a tenant's memories, chunks and documents.             *)

MCTexts == [x |-> [owner |-> "o1", length |-> 5, retention |-> 2], y |-> [owner |-> "o2", length |-> 2, retention |-> 1]]
MCFile == [tenant |-> "t", type |-> "png", bytes |-> 1, broken |-> FALSE]
MCFiles == [f1 |-> MCFile, f2 |-> [MCFile EXCEPT !.type = "pdf"], f3 |-> [MCFile EXCEPT !.tenant = "u"]]
MCGiven == [tenant |-> "t", attachments |-> <<[id |-> "f1", declared |-> ""], [id |-> "f2", declared |-> "pdf"]>>,
            models |-> {{"images"}, {"images", "files"}}]
MCSkillAgents ==
  <<[permissions |-> {"p"}, skills |-> [k1 |-> [version |-> 1, needs |-> {}], k2 |-> [version |-> 1, needs |-> {"p"}]]],
    [permissions |-> {}, skills |-> [k1 |-> [version |-> 2, needs |-> {}], k2 |-> [version |-> 1, needs |-> {"p"}]]]>>
MCDocuments == <<1, 2, 1>>

MCScopeOf == [c \in MemoryCalls |-> [tenant |-> "t", user |-> "u1", agent |-> "g"]]
MCRights == ("c1" :> {"recall"}) @@ ("c2" :> {"delete"}) @@ [c \in {wr1, wr2} |-> {"write"}]
\* The two that write are alike: the first to begin is wr1.  Of the four calls one may be denied, and three repeated.
FirstWrites ==
  /\ memCall'[wr2].stage # "new" => memCall'[wr1].stage # "new"
  /\ \A c \in MemoryCalls : memCall'[c].why = "denied" => c = "c1"
  /\ memCall'[wr2].replays = 0
\* Probes and sweeps only share the pools they may open; here they do not overlap.
ProbesAside == report'.at = "probing" => sweeping' # "busy"
MCSizes == [a |-> 2, redacted |-> 1] @@ ("" :> 0)
MCQuota == [items |-> 1, bytes |-> -1]
MCTenantQuota == [t |-> [bytes |-> 1]]

MCLine(id, len, frame) == [id |-> id, len |-> len, frame |-> frame]
MCRows(id, lens) == [i \in DOMAIN lens |-> MCLine(id + i, lens[i], FALSE)]
MCPlain(id, lens) == [kind |-> "plain", lines |-> MCRows(id, lens)]
MCFence(id, lens) == [kind |-> "fence", lines |-> <<MCLine(id, 1, TRUE)>> \o MCRows(id, lens) \o <<MCLine(id + 9, 1, TRUE)>>]
MCUnclosed(id, lens) == [kind |-> "unclosed", lines |-> <<MCLine(id, 1, TRUE)>> \o MCRows(id, lens)]
MCTable(id, lens) == [kind |-> "table", lines |-> <<MCLine(id, 1, TRUE), MCLine(id + 1, 2, TRUE)>> \o MCRows(id + 1, lens)]
MCLens == {<<x, y>> : x \in {1, 3, 5, 12}, y \in {2, 7, 12}}
MCFirst == UNION {{MCPlain(0, l), MCFence(0, l), MCUnclosed(0, l), MCTable(0, l)} : l \in MCLens}
MCBlocks == {<<>>} \cup {<<b, MCPlain(20, <<n>>)>> : b \in MCFirst, n \in {1, 4}}

MCSource(t, d, v) == [tenant |-> t, doc |-> d, version |-> v]
MCSources == {MCSource("t1", "d1", "v1"), MCSource("t1", "d1", "v2"), MCSource("t2", "d2", "v1")}
MCConfigured == {MCSource("t1", "d1", "v1")}
MCCounts == [v1 |-> 2, v2 |-> 1]

-----------------------------------------------------------------------------
(* Replicas of two releases; hosts under one domain, a literal address and *)
(* the proxy; plugins whose components depend on what their package holds. *)

MCMigrations == [r \in Replicas |-> IF r = "new" THEN 3 ELSE 2]

MCDomains == [h \in {"api.x", "db.x", "ip", "proxy"} |->
                CASE h = "api.x" -> <<"api.x", "x">> [] h = "db.x" -> <<"db.x", "x">> [] OTHER -> <<h>>]
MCLiterals == [h \in {"ip"} |-> "private1"]
MCRemotes == [d \in {"api.x", "x", "proxy"} |->
                CASE d = "api.x" -> [exact |-> TRUE, pins |-> {"good"}]
                  [] d = "x" -> [exact |-> FALSE, pins |-> {}]
                  [] OTHER -> [exact |-> TRUE, pins |-> {"other"}]]

MCPackageOf == [p1 |-> "a", p2 |-> "b"]
MCPluginKeys == [acme |-> {"k1", "k2"}]
MCSigners == {<<"acme", "k2">>, <<"acme", "k3">>, <<"other", "k3">>}
MCRegisters == [p1 |-> [v1 |-> <<"t1", "t2">>, v2 |-> <<"t1">>], p2 |-> [v1 |-> <<"t2">>, v2 |-> <<"t3">>]]
MCPlugins == <<"p1", "p2">>

-----------------------------------------------------------------------------
Parts == {"queue", "policies", "tool listing", "http tool", "toolkit", "file tools", "deployment",
          "graph", "governed query", "semantic query", "model service",
          "history", "shelf", "attachments", "skills",
          "memory", "child workflow", "chunking", "retrieval",
          "artifacts", "redis", "migrations", "outbound", "approvals", "plugins"}

\* A part that does not move begins in one of its initial states only.
Pinned(moving, v, value) == part \notin moving => v = value

PlatformInit ==
  /\ part \in Parts
  /\ Init
  /\ PolicyInit /\ Pinned({"policies"}, files, CHOOSE b \in BundleConfigs : TRUE)
  /\ CatalogInit
  /\ DeployInit /\ Pinned({"deployment"}, settings, MCUnknown)
  /\ AnalyticsInit
  /\ ContextInit
  /\ MemoryInit
  /\ ChildInit
  /\ IF part = "chunking" THEN ChunkInit
     ELSE outline = NoOutline /\ wording = NoWording /\ packing = NoPacking /\ paper = <<>>
  /\ RetrievalInit /\ Pinned({"retrieval"}, store, "postgres")
  /\ StorageInit
  /\ NetInit /\ Pinned({"outbound"}, netConfig, [guarded |-> TRUE, proxied |-> FALSE, resolves |-> FALSE, private |-> FALSE])
  /\ ApprovalInit /\ Pinned({"approvals"}, durable, TRUE)
  /\ PluginInit /\ Pinned({"plugins"}, signing, "off")

PlatformNext ==
  /\ UNCHANGED part
  /\ \/ part = "queue" /\ Next
     \/ part = "policies" /\ PolicyNext
     \/ part = "tool listing" /\ ListingNext
     \/ part = "http tool" /\ HttpNext
     \/ part = "toolkit" /\ KitNext
     \/ part = "file tools" /\ FilesNext
     \/ part = "deployment" /\ DeployNext /\ ProbesAside
     \/ part = "graph" /\ GraphNext
     \/ part = "governed query" /\ QueryNext
     \/ part = "semantic query" /\ CompileNext
     \/ part = "model service" /\ ServiceNext
     \/ part = "history" /\ HistoryNext
     \/ part = "shelf" /\ ShelfNext
     \/ part = "attachments" /\ FilesAttachedNext
     \/ part = "skills" /\ SkillsNext
     \/ part = "memory" /\ MemoryNext /\ FirstWrites
     \/ part = "child workflow" /\ ChildNext
     \/ part = "chunking" /\ ChunkNext
     \/ part = "retrieval" /\ RetrievalNext
     \/ part = "artifacts" /\ ArtifactNext
     \/ part = "redis" /\ RedisNext
     \/ part = "migrations" /\ MigrationNext
     \/ part = "outbound" /\ NetNext
     \/ part = "approvals" /\ ApprovalNext
     \/ part = "plugins" /\ PluginNext
  /\ IF part = "queue" THEN TRUE ELSE UNCHANGED vars
  /\ IF part = "policies" THEN TRUE ELSE UNCHANGED policyVars
  /\ IF part \in {"tool listing", "http tool", "toolkit", "file tools"} THEN TRUE ELSE UNCHANGED catalogVars
  /\ IF part = "deployment" THEN TRUE ELSE UNCHANGED deployVars
  /\ IF part \in {"graph", "governed query", "semantic query", "model service"} THEN TRUE ELSE UNCHANGED analyticsVars
  /\ IF part \in {"history", "shelf", "attachments", "skills"} THEN TRUE ELSE UNCHANGED contextVars
  /\ IF part = "memory" THEN TRUE ELSE UNCHANGED memoryVars
  /\ IF part = "child workflow" THEN TRUE ELSE UNCHANGED childVars
  /\ IF part = "chunking" THEN TRUE ELSE UNCHANGED chunkVars
  /\ IF part = "retrieval" THEN TRUE ELSE UNCHANGED retrievalVars
  /\ IF part \in {"artifacts", "redis", "migrations"} THEN TRUE ELSE UNCHANGED storageVars
  /\ IF part = "outbound" THEN TRUE ELSE UNCHANGED netVars
  /\ IF part = "approvals" THEN TRUE ELSE UNCHANGED approvalVars
  /\ IF part = "plugins" THEN TRUE ELSE UNCHANGED pluginVars

platformVars == <<part, vars, policyVars, catalogVars, deployVars, analyticsVars, contextVars, memoryVars, childVars,
                  chunkVars, retrievalVars, storageVars, netVars, approvalVars, pluginVars>>

PlatformSpec == PlatformInit /\ [][PlatformNext]_platformVars

\* What becomes of the texts a model reads: a document is cut into chunks without a loss (retrieval/ingestion.py),
\* and what is said, found, attached and taught is sent whole and only as it is allowed (context/).
TextsSafe == []ChunkSafe /\ ContextSafe
=============================================================================
