----------------------------- MODULE ToolCatalog -----------------------------
(***************************************************************************)
(* Where tools come from and how the built-in ones run: the registry       *)
(* (tools/registry.py), tools listed by MCP servers (mcp/client.py,        *)
(* api/mcp_oauth_routes.py), toolkits and their client                     *)
(* (tools/authoring.py), declared HTTP tools (tools/http_api.py) and the   *)
(* workspace tools (tools/starter/fs.py).                                  *)
(***************************************************************************)
EXTENDS Integers, Sequences

CONSTANTS Listers,        \* callbacks that list a server's tools at the same time
          ServerTools,    \* [server -> its tools, a sequence of [name, hints]]
          NormalName,     \* [name -> lower case, with the prefix, "-" as "_"]
          AllowedNames, TrustedServers,
          OperatorPolicy, \* [name -> side effect], for some names
          BuiltInTools,   \* names registered before
          Origins,        \* [scheme, host, port] of next links
          HomeOrigin,     \* the origin of the declared URL
          MaxPages, MaxResultBytes, PageSizes,
          MaxClients,     \* clients opened in a behaviour
          KitCalls,       \* calls that need the toolkit's client
          TextFile,       \* a file, as the offsets between its characters, in bytes, 0 and its size included
          ReadBytes,      \* bytes asked for in one read
          DirTree,        \* [directory -> its entries in order: [name, inside, dir]]
          MaxDirEntries, MaxDirDepth

ASSUME CatalogAssumption ==
    /\ MaxPages \in Nat \ {0} /\ MaxResultBytes \in Nat /\ ReadBytes \in Nat \ {0}
    /\ MaxDirEntries \in Nat /\ MaxDirDepth \in Nat \ {0} /\ HomeOrigin \in Origins /\ PageSizes \subseteq Nat
    /\ "free" \notin KitCalls
    /\ 0 \in TextFile /\ TextFile \subseteq Nat /\ \E size \in TextFile : \A n \in TextFile : n <= size
    /\ \A s \in DOMAIN ServerTools : ServerTools[s] \in Seq([name : STRING, hints : SUBSET STRING])
    /\ \A d \in DOMAIN DirTree : /\ DirTree[d] \in Seq([name : STRING, inside : BOOLEAN, dir : BOOLEAN])
                                 /\ \A i \in DOMAIN DirTree[d] : DirTree[d][i].dir /\ DirTree[d][i].inside =>
                                                                    DirTree[d][i].name \in DOMAIN DirTree

VARIABLES registry,    \* [name -> [owner, effect]]: ToolRegistry
          discovered,  \* the same for _discovered_tools
          listedServers,
          lister,      \* [lister -> [at, server]]
          page,        \* a call of a declared HTTP tool
          kit,         \* the toolkit's client: [client, lock, open, made]
          kcall,       \* [call -> step]
          reads,       \* a model reading a file window by window
          scan         \* a listing of a directory
catalogVars == <<registry, discovered, listedServers, lister, page, kit, kcall, reads, scan>>
listingVars == <<registry, discovered, listedServers, lister>>
Servers == DOMAIN ServerTools
NoHttpPage == [at |-> "idle", caller |-> FALSE, kind |-> "none", url |-> HomeOrigin, pages |-> 0, bytes |-> 0,
           collected |-> <<>>, sentTo |-> {}, ok |-> FALSE]
NoScan == [at |-> "idle", recursive |-> FALSE, stack |-> <<>>, entries |-> <<>>, truncated |-> FALSE]
CatalogInit ==
    /\ registry = [n \in BuiltInTools |-> [owner |-> "core", effect |-> "read"]]
    /\ discovered = [n \in {} |-> [owner |-> "", effect |-> "read"]] /\ listedServers = {}
    /\ lister = [l \in Listers |-> [at |-> "idle", server |-> ""]]
    /\ page = NoHttpPage /\ kit = [client |-> 0, holder |-> "free", open |-> {}, made |-> 0]
    /\ kcall = [c \in KitCalls |-> "idle"]
    /\ reads = [at |-> "reading", offset |-> 0, got |-> 0, truncated |-> TRUE] /\ scan = NoScan
CatalogTypeOK ==
    /\ BuiltInTools \subseteq DOMAIN registry /\ listedServers \subseteq Servers
    /\ page.pages \in 0..MaxPages /\ kit.client \in {0} \cup kit.open
    /\ reads.offset \in Nat /\ Len(scan.entries) <= MaxDirEntries

-----------------------------------------------------------------------------

(* The tools of a server. *)
\* Operator's word, then hints of a trusted server, then the safe default.
Effect(s, t) ==
    IF t.name \in DOMAIN OperatorPolicy THEN OperatorPolicy[t.name]
    ELSE IF s \in TrustedServers THEN
        IF "destructive" \in t.hints THEN "destructive" ELSE IF "read" \in t.hints THEN "read" ELSE "external"
    ELSE "external"
\* The places of the tools an agent may be given, in the server's list.
Offered(s) == {i \in DOMAIN ServerTools[s] : ServerTools[s][i].name \in AllowedNames}
NameAt(s, i) == NormalName[ServerTools[s][i].name]
ToolOf(s, t) == [owner |-> s, effect |-> Effect(s, t)]
\* The first place whose name is taken, in names or earlier in the list; one past the end if none is.
Clashing(s, names) ==
    {i \in Offered(s) : NameAt(s, i) \in names \/ \E j \in Offered(s) : j < i /\ NameAt(s, j) = NameAt(s, i)}
FirstTaken(s, names) ==
    IF Clashing(s, names) = {} THEN Len(ServerTools[s]) + 1
    ELSE CHOOSE i \in Clashing(s, names) : \A j \in Clashing(s, names) : i <= j
Added(table, s, cut) ==
    LET before == {i \in Offered(s) : i < cut}
        new == {NameAt(s, i) : i \in before}
    IN  [n \in DOMAIN table \cup new |->
           IF n \in new THEN ToolOf(s, ServerTools[s][CHOOSE i \in before : NameAt(s, i) = n]) ELSE table[n]]

\* Mutant: a server counts as listed before its tools are registered.
MarkedBefore(s, cut) == listedServers \cup {s}

\* A server counts as listed only when all its tools were taken over.
Marked(s, cut) == IF cut > Len(ServerTools[s]) THEN listedServers \cup {s} ELSE listedServers

\* register, in order, until a name that is taken.
Registered(s) == Added(registry, s, FirstTaken(s, DOMAIN registry))
\* _ensure_tools asks whether the server was listed, then waits for the session and the listing.
EnsureTools(l, s) ==
    /\ lister[l].at = "idle"
    /\ lister' = [lister EXCEPT ![l] = [at |-> IF s \in listedServers THEN "done" ELSE "asking", server |-> s]]
    /\ UNCHANGED <<registry, discovered, listedServers, page, kit, kcall, reads, scan>>
\* The answer: everything from there to the registration is one step.
DiscoverTools(l) ==
    /\ lister[l].at = "asking"
    /\ LET s == lister[l].server
           cut == FirstTaken(s, DOMAIN discovered)
       IN  /\ discovered' = Added(discovered, s, cut)
           /\ listedServers' = Marked(s, cut)
           /\ registry' = IF cut > Len(ServerTools[s]) THEN Registered(s) ELSE registry
    /\ lister' = [lister EXCEPT ![l].at = "done"]
    /\ UNCHANGED <<page, kit, kcall, reads, scan>>
ListingFails(l) ==
    /\ lister[l].at = "asking" /\ lister' = [lister EXCEPT ![l].at = "done"]
    /\ UNCHANGED <<registry, discovered, listedServers, page, kit, kcall, reads, scan>>
\* The next callback.
CallbackOver(l) ==
    /\ lister[l].at = "done" /\ lister' = [lister EXCEPT ![l] = [at |-> "idle", server |-> ""]]
    /\ UNCHANGED <<registry, discovered, listedServers, page, kit, kcall, reads, scan>>

-----------------------------------------------------------------------------
(* A declared HTTP tool: http_api_tool. *)
HttpCall(caller, kind) ==
    /\ page.at = "idle"
    /\ page' = [NoHttpPage EXCEPT !.at = "ask", !.caller = caller, !.kind = kind]
    /\ UNCHANGED <<listingVars, kit, kcall, reads, scan>>

SameOrigin(a, b) == a = b
\* The caller's credential goes to the declared origin only.
AskPage ==
    /\ page.at = "ask"
    /\ page' = IF page.caller /\ page.pages > 0 /\ page.kind = "link_header" /\ ~SameOrigin(page.url, HomeOrigin)
               THEN [page EXCEPT !.at = "refused"]
               ELSE [page EXCEPT !.at = "wait", !.sentTo = @ \cup {page.url}]
    /\ UNCHANGED <<listingVars, kit, kcall, reads, scan>>

\* The number asked for: page_number counts up.
PageNumber(p) == p.pages + 1
\* The answer: its size counts first, then its status, then its items; the page's number stands for them.
PageAnswer(success, size, items, linked, next) ==
    /\ page.at = "wait"
    /\ LET p == [page EXCEPT !.pages = @ + 1, !.bytes = @ + size]
           more == IF page.kind = "link_header" THEN linked ELSE page.kind = "page_param" /\ items
       IN  page' = IF p.bytes > MaxResultBytes THEN [page EXCEPT !.at = "too_large"]
                   ELSE IF ~success THEN [p EXCEPT !.at = "done", !.ok = FALSE, !.collected = <<>>]
                   ELSE IF page.kind = "none" THEN [p EXCEPT !.at = "done", !.ok = TRUE]
                   ELSE [p EXCEPT !.collected = IF items THEN Append(@, PageNumber(page)) ELSE @,
                                  !.url = IF page.kind = "link_header" /\ more THEN next ELSE @,
                                  !.at = IF more /\ p.pages < MaxPages THEN "ask" ELSE "done",
                                  !.ok = ~more \/ p.pages >= MaxPages]
    /\ UNCHANGED <<listingVars, kit, kcall, reads, scan>>
HttpOver ==
    /\ page.at \in {"done", "refused", "too_large"} /\ page' = NoHttpPage
    /\ UNCHANGED <<listingVars, kit, kcall, reads, scan>>

-----------------------------------------------------------------------------

(* The client of a toolkit: opened on first use or at start, closed with the container. *)

\* async with self._client_lock
KitFree == kit.holder = "free"
KitClient(c) ==
    /\ kcall[c] = "idle" /\ KitFree
    /\ IF kit.client # 0 THEN kcall' = [kcall EXCEPT ![c] = "using"] /\ UNCHANGED kit
       ELSE kcall' = [kcall EXCEPT ![c] = "opening"] /\ kit' = [kit EXCEPT !.holder = c]
    /\ UNCHANGED <<listingVars, page, reads, scan>>
\* The factory answers, or the call is refused as not attempted.
KitOpened(c, works) ==
    /\ kcall[c] = "opening" /\ kit.made < MaxClients
    /\ IF works THEN /\ kit' = [client |-> kit.made + 1, holder |-> "free", open |-> kit.open \cup {kit.made + 1}, made |-> kit.made + 1]
                     /\ kcall' = [kcall EXCEPT ![c] = "using"]
       ELSE kit' = [kit EXCEPT !.holder = "free"] /\ kcall' = [kcall EXCEPT ![c] = "refused"]
    /\ UNCHANGED <<listingVars, page, reads, scan>>
KitCallOver(c) ==
    /\ kcall[c] \in {"using", "refused"} /\ kcall' = [kcall EXCEPT ![c] = "idle"]
    /\ UNCHANGED <<listingVars, page, kit, reads, scan>>
KitClose ==
    /\ KitFree /\ kit.client # 0
    /\ kit' = [kit EXCEPT !.client = 0, !.open = @ \ {kit.client}]
    /\ UNCHANGED <<listingVars, page, kcall, reads, scan>>

-----------------------------------------------------------------------------
(* The workspace tools. *)
FileSize == CHOOSE n \in TextFile : \A m \in TextFile : m <= n

Truncated(offset, count) == FileSize > offset + count
\* file_read: a window that cuts a character is not valid text.
ReadWindow(n) ==
    /\ reads.at = "reading"
    /\ LET have == IF reads.offset >= FileSize THEN 0 ELSE FileSize - reads.offset
           count == IF n < have THEN n ELSE have
       IN  reads' = IF reads.offset + count \in TextFile
                    THEN LET cut == Truncated(reads.offset, count)
                         IN  [at |-> IF cut THEN "reading" ELSE "end", offset |-> reads.offset + count,
                              got |-> reads.got + count, truncated |-> cut]
                    ELSE [reads EXCEPT !.at = "not_text"]
    /\ UNCHANGED <<listingVars, page, kit, kcall, scan>>
\* directory_list: depth first, entries outside the workspace left out.
StartScan(d, recursive) ==
    /\ scan.at = "idle" /\ scan' = [NoScan EXCEPT !.at = "scanning", !.recursive = recursive, !.stack = <<[dir |-> d, next |-> 1]>>]
    /\ UNCHANGED <<listingVars, page, kit, kcall, reads>>

ListingFull == Len(scan.entries) >= MaxDirEntries
ScanEntry ==
    /\ scan.at = "scanning"
    /\ LET f == scan.stack[Len(scan.stack)]
           below == SubSeq(scan.stack, 1, Len(scan.stack) - 1)
           here == DirTree[f.dir]
       IN  IF f.next > Len(here)
           THEN scan' = [scan EXCEPT !.stack = below, !.at = IF below = <<>> THEN "done" ELSE "scanning"]
           ELSE IF ListingFull
           THEN scan' = [scan EXCEPT !.truncated = TRUE, !.at = "done", !.stack = <<>>]
           ELSE LET e == here[f.next]
                    after == Append(below, [f EXCEPT !.next = @ + 1])
                IN  scan' = [scan EXCEPT
                        !.entries = IF e.inside THEN Append(@, <<f.dir, e.name>>) ELSE @,
                        !.stack = IF e.inside /\ e.dir /\ scan.recursive /\ Len(scan.stack) < MaxDirDepth
                                  THEN Append(after, [dir |-> e.name, next |-> 1]) ELSE after]
    /\ UNCHANGED <<listingVars, page, kit, kcall, reads>>

ListingNext == \E l \in Listers : DiscoverTools(l) \/ ListingFails(l) \/ CallbackOver(l) \/ \E s \in Servers : EnsureTools(l, s)
HttpNext ==
    \/ \E caller \in BOOLEAN, kind \in {"none", "link_header", "page_param"} : HttpCall(caller, kind)
    \/ \E success, items, linked \in BOOLEAN, size \in PageSizes, next \in Origins : PageAnswer(success, size, items, linked, next)
    \/ AskPage \/ HttpOver
KitNext == KitClose \/ \E c \in KitCalls : KitClient(c) \/ KitCallOver(c) \/ \E works \in BOOLEAN : KitOpened(c, works)
FilesNext ==
    \/ \E n \in 1..ReadBytes : ReadWindow(n)
    \/ \E d \in DOMAIN DirTree, recursive \in BOOLEAN : StartScan(d, recursive)
    \/ ScanEntry
CatalogNext == ListingNext \/ HttpNext \/ KitNext \/ FilesNext
CatalogSpec == CatalogInit /\ [][CatalogNext]_catalogVars

-----------------------------------------------------------------------------
(* A server that counts as listed has all its tools in the table: a listing
   that stops at a name conflict, or runs beside another, is not taken for a
   whole one, after which nobody would list the server again. *)
ListedIsWhole ==
    \A s \in listedServers : \A i \in Offered(s) :
        NameAt(s, i) \in DOMAIN discovered /\ discovered[NameAt(s, i)].owner = s

(* A name keeps its tool: whatever servers list later, and however their
   names are written, an agent's tool is never replaced under its name. *)
NamesKept == \A n \in DOMAIN registry : n \in DOMAIN registry' /\ registry'[n] = registry[n]

(* A tool is taken for a harmless read only on the word of the operator or
   of a server the operator trusts. *)
ReadsTrusted ==
    \A n \in DOMAIN registry : registry[n].effect = "read" =>
        \/ registry[n].owner \in TrustedServers \cup {"core"}
        \/ \E t \in DOMAIN OperatorPolicy : NormalName[t] = n /\ OperatorPolicy[t] = "read"

(* The caller's credential reaches only the declared origin, whatever next
   links the answers of the pages name. *)
CredentialStays == page.caller => page.sentTo \subseteq {HomeOrigin}

(* The items of a paged answer are those of its pages in order, each once. *)
PagesInOrder ==
    page.kind = "page_param" => \A i, j \in DOMAIN page.collected : i < j => page.collected[i] < page.collected[j]

(* There is never more than one open client, and the one open is the one
   the toolkit will close. *)
OneClient == kit.open \subseteq {kit.client}

(* Reading window after window until nothing is reported missing has read
   the whole file. *)
ReadToTheEnd == reads.at = "end" => reads.got = FileSize

\* Names keep their tools and listings their servers, reads are trusted on an operator's word only,
\* credentials stay at home, and windows and pages cover the whole, once.
CatalogSafe ==
    /\ [](CatalogTypeOK /\ ListedIsWhole /\ ReadsTrusted /\ CredentialStays /\ PagesInOrder
          /\ OneClient /\ ReadToTheEnd)
    /\ [][NamesKept]_registry
=============================================================================
