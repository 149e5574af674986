---------------------------- MODULE ResponseCache ----------------------------
(***************************************************************************)
(* The cache service and its in-memory store (cache/service.py,            *)
(* cache/stores.py): scoped keys, one load at a time for a key, a bounded  *)
(* store with least-recent eviction, and invalidation by tag.              *)
(*                                                                         *)
(* A caller asks for one thing on behalf of a tenant and a user.  What is  *)
(* loaded carries its tenant and the version the source had.               *)
(***************************************************************************)
EXTENDS Naturals, Sequences, FiniteSets, SequencesExt, OrderedTable

CONSTANTS CacheCallers, CallerContext,  \* [caller -> [tenant, user, session]], Missing where it has none
          CacheScopeOf,     \* the policy's scope: global, tenant, user or session
          MaxEntries,       \* of the store
          MaxVersion,       \* changes of the source in a behaviour
          NoCaller

ASSUME CacheAssumption == MaxEntries \in Nat /\ NoCaller \notin CacheCallers

VARIABLES items,        \* the store, least recently used first: <<key, value, stored>>
          tagIndex,     \* keys under the source's tag
          inflight,     \* [key -> the caller that loads it]
          asking,       \* a caller's request
          source,       \* version of the data
          invalidated   \* not in the code: version at the last invalidation that took effect
cacheVars == <<items, tagIndex, inflight, asking, source, invalidated>>

Asked == [at |-> "idle", value |-> <<>>, owner |-> NoCaller, future |-> "none"]
NoKey == <<>>
Missing == ""

\* _scope_material: what the scope requires must be there, else the cache is bypassed.
ScopeKey(c) ==
    LET x == CallerContext[c]
        parts == CASE CacheScopeOf = "global" -> <<"global">>
                   [] CacheScopeOf = "tenant" -> <<x.tenant>>
                   [] CacheScopeOf = "user" -> <<x.tenant, x.user>>
                   [] OTHER -> <<x.tenant, x.user, x.session>>
    IN  IF \E i \in DOMAIN parts : parts[i] = Missing THEN NoKey ELSE parts
CacheKeys == {ScopeKey(c) : c \in CacheCallers}
CacheInit ==
    /\ items = <<>> /\ tagIndex = {} /\ inflight = [k \in CacheKeys |-> NoCaller]
    /\ asking = [c \in CacheCallers |-> Asked]
    /\ source = 1 /\ invalidated = 0

-----------------------------------------------------------------------------
(* The store. *)
Without(k) == Drop(items, k)
Stored(k) == {items[i] : i \in {j \in DOMAIN items : items[j][1] = k}}

\* set: the newest last; the oldest goes, with its tags, when there are too many.
Evicted(q, index) ==
    IF Len(q) <= MaxEntries THEN <<q, index>> ELSE <<Tail(q), index \ {Head(q)[1]}>>
SetItem(k, value) ==
    LET e == Evicted(Append(Without(k), <<k, value, source>>), tagIndex \cup {k})
    IN  items' = e[1] /\ tagIndex' = e[2]
\* get of an entry past its time removes it.
ExpireItem(k) ==
    /\ Stored(k) # {}
    /\ items' = Without(k) /\ tagIndex' = tagIndex \ {k}
    /\ UNCHANGED <<inflight, asking, source, invalidated>>

\* Every key of the tag is popped; the others keep their order.
Nth(S, n) == CHOOSE i \in S : Cardinality({j \in S : j <= i}) = n
InvalidateTags(q, index) ==
    LET kept == {i \in DOMAIN q : q[i][1] \notin index}
    IN  [n \in 1..Cardinality(kept) |-> q[Nth(kept, n)]]
Invalidate ==
    /\ items' = InvalidateTags(items, tagIndex) /\ tagIndex' = {}
    /\ invalidated' = source
    /\ UNCHANGED <<inflight, asking, source>>
\* External: the data behind the loader changes.
SourceChanges == source < MaxVersion /\ source' = source + 1 /\ UNCHANGED <<items, tagIndex, inflight, asking, invalidated>>

-----------------------------------------------------------------------------
(* get_or_set_json *)
\* The loader's result is the data of the caller that loads.
LoadedBy(c) == [tenant |-> CallerContext[c].tenant, user |-> CallerContext[c].user, version |-> source]
CacheGet(c) ==
    /\ asking[c].at = "idle"
    /\ LET k == ScopeKey(c)
           hit == Stored(k) # {}
           value == (CHOOSE e \in Stored(k) : TRUE)[2]
       IN  \/ /\ hit /\ items' = Append(Without(k), CHOOSE e \in Stored(k) : TRUE)
              /\ asking' = [asking EXCEPT ![c] = [@ EXCEPT !.at = "served", !.value = value]]
           \* A miss, or a store that fails: the caller loads.
           \/ /\ asking' = [asking EXCEPT ![c] = [@ EXCEPT !.at = IF k = NoKey THEN "bypass" ELSE "claim"]]
              /\ items' = items
    /\ UNCHANGED <<tagIndex, inflight, source, invalidated>>
Bypass(c) ==
    /\ asking[c].at = "bypass"
    /\ asking' = [asking EXCEPT ![c] = [@ EXCEPT !.at = "served", !.value = LoadedBy(c)]]
    /\ UNCHANGED <<items, tagIndex, inflight, source, invalidated>>

OwnsLoad(c) == inflight[ScopeKey(c)] = NoCaller
Claim(c) ==
    /\ asking[c].at = "claim"
    /\ IF OwnsLoad(c)
       THEN /\ inflight' = [inflight EXCEPT ![ScopeKey(c)] = c]
            /\ asking' = [asking EXCEPT ![c] = [@ EXCEPT !.at = "load", !.future = "pending"]]
       ELSE /\ asking' = [asking EXCEPT ![c] = [@ EXCEPT !.at = "wait", !.owner = inflight[ScopeKey(c)]]]
            /\ UNCHANGED inflight
    /\ UNCHANGED <<items, tagIndex, source, invalidated>>
Loads(c) ==
    /\ asking[c].at = "load"
    /\ asking' = [asking EXCEPT ![c] = [@ EXCEPT !.at = "store", !.value = LoadedBy(c)]]
    /\ UNCHANGED <<items, tagIndex, inflight, source, invalidated>>
\* set_json gives up quietly when the store fails or the value is too large.
StoreLoaded(c) ==
    /\ asking[c].at = "store"
    /\ SetItem(ScopeKey(c), asking[c].value) \/ UNCHANGED <<items, tagIndex>>
    /\ asking' = [asking EXCEPT ![c] = [@ EXCEPT !.at = "release", !.future = "value"]]
    /\ UNCHANGED <<inflight, source, invalidated>>

\* Mutant: a cancelled load leaves its future without an outcome.
FutureIgnoresCancel(cancelled) == IF cancelled THEN "pending" ELSE "error"

\* except BaseException: a cancellation ends the future too.
FutureAfterRaise(cancelled) == "error"
LoadRaises(c, cancelled) ==
    /\ asking[c].at \in {"load", "store"}
    /\ asking' = [asking EXCEPT ![c] = [@ EXCEPT !.at = "release", !.future = FutureAfterRaise(cancelled), !.value = <<>>]]
    /\ UNCHANGED <<items, tagIndex, inflight, source, invalidated>>
ReleaseKey(c) ==
    /\ asking[c].at = "release"
    /\ inflight' = [inflight EXCEPT ![ScopeKey(c)] = NoCaller]
    /\ asking' = [asking EXCEPT ![c] = [@ EXCEPT !.at = IF asking[c].future = "value" THEN "served" ELSE "raised"]]
    /\ UNCHANGED <<items, tagIndex, source, invalidated>>
\* A waiter shields the future: its own cancellation leaves the load alone.
WaiterWakes(c) ==
    /\ asking[c].at = "wait"
    /\ LET o == asking[asking[c].owner]
       IN  /\ o.future # "pending"
           /\ asking' = [asking EXCEPT ![c] = [@ EXCEPT !.at = IF o.future = "value" THEN "served" ELSE "raised",
                                                       !.value = o.value]]
    /\ UNCHANGED <<items, tagIndex, inflight, source, invalidated>>

CacheNext ==
    \/ Invalidate \/ SourceChanges \/ \E k \in CacheKeys : ExpireItem(k)
    \/ \E c \in CacheCallers :
         \/ CacheGet(c) \/ Bypass(c) \/ Claim(c) \/ Loads(c) \/ StoreLoaded(c) \/ ReleaseKey(c) \/ WaiterWakes(c)
         \/ \E cancelled \in BOOLEAN : LoadRaises(c, cancelled)
CacheSpec == CacheInit /\ [][CacheNext]_cacheVars

-----------------------------------------------------------------------------
(* The tag index names exactly the stored entries, over replacement,
   eviction, expiry and invalidation: an entry it misses could not be
   invalidated, one it keeps would leak. *)
TagIndexExact == /\ tagIndex = {items[i][1] : i \in DOMAIN items}
                 /\ Len(items) <= MaxEntries /\ Cardinality(tagIndex) = Len(items)

(* A value is served only where its scope reaches: loaded for one tenant it
   never answers another, also through a load they wait for together. *)
ServedInScope ==
    \A c \in CacheCallers : (asking[c].at = "served" /\ CacheScopeOf # "global") =>
        /\ asking[c].value.tenant = CallerContext[c].tenant
        /\ CacheScopeOf # "tenant" => asking[c].value.user = CallerContext[c].user

(* A key is loaded by one caller at a time. *)
OneLoad ==
    LET loading == {c \in CacheCallers : asking[c].at \in {"load", "store"}}
    IN  \A c, d \in loading : c # d => ScopeKey(c) # ScopeKey(d)

(* Nobody waits for a load that is over: the owner still works on it or its
   future has an outcome, a cancelled owner included. *)
WaitersCanWake ==
    \A c \in CacheCallers : asking[c].at = "wait" =>
        \/ asking[asking[c].owner].at \in {"load", "store"}
        \/ asking[asking[c].owner].future \in {"value", "error"}

(* What was stored before an invalidation is gone after it; only a load that
   was under way may still bring the old version back. *)
InvalidatedGone ==
    invalidated' # invalidated => \A i \in DOMAIN items' : items'[i][3] > source

\* The cache serves nothing out of scope and keeps nothing that was invalidated, loads a key once at a
\* time and leaves nobody waiting, over evictions, expiry and cancelled loads.
CacheSafe ==
    /\ [](TagIndexExact /\ ServedInScope /\ OneLoad /\ WaitersCanWake)
    /\ [][InvalidatedGone]_cacheVars
=============================================================================
