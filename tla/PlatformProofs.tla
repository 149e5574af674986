--------------------------- MODULE PlatformProofs ---------------------------
(***************************************************************************)
(* What is proved of the platform around a run: the work queue, for every  *)
(* set of items, keys and workers and every maximum number of attempts;    *)
(* outbound connections, for every set of hosts, addresses, allowlists and *)
(* pins; a workflow run inside a workflow with the retention sweep over    *)
(* both, for every number of tasks and crashes; learned memory, for every  *)
(* number of tool calls, keys and quotas; Decisions, for every set of      *)
(* policies, bundles and payloads and every number of approvers; a host,   *)
(* for every set of deployments and of plugins and their packages; and an  *)
(* agent's tools, for every list of every server and every directory.      *)
(***************************************************************************)
EXTENDS WorkQueue, Outbound, ChildWorkflow, MemoryStore, Decisions, Deployment, ToolCatalog, SequenceTheorems, FiniteSetTheorems, WellFoundedInduction, TLAPS

-----------------------------------------------------------------------------
(* WorkQueue.                                                              *)

\* Type correctness of the queue and its workers (queue.py, worker.py): in
\* particular no claim takes an item past its maximum number of attempts.
THEOREM TypeCorrect == Spec => []TypeOK
<1>1. Init => TypeOK
  BY ConstantsAssumption DEF Init, TypeOK, WorkItem, WorkStatus, Availability
<1>2. TypeOK /\ [Next]_vars => TypeOK'
  <2> SUFFICES ASSUME TypeOK, [Next]_vars PROVE TypeOK'
    OBVIOUS
  <2> USE ConstantsAssumption DEF TypeOK, WorkItem, WorkStatus, Finished, row, runner
  <2>1. ASSUME NEW i \in Items, NEW a \in Availability, Enqueue(i, a) PROVE TypeOK'
    BY <2>1 DEF Enqueue
  <2>2. ASSUME NEW i \in Items, Purge(i) PROVE TypeOK'
    BY <2>2 DEF Purge
  <2>3. ASSUME NEW i \in Items, LeaseExpires(i) PROVE TypeOK'
    BY <2>3 DEF LeaseExpires
  <2>4. ASSUME NEW i \in Items, BecomeDue(i) PROVE TypeOK'
    BY <2>4 DEF BecomeDue, Availability
  <2>5. ASSUME NEW r \in Runners, NEW i \in Items, Claim(r, i) PROVE TypeOK'
    BY <2>5 DEF Claim, ClaimedBy, Eligible
  <2>6. ASSUME NEW r \in Runners, HandlerEnds(r) PROVE TypeOK'
    BY <2>6 DEF HandlerEnds, Goto
  <2>7. ASSUME NEW r \in Runners, Complete(r) PROVE TypeOK'
    BY <2>7 DEF Complete, Settle, Goto, Return
  <2>8. ASSUME NEW r \in Runners, Fail(r) PROVE TypeOK'
    BY <2>8 DEF Fail, FailedStatus, Settle, Return
  <2>9. ASSUME NEW r \in Runners, Renew(r) PROVE TypeOK'
    BY <2>9 DEF Renew
  <2>10. ASSUME NEW r \in Runners, Crash(r) PROVE TypeOK'
    BY <2>10 DEF Crash, Return
  <2>11. ASSUME NEW r \in Runners, CompleteUncertain(r) PROVE TypeOK'
    BY <2>11 DEF CompleteUncertain, Settle, Goto
  <2>12. CASE UNCHANGED vars
    BY <2>12 DEF vars
  <2> HIDE DEF TypeOK
  <2> QED
    BY <2>1, <2>2, <2>3, <2>4, <2>5, <2>6, <2>7, <2>8, <2>9, <2>10, <2>11, <2>12
    DEF Next, Reliable, Faults, Environment, RunOnce
<1> QED
  BY <1>1, <1>2, PTL DEF Spec

-----------------------------------------------------------------------------
\* Lease-owner fencing (_owned in queue.py): complete and fail are accepted only
\* from the runner that holds the item's latest claim.
THEOREM Fencing == Spec => []OwnerIsCurrentClaimant
<1>1. Init => OwnerIsCurrentClaimant
  BY DEF Init, OwnerIsCurrentClaimant, Owned
<1>2. TypeOK /\ OwnerIsCurrentClaimant /\ [Next]_vars => OwnerIsCurrentClaimant'
  <2> SUFFICES ASSUME TypeOK, OwnerIsCurrentClaimant, [Next]_vars
               PROVE  OwnerIsCurrentClaimant'
    OBVIOUS
  <2> USE ConstantsAssumption
      DEF TypeOK, WorkItem, OwnerIsCurrentClaimant, Owned, Current, row, runner
  <2>1. ASSUME NEW i \in Items, NEW a \in Availability, Enqueue(i, a)
        PROVE  OwnerIsCurrentClaimant'
    BY <2>1 DEF Enqueue
  <2>2. ASSUME NEW i \in Items, Purge(i) \/ LeaseExpires(i) \/ BecomeDue(i)
        PROVE  OwnerIsCurrentClaimant'
    BY <2>2 DEF Purge, LeaseExpires, BecomeDue
  <2>3. ASSUME NEW r \in Runners, NEW i \in Items, Claim(r, i)
        PROVE  OwnerIsCurrentClaimant'
    BY <2>3, DistinctWorkers DEF Claim, ClaimedBy
  <2>4. ASSUME NEW r \in Runners, HandlerEnds(r) \/ Renew(r) \/ Crash(r)
        PROVE  OwnerIsCurrentClaimant'
    BY <2>4 DEF HandlerEnds, Renew, Crash, Goto, Return
  <2>5. ASSUME NEW r \in Runners, Complete(r) PROVE OwnerIsCurrentClaimant'
    BY <2>5 DEF Complete, Settle, Goto, Return
  <2>6. ASSUME NEW r \in Runners, Fail(r) PROVE OwnerIsCurrentClaimant'
    BY <2>6 DEF Fail, FailedStatus, Settle, Return
  <2>7. ASSUME NEW r \in Runners, CompleteUncertain(r) PROVE OwnerIsCurrentClaimant'
    BY <2>7 DEF CompleteUncertain, Settle, Goto
  <2>8. CASE UNCHANGED vars
    BY <2>8 DEF vars
  <2> HIDE DEF OwnerIsCurrentClaimant
  <2> QED
    BY <2>1, <2>2, <2>3, <2>4, <2>5, <2>6, <2>7, <2>8
    DEF Next, Reliable, Faults, Environment, RunOnce
<1> QED
  BY <1>1, <1>2, TypeCorrect, PTL DEF Spec

\* A worker whose lease was taken over never settles the item under the new
\* owner: the runner whose step settles it holds the item's latest claim.
THEOREM SettledByCurrent == Spec => SettledByCurrentClaimant
<1> DEFINE Settles(i) == status[i] = "leased" /\ status'[i] \in Finished \cup {"pending"}
           ByClaimant(i) == /\ \E r \in Runners : Acts(r)
                            /\ \A r \in Runners : Acts(r) => Current(r, i)
<1>1. ASSUME TypeOK, OwnerIsCurrentClaimant, Next, NEW i \in Items, Settles(i)
      PROVE  ByClaimant(i)
  <2> USE <1>1, ConstantsAssumption
      DEF TypeOK, WorkItem, OwnerIsCurrentClaimant, Finished, row, runner
  <2>1. ASSUME NEW r \in Runners, Complete(r) \/ Fail(r) \/ CompleteUncertain(r)
        PROVE  ByClaimant(i)
    <3>1. Owned(job[r], WorkerOf[r]) /\ job[r] = i
      BY <2>1 DEF Complete, Fail, CompleteUncertain, Settle, Goto, Return
    <3>2. Current(r, i)
      BY <3>1
    <3>3. Acts(r) /\ \A s \in Runners : Acts(s) => s = r
      BY <2>1 DEF Complete, Fail, CompleteUncertain, Goto, Return, Acts
    <3> QED
      BY <3>2, <3>3
  <2>2. ASSUME NEW j \in Items, NEW a \in Availability, Enqueue(j, a) PROVE FALSE
    BY <2>2 DEF Enqueue
  <2>3. ASSUME NEW j \in Items, Purge(j) \/ LeaseExpires(j) \/ BecomeDue(j) PROVE FALSE
    BY <2>3 DEF Purge, LeaseExpires, BecomeDue
  <2>4. ASSUME NEW r \in Runners, NEW j \in Items, Claim(r, j) PROVE FALSE
    BY <2>4 DEF Claim
  <2>5. ASSUME NEW r \in Runners, HandlerEnds(r) \/ Renew(r) \/ Crash(r) PROVE FALSE
    BY <2>5 DEF HandlerEnds, Renew, Crash
  <2> HIDE DEF ByClaimant
  <2> QED
    BY <2>1, <2>2, <2>3, <2>4, <2>5 DEF Next, Reliable, Faults, Environment, RunOnce
<1>2. TypeOK /\ OwnerIsCurrentClaimant /\ [Next]_vars
      => [\A i \in Items : Settles(i) => ByClaimant(i)]_vars
  BY <1>1
<1> QED
  BY <1>2, TypeCorrect, Fencing, PTL DEF Spec, SettledByCurrentClaimant

-----------------------------------------------------------------------------
\* Idempotent enqueue: the deduplication index names exactly the stored rows, so
\* a (tenant, key) pair never has two of them and a purged key is free again.
THEOREM DedupCorrect == Spec => []DedupMatchesItems
<1>1. Init => DedupMatchesItems
  BY ConstantsAssumption DEF Init, DedupMatchesItems, Live, WorkStatus, Finished
<1>2. TypeOK /\ DedupMatchesItems /\ [Next]_vars => DedupMatchesItems'
  <2> SUFFICES ASSUME TypeOK, DedupMatchesItems, [Next]_vars PROVE DedupMatchesItems'
    OBVIOUS
  <2> USE ConstantsAssumption
      DEF TypeOK, WorkItem, WorkStatus, Finished, DedupMatchesItems, Live, row, runner
  <2>1. ASSUME NEW i \in Items, NEW a \in Availability, Enqueue(i, a)
        PROVE  DedupMatchesItems'
    BY <2>1 DEF Enqueue
  <2>2. ASSUME NEW i \in Items, Purge(i) PROVE DedupMatchesItems'
    BY <2>2 DEF Purge
  <2>3. ASSUME NEW i \in Items, LeaseExpires(i) \/ BecomeDue(i) PROVE DedupMatchesItems'
    BY <2>3 DEF LeaseExpires, BecomeDue
  <2>4. ASSUME NEW r \in Runners, NEW i \in Items, Claim(r, i) PROVE DedupMatchesItems'
    BY <2>4 DEF Claim, Eligible
  <2>5. ASSUME NEW r \in Runners, Complete(r) \/ CompleteUncertain(r)
        PROVE  DedupMatchesItems'
    BY <2>5 DEF Complete, CompleteUncertain, Settle, Owned
  <2>6. ASSUME NEW r \in Runners, Fail(r) PROVE DedupMatchesItems'
    BY <2>6 DEF Fail, FailedStatus, Settle, Owned
  <2>7. ASSUME NEW r \in Runners, HandlerEnds(r) \/ Renew(r) \/ Crash(r)
        PROVE  DedupMatchesItems'
    BY <2>7 DEF HandlerEnds, Renew, Crash
  <2>8. CASE UNCHANGED vars
    BY <2>8 DEF vars
  <2> HIDE DEF DedupMatchesItems
  <2> QED
    BY <2>1, <2>2, <2>3, <2>4, <2>5, <2>6, <2>7, <2>8
    DEF Next, Reliable, Faults, Environment, RunOnce
<1> QED
  BY <1>1, <1>2, TypeCorrect, PTL DEF Spec

\* The rows, the deduplication index and the owners agree (queue.py): type
\* correctness, idempotent enqueue and fencing together.
THEOREM QueueIsSafe == Spec => []QueueSafe
BY TypeCorrect, DedupCorrect, Fencing, PTL DEF QueueSafe

-----------------------------------------------------------------------------
\* An item is settled by the holder of its latest claim, and a completed one is
\* only purged: neither a late fail, a late complete nor a claim touches it
\* (_owned and _eligible in queue.py, the except clause of run_once).
THEOREM SettledForGood == Spec => SettledOnce
<1>1. ASSUME TypeOK, Next, NEW i \in Items, status[i] = "completed"
      PROVE  status'[i] \in {"completed", "purged"}
  <2> USE <1>1, ConstantsAssumption DEF TypeOK, WorkItem, WorkStatus, Finished, row, runner
  <2>1. ASSUME NEW r \in Runners, Complete(r) \/ Fail(r) \/ CompleteUncertain(r)
        PROVE  status'[i] \in {"completed", "purged"}
    BY <2>1 DEF Complete, Fail, CompleteUncertain, Settle, Owned
  <2>2. ASSUME NEW j \in Items, NEW a \in Availability, Enqueue(j, a)
        PROVE  status'[i] \in {"completed", "purged"}
    BY <2>2 DEF Enqueue
  <2>3. ASSUME NEW j \in Items, Purge(j) \/ LeaseExpires(j) \/ BecomeDue(j)
        PROVE  status'[i] \in {"completed", "purged"}
    BY <2>3 DEF Purge, LeaseExpires, BecomeDue
  <2>4. ASSUME NEW r \in Runners, NEW j \in Items, Claim(r, j)
        PROVE  status'[i] \in {"completed", "purged"}
    BY <2>4 DEF Claim, Eligible
  <2>5. ASSUME NEW r \in Runners, HandlerEnds(r) \/ Renew(r) \/ Crash(r)
        PROVE  status'[i] \in {"completed", "purged"}
    BY <2>5 DEF HandlerEnds, Renew, Crash
  <2> QED
    BY <2>1, <2>2, <2>3, <2>4, <2>5 DEF Next, Reliable, Faults, Environment, RunOnce
<1>2. TypeOK /\ [Next]_vars
      => [\A i \in Items : status[i] = "completed" => status'[i] \in {"completed", "purged"}]_vars
  BY <1>1 DEF vars, row
<1> QED
  BY <1>2, TypeCorrect, SettledByCurrent, PTL DEF Spec, SettledOnce, CompletedIsFinal

-----------------------------------------------------------------------------
(* Outbound.                                                               *)

Peers == Addresses \cup {Proxy}
NetStages == {"new", "ready", "direct", "opening", "connected", "sent", "refused", "unreachable"}
NetRecords == [at : NetStages, host : Hosts, tls : BOOLEAN, hops : 0..MaxHops,
               found : SUBSET Peers, left : SUBSET Peers, peer : Peers \cup {"none"},
               cert : Certificates \cup {"none"}, via : {"none", "direct", "proxy"}]
Connections == [host : Hosts, tls : BOOLEAN, via : {"none", "direct", "proxy"}, peer : Peers,
                cert : Certificates \cup {"none"}]

\* The addresses a request to a host may be connected to, if the client is guarded.
MayConnect(host, addresses) ==
  netConfig.guarded =>
    /\ HostAllowed(host)
    /\ IF Bypasses(host) THEN netConfig.private \/ addresses \subseteq PublicAddresses
       ELSE addresses \subseteq {Proxy}
PinShown(host, tls, cert) == tls /\ RemoteFor(host) # {} => cert \in RemoteFor(host)

\* What holds of a request between the check of its host and the connection, and after it.
RequestVetted(q) ==
  /\ q.left \subseteq q.found
  /\ q.at = "direct" => Bypasses(q.host)
  /\ q.at = "opening" => MayConnect(q.host, q.found)
  /\ q.at \in {"connected", "sent"} => q.peer \in Peers /\ MayConnect(q.host, {q.peer})
  /\ q.at = "sent" => PinShown(q.host, q.tls, q.cert)

\* What holds of a connection that is kept holds of every request that uses it again.
ConnectionVetted(c) == MayConnect(c.host, {c.peer}) /\ PinShown(c.host, c.tls, c.cert)

NetInv ==
  /\ netConfig \in [guarded : BOOLEAN, proxied : BOOLEAN, resolves : BOOLEAN, private : BOOLEAN]
  /\ dns \in [Hosts -> SUBSET Addresses]
  /\ netReq \in [NetRequests -> NetRecords] /\ connections \subseteq Connections
  /\ \A r \in NetRequests : RequestVetted(netReq[r])
  /\ \A c \in connections : ConnectionVetted(c)

\* A request that begins, or that a redirect begins anew, has connected to nothing.
LEMMA RequestBegins ==
  ASSUME NEW h \in Hosts, NEW tls \in BOOLEAN, NEW hops \in 0..MaxHops, NEW at \in {"new", "ready", "refused"}
  PROVE  RequestTo(h, tls, at, hops) \in NetRecords /\ RequestVetted(RequestTo(h, tls, at, hops))
<1>1. at \in NetStages BY DEF NetStages
<1>2. RequestTo(h, tls, at, hops) \in NetRecords BY <1>1 DEF RequestTo, NetRecords
<1>3. RequestVetted(RequestTo(h, tls, at, hops)) BY DEF RequestTo, RequestVetted
<1> QED BY <1>2, <1>3

\* The addresses a host is resolved to, and what it means that they were vetted.
LEMMA ResolvedAddresses ==
  ASSUME NetInv, NEW h \in Hosts
  PROVE  /\ Resolved(h) \subseteq Addresses
         /\ Bypasses(h) /\ Vetted(h, Resolved(h)) => MayConnect(h, Resolved(h))
<1>1. Resolved(h) \subseteq Addresses BY NetConstants DEF Resolved, NetInv
<1>2. Bypasses(h) /\ Vetted(h, Resolved(h)) => MayConnect(h, Resolved(h))
  BY DEF Vetted, AddressesAllowed, MayConnect
<1> QED BY <1>1, <1>2

\* A step that changes one request keeps the invariant if the request stays vetted.
LEMMA OneRequest ==
  ASSUME NetInv, NEW r \in NetRequests, NEW q \in NetRecords, netReq' = [netReq EXCEPT ![r] = q],
         RequestVetted(q), UNCHANGED <<netConfig, dns, connections>>
  PROVE  NetInv'
<1>1. /\ netReq' \in [NetRequests -> NetRecords]
      /\ \A s \in NetRequests : RequestVetted(netReq'[s])
  BY DEF NetInv
<1>2. ASSUME NEW s \in NetRequests PROVE RequestVetted(netReq[s])'
  BY <1>1 DEF RequestVetted, MayConnect, Bypasses
<1>3. ASSUME NEW c \in connections PROVE ConnectionVetted(c)'
  BY DEF NetInv, ConnectionVetted, MayConnect, Bypasses
<1> QED BY <1>1, <1>2, <1>3 DEF NetInv

\* A fresh request was vetted for nothing and left nowhere.
LEMMA NetInitInv == NetInit => NetInv
<1> SUFFICES ASSUME NetInit PROVE NetInv OBVIOUS
<1>1. RequestTo(AnyHost, FALSE, "new", 0) \in NetRecords /\ RequestVetted(RequestTo(AnyHost, FALSE, "new", 0))
  <2>1. AnyHost \in Hosts /\ 0 \in 0..MaxHops BY NetConstants DEF AnyHost
  <2> QED BY <2>1, RequestBegins
<1>2. dns \in [Hosts -> SUBSET Addresses] BY NetConstants DEF NetInit
<1> QED BY <1>1, <1>2 DEF NetInit, NetInv

\* Each step of a request, and each DNS change, keeps what was vetted (SafeAsyncTransport, SafeNetworkBackend).
LEMMA NetInvKept == NetInv /\ [NetNext]_netVars => NetInv'
<1> SUFFICES ASSUME NetInv, [NetNext]_netVars PROVE NetInv' OBVIOUS
<1>1. ASSUME NEW r \in NetRequests, ValidateUrl(r) \/ SendRequest(r) \/ Redirect(r) PROVE NetInv'
  <2>0. netReq[r] \in NetRecords /\ UNCHANGED <<netConfig, dns, connections>>
    BY <1>1 DEF NetInv, ValidateUrl, SendRequest, Redirect
  <2>1. PICK h \in Hosts, tls \in BOOLEAN, hops \in 0..MaxHops, at \in {"new", "ready", "refused"} :
          netReq' = [netReq EXCEPT ![r] = RequestTo(h, tls, at, hops)]
    <3>2. 0 \in 0..MaxHops BY NetConstants
    <3>3. CASE ValidateUrl(r) BY <3>2, <3>3 DEF ValidateUrl
    <3>4. CASE SendRequest(r) BY <3>2, <3>4 DEF SendRequest
    <3>5. CASE Redirect(r)
      <4>1. netReq[r].hops + 1 \in 0..MaxHops BY <3>5, <2>0, NetConstants DEF Redirect, NetRecords
      <4> QED BY <3>5, <4>1 DEF Redirect
    <3> QED BY <1>1, <3>3, <3>4, <3>5
  <2> QED BY <2>0, <2>1, OneRequest, RequestBegins
<1>2. ASSUME NEW r \in NetRequests, RefuseRequest(r), UNCHANGED <<netConfig, dns, connections>> PROVE NetInv'
  <2> DEFINE q == [netReq[r] EXCEPT !.at = "refused"]
  <2>1. netReq[r] \in NetRecords /\ RequestVetted(netReq[r]) BY DEF NetInv
  <2>2. q \in NetRecords /\ netReq' = [netReq EXCEPT ![r] = q]
    BY <2>1, <1>2 DEF NetRecords, NetStages, RefuseRequest, NetAt
  <2>3. q.at = "refused" /\ q.left = netReq[r].left /\ q.found = netReq[r].found BY <2>1 DEF NetRecords
  <2>4. RequestVetted(q) BY <2>1, <2>3 DEF RequestVetted
  <2> HIDE DEF q
  <2> QED BY <2>2, <2>4, <1>2, OneRequest
<1>3. ASSUME NEW r \in NetRequests, Route(r) PROVE NetInv'
  <2>1. /\ netReq[r] \in NetRecords /\ RequestVetted(netReq[r]) /\ UNCHANGED <<netConfig, dns, connections>>
        /\ netReq[r].host \in Hosts
    BY <1>3 DEF NetInv, Route, NetRecords
  <2>2. CASE Bypasses(netReq[r].host)
    <3> DEFINE q == [netReq[r] EXCEPT !.at = "direct", !.via = "direct"]
    <3>1. q \in NetRecords BY <2>1 DEF NetRecords, NetStages
    <3>2. netReq' = [netReq EXCEPT ![r] = q] BY <2>2, <1>3 DEF Route
    <3>3. q.at = "direct" /\ q.host = netReq[r].host /\ q.left = netReq[r].left /\ q.found = netReq[r].found
      BY <2>1 DEF NetRecords
    <3>4. RequestVetted(q) BY <2>1, <2>2, <3>3 DEF RequestVetted
    <3> HIDE DEF q
    <3> QED BY <2>1, <3>1, <3>2, <3>4, OneRequest
  <2>3. CASE ~Bypasses(netReq[r].host) /\ netConfig.guarded /\ ~TargetVetted(netReq[r].host)
    BY <2>1, <2>3, <1>2, <1>3 DEF Route
  <2>4. CASE ~Bypasses(netReq[r].host) /\ ~(netConfig.guarded /\ ~TargetVetted(netReq[r].host))
    <3> DEFINE q == [netReq[r] EXCEPT !.at = "opening", !.via = "proxy",
                                      !.found = ProxyAddresses, !.left = ProxyAddresses]
    <3>1. q \in NetRecords BY <2>1 DEF NetRecords, NetStages, ProxyAddresses, Peers
    <3>2. netReq' = [netReq EXCEPT ![r] = q] BY <2>4, <1>3 DEF Route
    <3>3. q.at = "opening" /\ q.host = netReq[r].host /\ q.left = {Proxy} /\ q.found = {Proxy}
      BY <2>1 DEF NetRecords, ProxyAddresses
    <3>4. MayConnect(netReq[r].host, {Proxy}) BY <2>4 DEF MayConnect, TargetVetted, Vetted
    <3>5. RequestVetted(q) BY <3>3, <3>4 DEF RequestVetted
    <3> HIDE DEF q
    <3> QED BY <2>1, <3>1, <3>2, <3>5, OneRequest
  <2> QED BY <2>2, <2>3, <2>4
<1>4. ASSUME NEW r \in NetRequests, Reuse(r) PROVE NetInv'
  <2>1. /\ netReq[r] \in NetRecords /\ RequestVetted(netReq[r]) /\ UNCHANGED <<netConfig, dns, connections>>
    BY <1>4 DEF NetInv, Reuse
  <2>2. PICK c \in connections :
          /\ c.host = netReq[r].host /\ c.tls = netReq[r].tls
          /\ netReq' = [netReq EXCEPT ![r] = [@ EXCEPT !.at = "sent", !.peer = c.peer, !.cert = c.cert]]
    BY <1>4 DEF Reuse
  <2>3. c \in Connections /\ ConnectionVetted(c) BY DEF NetInv
  <2>4. PICK peer \in Peers, cert \in Certificates \cup {"none"} : peer = c.peer /\ cert = c.cert
    BY <2>3 DEF Connections
  <2> DEFINE q == [netReq[r] EXCEPT !.at = "sent", !.peer = peer, !.cert = cert]
  <2>5. q \in NetRecords BY <2>1 DEF NetRecords, NetStages
  <2>6. /\ q.at = "sent" /\ q.host = netReq[r].host /\ q.tls = netReq[r].tls /\ q.peer = peer /\ q.cert = cert
        /\ q.left = netReq[r].left /\ q.found = netReq[r].found
    BY <2>1 DEF NetRecords
  <2>7. netReq' = [netReq EXCEPT ![r] = q] BY <2>2, <2>4
  <2> HIDE DEF q
  <2>8. RequestVetted(q) BY <2>1, <2>2, <2>3, <2>4, <2>6 DEF RequestVetted, ConnectionVetted
  <2> QED BY <2>1, <2>5, <2>7, <2>8, OneRequest
<1>5. ASSUME NEW r \in NetRequests, Resolve(r) PROVE NetInv'
  <2>1. /\ netReq[r] \in NetRecords /\ RequestVetted(netReq[r]) /\ UNCHANGED <<netConfig, dns, connections>>
        /\ netReq[r].host \in Hosts /\ Bypasses(netReq[r].host)
    BY <1>5 DEF NetInv, Resolve, NetRecords, RequestVetted
  <2>2. PICK found \in SUBSET Peers : found = Resolved(netReq[r].host)
    BY <2>1, ResolvedAddresses DEF Peers
  <2>3. CASE netConfig.guarded /\ ~Vetted(netReq[r].host, found) BY <2>1, <2>2, <2>3, <1>2, <1>5 DEF Resolve
  <2>4. CASE ~(netConfig.guarded /\ ~Vetted(netReq[r].host, found))
    <3> DEFINE q == [netReq[r] EXCEPT !.at = "opening", !.found = found, !.left = found]
    <3>1. q \in NetRecords BY <2>1 DEF NetRecords, NetStages
    <3>2. netReq' = [netReq EXCEPT ![r] = q] BY <2>2, <2>4, <1>5 DEF Resolve
    <3>3. q.at = "opening" /\ q.host = netReq[r].host /\ q.left = found /\ q.found = found
      BY <2>1 DEF NetRecords
    <3>4. MayConnect(netReq[r].host, found) BY <2>1, <2>2, <2>4, ResolvedAddresses DEF MayConnect
    <3>5. RequestVetted(q) BY <3>3, <3>4 DEF RequestVetted
    <3> HIDE DEF q
    <3> QED BY <2>1, <3>1, <3>2, <3>5, OneRequest
  <2> QED BY <2>3, <2>4
<1>6. ASSUME NEW r \in NetRequests, OpenAddress(r) PROVE NetInv'
  <2>1. /\ netReq[r] \in NetRecords /\ RequestVetted(netReq[r]) /\ UNCHANGED <<netConfig, dns, connections>>
        /\ netReq[r].found \in SUBSET Peers /\ netReq[r].left \subseteq netReq[r].found
        /\ MayConnect(netReq[r].host, netReq[r].found)
    BY <1>6 DEF NetInv, OpenAddress, NetRecords, RequestVetted
  <2>2. PICK a \in netReq[r].left :
          \/ netReq' = [netReq EXCEPT ![r] = [@ EXCEPT !.at = "connected", !.peer = a]]
          \/ \E at \in {"unreachable", "opening"} :
               netReq' = [netReq EXCEPT ![r] = [@ EXCEPT !.left = netReq[r].left \ {a}, !.at = at]]
    BY <1>6 DEF OpenAddress, Candidates
  <2>3. a \in Peers BY <2>1
  <2>4. CASE netReq' = [netReq EXCEPT ![r] = [@ EXCEPT !.at = "connected", !.peer = a]]
    <3> DEFINE q == [netReq[r] EXCEPT !.at = "connected", !.peer = a]
    <3>1. q \in NetRecords BY <2>1, <2>3 DEF NetRecords, NetStages
    <3>2. /\ q.at = "connected" /\ q.host = netReq[r].host /\ q.peer = a
          /\ q.left = netReq[r].left /\ q.found = netReq[r].found
      BY <2>1 DEF NetRecords
    <3>3. netReq' = [netReq EXCEPT ![r] = q] BY <2>4
    <3>4. MayConnect(netReq[r].host, {a}) BY <2>1 DEF MayConnect
    <3> HIDE DEF q
    <3>5. RequestVetted(q) BY <2>1, <2>3, <3>2, <3>4 DEF RequestVetted
    <3> QED BY <2>1, <3>1, <3>3, <3>5, OneRequest
  <2>5. CASE netReq' # [netReq EXCEPT ![r] = [@ EXCEPT !.at = "connected", !.peer = a]]
    <3>1. PICK at \in {"unreachable", "opening"}, left \in SUBSET netReq[r].left :
            netReq' = [netReq EXCEPT ![r] = [@ EXCEPT !.left = left, !.at = at]]
      BY <2>2, <2>5
    <3> DEFINE q == [netReq[r] EXCEPT !.left = left, !.at = at]
    <3>2. left \in SUBSET Peers BY <2>1
    <3>3. q \in NetRecords BY <2>1, <3>2 DEF NetRecords, NetStages
    <3>4. q.at = at /\ q.host = netReq[r].host /\ q.left = left /\ q.found = netReq[r].found
      BY <2>1 DEF NetRecords
    <3>5. netReq' = [netReq EXCEPT ![r] = q] BY <3>1
    <3> HIDE DEF q
    <3>6. RequestVetted(q) BY <2>1, <3>4 DEF RequestVetted
    <3> QED BY <2>1, <3>3, <3>5, <3>6, OneRequest
  <2> QED BY <2>4, <2>5
<1>7. ASSUME NEW r \in NetRequests, StartTls(r) PROVE NetInv'
  <2>1. /\ netReq[r] \in NetRecords /\ RequestVetted(netReq[r]) /\ UNCHANGED <<netConfig, dns>>
        /\ netReq[r].at = "connected" /\ netReq[r].peer \in Peers
        /\ netReq[r].host \in Hosts /\ netReq[r].tls \in BOOLEAN /\ netReq[r].via \in {"none", "direct", "proxy"}
        /\ MayConnect(netReq[r].host, {netReq[r].peer})
    BY <1>7 DEF NetInv, StartTls, NetRecords, RequestVetted
  <2>2. CASE RefuseRequest(r) /\ UNCHANGED connections BY <2>1, <2>2, <1>2
  <2>3. CASE ~(RefuseRequest(r) /\ UNCHANGED connections)
    <3>1. PICK cert \in Certificates \cup {"none"} :
            /\ netReq' = [netReq EXCEPT ![r] = [@ EXCEPT !.at = "sent", !.cert = cert]]
            /\ connections' = connections \cup
                 {[host |-> netReq[r].host, tls |-> netReq[r].tls, via |-> netReq[r].via,
                   peer |-> netReq[r].peer, cert |-> cert]}
            /\ PinShown(netReq[r].host, netReq[r].tls, cert)
      BY <2>1, <2>3, <1>7 DEF StartTls, PinShown, ServerName
    <3> DEFINE q == [netReq[r] EXCEPT !.at = "sent", !.cert = cert]
               c == [host |-> netReq[r].host, tls |-> netReq[r].tls, via |-> netReq[r].via,
                     peer |-> netReq[r].peer, cert |-> cert]
    <3>2. q \in NetRecords BY <2>1 DEF NetRecords, NetStages
    <3>3. /\ q.at = "sent" /\ q.host = netReq[r].host /\ q.tls = netReq[r].tls /\ q.peer = netReq[r].peer
          /\ q.cert = cert /\ q.left = netReq[r].left /\ q.found = netReq[r].found
      BY <2>1 DEF NetRecords
    <3>4. netReq' = [netReq EXCEPT ![r] = q] /\ connections' = connections \cup {c} BY <3>1
    <3>5. c \in Connections /\ ConnectionVetted(c) BY <2>1, <3>1 DEF Connections, ConnectionVetted
    <3> HIDE DEF q, c
    <3>6. RequestVetted(q) BY <2>1, <3>1, <3>3 DEF RequestVetted
    <3>7. \A s \in NetRequests : RequestVetted(netReq'[s]) /\ netReq' \in [NetRequests -> NetRecords]
      BY <3>2, <3>4, <3>6 DEF NetInv
    <3>8. \A s \in NetRequests : RequestVetted(netReq[s])'
      BY <2>1, <3>7 DEF RequestVetted, MayConnect, Bypasses
    <3>9. \A d \in connections' : ConnectionVetted(d) /\ d \in Connections BY <3>4, <3>5 DEF NetInv
    <3>10. \A d \in connections' : ConnectionVetted(d)'
      BY <2>1, <3>9 DEF ConnectionVetted, MayConnect, Bypasses
    <3>11. netReq' \in [NetRequests -> NetRecords] BY <3>2, <3>4 DEF NetInv
    <3> QED BY <2>1, <3>8, <3>9, <3>10, <3>11 DEF NetInv
  <2> QED BY <2>2, <2>3
<1>8. CASE UNCHANGED <<netConfig, netReq, connections>> /\ dns' \in [Hosts -> SUBSET Addresses]
  BY <1>8 DEF NetInv, RequestVetted, ConnectionVetted, MayConnect, Bypasses
<1>9. CASE DnsChanges
  <2>1. dns' \in [Hosts -> SUBSET Addresses] BY <1>9 DEF DnsChanges, NetInv
  <2> QED BY <2>1, <1>8, <1>9 DEF DnsChanges
<1>10. CASE UNCHANGED netVars
  <2>1. dns' \in [Hosts -> SUBSET Addresses] BY <1>10 DEF netVars, NetInv
  <2> QED BY <2>1, <1>8, <1>10 DEF netVars
<1> QED BY <1>1, <1>3, <1>4, <1>5, <1>6, <1>7, <1>9, <1>10 DEF NetNext

\* A guarded client connects to what it vetted and to nothing else, and pinned hosts show their
\* certificates, over redirects, DNS changes and connections that are used again (security/network.py).
THEOREM NetIsSafe == NetSpec => []NetSafe
<1>1. NetInv => NetSafe
  <2> SUFFICES ASSUME NetInv PROVE NetSafe OBVIOUS
  <2>1. ASSUME NEW r \in NetRequests
        PROVE  /\ netReq[r] \in NetRecords /\ RequestVetted(netReq[r])
               /\ netReq[r].at \in NetStages /\ netReq[r].found \subseteq Addresses \cup {Proxy}
    BY DEF NetInv, NetRecords, Peers
  <2>2. NetTypeOK BY <2>1 DEF NetTypeOK, RequestVetted, NetInv, Connections, Peers, NetStages
  <2>3. PeersVetted BY <2>1 DEF PeersVetted, RequestVetted, MayConnect
  <2>4. PinsHold BY <2>1 DEF PinsHold, RequestVetted, PinShown
  <2> QED BY <2>2, <2>3, <2>4 DEF NetSafe
<1> QED BY <1>1, NetInitInv, NetInvKept, PTL DEF NetSpec

-----------------------------------------------------------------------------
(* ChildWorkflow.                                                          *)

Statuses == Unfinished \cup Over \cup {"absent", "gone"}
Flows == [status : Statuses, node : {"pending", "running", "asked", "answered"} \cup Over,
          ids : {0, 1}, version : Nat, old : BOOLEAN]
FlowRecords == [at : FlowStages, p : Flows, c : Flows, driving : BOOLEAN]
AgentRuns == [status : {"absent", "live", "over", "gone"}, unresolved : BOOLEAN, old : BOOLEAN]

RowTypes ==
  /\ parentRow \in Flows /\ childRow \in [ChildIds -> Flows] /\ agentRow \in AgentRuns
  /\ flowTask \in [FlowTasks -> FlowRecords] /\ workStarted \in [ChildIds -> Nat]

Active(t) == flowTask[t].at \notin {"idle", "ended"}
OnChild == {"child", "working", "reopen", "expire", "interrupted"}

\* The parent has one child, and waits or completes only with it.
ParentSound ==
  /\ parentRow.ids = 1 => 1 \in ChildIds
  /\ parentRow.status \in {"awaiting", "completed"} => parentRow.ids = 1
  /\ parentRow.status = "completed" => childRow[1].status \in {"completed", "gone"}
  /\ parentRow.status = "absent" => parentRow.ids = 0 /\ \A t \in FlowTasks : ~Active(t)

\* The state of a child follows its node.
RowSound(q) ==
  /\ q.status = "running" => q.node \in {"pending", "running", "answered"}
  /\ q.status = "awaiting" => q.node # "running"

\* A child is created once: it goes only when it is old and its parent is over, and nobody creates it then.
ChildSound(i) ==
  /\ childRow[i].status = "absent" => workStarted[i] = 0 /\ childRow[i].version = 0
  /\ childRow[i].status # "absent" => i = 1 /\ parentRow.ids = 1 /\ childRow[i].version # 0
  /\ RowSound(childRow[i])
  /\ childRow[i].status = "gone" => childRow[i].old /\ parentRow.status \notin Unfinished
  /\ childRow[i].status # "absent" /\ childRow[i].old => \A t \in FlowTasks : flowTask[t].at # "create"
  /\ ~ChildRetry =>
       /\ workStarted[i] <= 1
       /\ childRow[i].status \in Unfinished /\ childRow[i].node # "running" => workStarted[i] = 0

AgentSound ==
  /\ agentRow.status # "absent" => 1 \in ChildIds /\ childRow[1].status # "absent"
  /\ agentRow.status = "gone" => ~agentRow.unresolved /\ \A i \in ChildIds : childRow[i].status \notin Unfinished

\* A task's copy of the parent is an earlier state of it, and the row itself while nobody saved it.
ParentCopy(t) ==
  Active(t) =>
    /\ flowTask[t].p.status \in Unfinished /\ flowTask[t].p.version <= parentRow.version
    /\ flowTask[t].p.version = parentRow.version =>
         flowTask[t].p.status = parentRow.status /\ flowTask[t].p.ids = parentRow.ids
    /\ flowTask[t].at = "dispatch" => flowTask[t].p.ids = 0
    /\ flowTask[t].at # "dispatch" => flowTask[t].p.ids = 1 /\ parentRow.ids = 1

ChildCopy(t) ==
  /\ flowTask[t].at \in OnChild =>
       /\ flowTask[t].c.status \in Unfinished /\ flowTask[t].c.version <= childRow[1].version
       /\ childRow[1].status # "absent"
       /\ flowTask[t].c.version = childRow[1].version =>
            flowTask[t].c.status = childRow[1].status /\ flowTask[t].c.node = childRow[1].node
  /\ flowTask[t].at = "child" => flowTask[t].c.status = "running" /\ flowTask[t].c.node \in {"pending", "answered"}
  /\ flowTask[t].at \in {"working", "interrupted"} => flowTask[t].c.status = "running" /\ flowTask[t].c.node = "running"
  /\ flowTask[t].at \in {"reopen", "expire"} => flowTask[t].c.status = "awaiting" /\ flowTask[t].c.node # "running"
  /\ flowTask[t].at = "consume" /\ flowTask[t].c.status = "completed" => childRow[1].status \in {"completed", "gone"}

FlowInv ==
  /\ RowTypes /\ ParentSound /\ AgentSound
  /\ \A i \in ChildIds : ChildSound(i)
  /\ \A t \in FlowTasks : ParentCopy(t) /\ ChildCopy(t)

\* A save counts the version and makes the row new.
LEMMA SavedIs ==
  ASSUME NEW q \in Flows
  PROVE  /\ Saved(q) \in Flows /\ Saved(q).status = q.status /\ Saved(q).node = q.node /\ Saved(q).ids = q.ids
         /\ Saved(q).version = q.version + 1 /\ Saved(q).old = FALSE
<1>1. PICK v \in Nat : v = q.version + 1 BY DEF Flows
<1>2. Saved(q) = [q EXCEPT !.version = v, !.old = FALSE] BY <1>1 DEF Saved
<1>3. [q EXCEPT !.version = v, !.old = FALSE] \in Flows BY DEF Flows
<1>4. /\ [q EXCEPT !.version = v, !.old = FALSE].status = q.status
      /\ [q EXCEPT !.version = v, !.old = FALSE].node = q.node
      /\ [q EXCEPT !.version = v, !.old = FALSE].ids = q.ids
      /\ [q EXCEPT !.version = v, !.old = FALSE].version = v
      /\ [q EXCEPT !.version = v, !.old = FALSE].old = FALSE
  BY DEF Flows
<1> QED BY <1>1, <1>2, <1>3, <1>4

\* A parent that is over keeps its child and its version.
LEMMA OverIs ==
  ASSUME NEW q \in Flows, NEW end \in Over
  PROVE  /\ ParentOver(q, end) \in Flows /\ ParentOver(q, end).status = end
         /\ ParentOver(q, end).ids = q.ids /\ ParentOver(q, end).version = q.version
BY DEF ParentOver, Flows, Statuses, Over

\* One task moves, the others stay.
OneTask(t) ==
  /\ flowTask' \in [FlowTasks -> FlowRecords]
  /\ \A u \in FlowTasks : u # t => flowTask'[u] = flowTask[u]
\* The agent run stays, or belongs to a child there is.
AgentMoves ==
  /\ agentRow' \in AgentRuns
  /\ \/ agentRow' = agentRow
     \/ agentRow'.status \in {"live", "over"} /\ 1 \in ChildIds /\ childRow[1].status # "absent"

\* A task that goes on changes its own record.
LEMMA TaskGoes ==
  ASSUME RowTypes, NEW t \in FlowTasks, NEW place \in FlowStages, NEW p \in Flows, NEW c \in Flows,
         At(t, place, p, c)
  PROVE  OneTask(t) /\ flowTask'[t].at = place /\ flowTask'[t].p = p /\ flowTask'[t].c = c
<1> DEFINE r == [flowTask[t] EXCEPT !.at = place, !.p = p, !.c = c]
<1>1. flowTask[t] \in FlowRecords BY DEF RowTypes
<1>2. r \in FlowRecords BY <1>1 DEF FlowRecords
<1>3. r.at = place /\ r.p = p /\ r.c = c BY <1>1 DEF FlowRecords
<1>4. flowTask' = [flowTask EXCEPT ![t] = r] BY DEF At
<1> HIDE DEF r
<1> QED BY <1>2, <1>3, <1>4 DEF RowTypes, OneTask

\* A task that ends leaves its copies.
LEMMA TaskEnds ==
  ASSUME RowTypes, NEW t \in FlowTasks, EndTask(t)
  PROVE  OneTask(t) /\ flowTask'[t].at = "ended"
<1>1. NoFlow \in Flows BY DEF NoFlow, Flows, Statuses
<1>2. IdleTask \in FlowRecords BY <1>1 DEF FlowRecords, FlowStages, IdleTask
<1>3. ASSUME NEW r \in FlowRecords
      PROVE  [r EXCEPT !.at = "ended"] \in FlowRecords /\ [r EXCEPT !.at = "ended"].at = "ended"
  BY DEF FlowRecords, FlowStages
<1> QED BY <1>2, <1>3 DEF EndTask, RowTypes, OneTask

\* A task moves and saves nothing.
LEMMA TaskMoves ==
  ASSUME FlowInv, NEW t \in FlowTasks, OneTask(t), AgentMoves, UNCHANGED <<parentRow, childRow, workStarted>>,
         ParentCopy(t)', ChildCopy(t)', parentRow.status = "absent" => ~Active(t)',
         flowTask'[t].at = "create" => \A i \in ChildIds : childRow[i].status = "absent" \/ ~childRow[i].old
  PROVE  FlowInv'
<1> USE DEF FlowInv, OneTask
<1>1. RowTypes' BY DEF RowTypes, AgentMoves
<1>2. \A u \in FlowTasks : u # t => flowTask'[u] = flowTask[u] OBVIOUS
<1>3. ParentSound'
  <2>1. \A u \in FlowTasks : u # t => (Active(u)' <=> Active(u)) BY <1>2 DEF Active
  <2> QED BY <2>1 DEF ParentSound
<1>4. AgentSound' BY DEF AgentSound, AgentMoves
<1>5. ASSUME NEW i \in ChildIds PROVE ChildSound(i)'
  <2>1. ChildSound(i) OBVIOUS
  <2> QED BY <2>1, <1>2 DEF ChildSound
<1>6. ASSUME NEW u \in FlowTasks PROVE ParentCopy(u)' /\ ChildCopy(u)'
  <2>1. CASE u = t BY <2>1
  <2>2. CASE u # t
    <3>1. ParentCopy(u) /\ ChildCopy(u) /\ flowTask'[u] = flowTask[u] BY <2>2
    <3> QED BY <3>1 DEF ParentCopy, ChildCopy, Active
  <2> QED BY <2>1, <2>2
<1> QED BY <1>1, <1>3, <1>4, <1>5, <1>6

\* A task may end at any point: a conflict, a refusal or the death of its process.
LEMMA TaskStops ==
  ASSUME FlowInv, NEW t \in FlowTasks, EndTask(t), AgentMoves, UNCHANGED <<parentRow, childRow, workStarted>>
  PROVE  FlowInv'
<1>1. OneTask(t) /\ flowTask'[t].at = "ended" BY TaskEnds DEF FlowInv
<1>2. ParentCopy(t)' /\ ChildCopy(t)' /\ ~Active(t)' BY <1>1 DEF ParentCopy, ChildCopy, Active, OnChild
<1> QED BY <1>1, <1>2, TaskMoves

\* An unfinished parent is saved by the one whose copy is the row.
LEMMA ParentSaves ==
  ASSUME FlowInv, NEW t \in FlowTasks, NEW q \in Flows, OneTask(t), AgentMoves, UNCHANGED <<childRow, workStarted>>,
         parentRow.status \in Unfinished, parentRow.version = q.version, parentRow' = Saved(q),
         parentRow.ids = 1 => q.ids = 1, q.ids = 1 => 1 \in ChildIds, q.status \in Unfinished \cup Over,
         q.status \in {"awaiting", "completed"} => q.ids = 1,
         q.status = "completed" => childRow[1].status \in {"completed", "gone"},
         \/ flowTask'[t].at = "ended"
         \/ /\ flowTask'[t].p = Saved(q) /\ q.status \in Unfinished
            /\ \/ flowTask'[t].at = "dispatch" /\ q.ids = 0
               \/ flowTask'[t].at = "create" /\ parentRow.ids = 0 /\ q.ids = 1
  PROVE  FlowInv'
<1> USE DEF FlowInv, OneTask
<1>0. /\ Saved(q) \in Flows /\ parentRow'.status = q.status /\ parentRow'.ids = q.ids
      /\ parentRow'.version = parentRow.version + 1 /\ parentRow.version \in Nat
      /\ q.status # "absent"
  BY SavedIs DEF RowTypes, Flows, Unfinished, Over
<1>1. RowTypes' BY <1>0 DEF RowTypes, AgentMoves
<1>2. \A u \in FlowTasks : u # t => flowTask'[u] = flowTask[u] OBVIOUS
<1>3. ParentSound' BY <1>0 DEF ParentSound
<1>4. AgentSound' BY DEF AgentSound, AgentMoves
<1>5. ASSUME NEW i \in ChildIds PROVE ChildSound(i)'
  <2>1. ChildSound(i) OBVIOUS
  <2>2. childRow[i].status # "gone" BY <2>1 DEF ChildSound
  <2>3. childRow[i].status # "absent" => q.ids = 1 /\ flowTask'[t].at # "create" BY <2>1 DEF ChildSound
  <2> QED BY <2>1, <2>2, <2>3, <1>0, <1>2 DEF ChildSound
<1>6. ASSUME NEW u \in FlowTasks PROVE ParentCopy(u)' /\ ChildCopy(u)'
  <2>1. CASE u = t BY <2>1, <1>0 DEF ParentCopy, ChildCopy, Active, OnChild
  <2>2. CASE u # t
    <3>1. ParentCopy(u) /\ ChildCopy(u) /\ flowTask'[u] = flowTask[u] /\ flowTask[u].p.version \in Nat
      BY <2>2 DEF RowTypes, FlowRecords, Flows
    <3> QED BY <3>1, <1>0 DEF ParentCopy, ChildCopy, Active
  <2> QED BY <2>1, <2>2
<1> QED BY <1>1, <1>3, <1>4, <1>5, <1>6

\* A task saves the parent's checkpoint, or ends with the conflict (_checkpoint).
LEMMA SaveParentKeeps ==
  ASSUME FlowInv, NEW t \in FlowTasks, NEW q \in Flows, NEW place \in {"ended", "dispatch", "create"}, NEW c \in Flows,
         SaveParent(t, q, place, c), AgentMoves, UNCHANGED <<childRow, workStarted>>,
         parentRow.version = q.version => parentRow.status \in Unfinished /\ (parentRow.ids = 1 => q.ids = 1),
         q.ids = 1 => 1 \in ChildIds, q.status \in Unfinished \cup Over,
         q.status \in {"awaiting", "completed"} => q.ids = 1,
         q.status = "completed" => childRow[1].status \in {"completed", "gone"},
         place = "dispatch" => q.status \in Unfinished /\ q.ids = 0,
         place = "create" => /\ q.status \in Unfinished /\ q.ids = 1
                             /\ parentRow.version = q.version => parentRow.ids = 0
  PROVE  FlowInv'
<1>1. CASE parentRow.version # q.version
  <2>1. EndTask(t) /\ UNCHANGED parentRow BY <1>1 DEF SaveParent
  <2> QED BY <2>1, TaskStops
<1>2. CASE parentRow.version = q.version
  <2>1. parentRow' = Saved(q) /\ RowTypes BY <1>2 DEF SaveParent, FlowInv
  <2>2. CASE place = "ended"
    <3>1. EndTask(t) BY <1>2, <2>2 DEF SaveParent
    <3>2. OneTask(t) /\ flowTask'[t].at = "ended" BY <2>1, <3>1, TaskEnds
    <3> QED BY <1>2, <2>1, <3>2, ParentSaves
  <2>3. CASE place # "ended"
    <3>1. At(t, place, Saved(q), c) BY <1>2, <2>3 DEF SaveParent
    <3>2. place \in FlowStages /\ Saved(q) \in Flows BY SavedIs DEF FlowStages
    <3>3. OneTask(t) /\ flowTask'[t].at = place /\ flowTask'[t].p = Saved(q) BY <2>1, <3>1, <3>2, TaskGoes
    <3> QED BY <1>2, <2>1, <2>3, <3>3, ParentSaves
  <2> QED BY <2>2, <2>3
<1> QED BY <1>1, <1>2

\* A child's row is saved by the one whose copy is the row, or created when there was none.
LEMMA ChildSaves ==
  ASSUME FlowInv, NEW t \in FlowTasks, NEW q \in Flows, OneTask(t), AgentMoves \/ agentRow' = [NoAgentRun EXCEPT !.status = "live"],
         UNCHANGED parentRow, 1 \in ChildIds, parentRow.ids = 1,
         childRow[1].version = q.version, childRow' = [childRow EXCEPT ![1] = Saved(q)],
         childRow[1].status \in Unfinished \cup {"absent"}, q.status \in Unfinished \cup Over, RowSound(q),
         workStarted' \in [ChildIds -> Nat], \A i \in ChildIds : i # 1 => workStarted'[i] = workStarted[i],
         \/ /\ workStarted'[1] = workStarted[1]
            /\ ~ChildRetry /\ q.status \in Unfinished /\ q.node # "running" =>
                 childRow[1].status = "absent" \/ childRow[1].node # "running"
         \/ workStarted'[1] = workStarted[1] + 1 /\ childRow[1].node # "running" /\ q.node = "running"
            /\ childRow[1].status # "absent",
         flowTask'[t].p = flowTask[t].p, flowTask'[t].c = Saved(q), Active(t), flowTask[t].at # "dispatch",
         flowTask'[t].at \in {"child", "working", "consume"},
         flowTask'[t].at \in {"child", "working"} => q.status = "running",
         flowTask'[t].at = "child" => q.node \in {"pending", "answered"},
         flowTask'[t].at = "working" => q.node = "running"
  PROVE  FlowInv'
<1> USE DEF FlowInv, OneTask
<1>0. /\ Saved(q) \in Flows /\ Saved(q).status = q.status /\ Saved(q).node = q.node
      /\ Saved(q).version = q.version + 1 /\ Saved(q).old = FALSE /\ q.version \in Nat
      /\ q.status \notin {"absent", "gone"} /\ childRow[1].status \notin {"completed", "gone"}
  BY SavedIs DEF Flows, Unfinished, Over
<1>a. /\ childRow' \in [ChildIds -> Flows] /\ childRow'[1] = Saved(q)
      /\ \A i \in ChildIds : i # 1 => childRow'[i] = childRow[i]
  BY <1>0 DEF RowTypes
<1>b. agentRow' \in AgentRuns /\ (agentRow'.status = "gone" => agentRow' = agentRow)
  BY DEF AgentMoves, RowTypes, AgentRuns, NoAgentRun
<1>1. RowTypes' BY <1>a, <1>b DEF RowTypes
<1>2. \A u \in FlowTasks : u # t => flowTask'[u] = flowTask[u] OBVIOUS
<1>3. ParentSound'
  <2>1. Active(t) /\ parentRow.status # "absent" /\ parentRow.status # "completed" BY <1>0 DEF ParentSound
  <2> QED BY <2>1, <1>0 DEF ParentSound
<1>4. AgentSound' BY <1>0, <1>a, <1>b DEF AgentSound
<1>5. ASSUME NEW i \in ChildIds PROVE ChildSound(i)'
  <2>1. ChildSound(i) OBVIOUS
  <2>2. CASE i # 1 BY <2>1, <2>2, <1>a, <1>2 DEF ChildSound
  <2>3. CASE i = 1
    <3>1. childRow'[1].status # "absent" /\ childRow'[1].version # 0 /\ ~childRow'[1].old /\ childRow'[1].status # "gone"
      BY <1>0, <1>a
    <3>2. workStarted[1] \in Nat BY DEF RowTypes
    <3>3. ~ChildRetry =>
            /\ workStarted'[1] <= 1
            /\ childRow'[1].status \in Unfinished /\ childRow'[1].node # "running" => workStarted'[1] = 0
      BY <2>1, <2>3, <3>2, <1>0, <1>a DEF ChildSound
    <3>4. RowSound(childRow'[1]) BY <1>0, <1>a DEF RowSound
    <3> QED BY <2>3, <3>1, <3>3, <3>4 DEF ChildSound
  <2> QED BY <2>2, <2>3
<1>6. ASSUME NEW u \in FlowTasks PROVE ParentCopy(u)' /\ ChildCopy(u)'
  <2>1. CASE u = t
    <3>1. ParentCopy(t) OBVIOUS
    <3>2. ParentCopy(t)' BY <3>1 DEF ParentCopy, Active
    <3>3. ChildCopy(t)' BY <1>0, <1>a DEF ChildCopy, OnChild, Unfinished
    <3> QED BY <2>1, <3>2, <3>3
  <2>2. CASE u # t
    <3>1. /\ ParentCopy(u) /\ ChildCopy(u) /\ flowTask'[u] = flowTask[u]
          /\ flowTask[u].c.version \in Nat /\ childRow[1].version \in Nat
      BY <2>2 DEF RowTypes, FlowRecords, Flows
    <3>2. ParentCopy(u)' BY <3>1 DEF ParentCopy, Active
    <3>3. ChildCopy(u)' BY <3>1, <1>0, <1>a DEF ChildCopy
    <3> QED BY <3>2, <3>3
  <2> QED BY <2>1, <2>2
<1> QED BY <1>1, <1>3, <1>4, <1>5, <1>6

\* A task on the child saves it, or leaves with the conflict, through the parent on the first drive.
LEMMA SaveChildKeeps ==
  ASSUME FlowInv, NEW t \in FlowTasks, NEW q \in Flows, NEW place \in {"child", "working", "consume"},
         flowTask[t].at \in OnChild \cup {"create"}, SaveChild(t, q, place),
         AgentMoves \/ (childRow[1].version = q.version /\ agentRow' = [NoAgentRun EXCEPT !.status = "live"]),
         flowTask[t].at \in OnChild => q.version = flowTask[t].c.version,
         flowTask[t].at = "create" /\ childRow[1].version = q.version => childRow[1].status = "absent",
         q.status \in Unfinished \cup Over, RowSound(q),
         place \in {"child", "working"} => q.status = "running",
         place = "child" => q.node \in {"pending", "answered"},
         place = "working" => q.node = "running",
         \/ /\ UNCHANGED workStarted
            /\ ~ChildRetry /\ q.status \in Unfinished /\ q.node # "running" =>
                 flowTask[t].at = "create" \/ flowTask[t].c.node # "running"
         \/ /\ workStarted' = [workStarted EXCEPT ![1] = @ + 1] /\ childRow[1].version = q.version
            /\ flowTask[t].at = "child" /\ q.node = "running"
  PROVE  FlowInv'
<1>1. /\ RowTypes /\ ParentCopy(t) /\ ChildCopy(t) /\ Active(t) /\ ParentSound
      /\ flowTask[t].at # "dispatch"
  BY DEF FlowInv, OnChild, Active
<1>2. flowTask[t].p.ids = 1 /\ parentRow.ids = 1 /\ 1 \in ChildIds BY <1>1 DEF ParentCopy, ParentSound
<1>3. flowTask[t].p \in Flows BY <1>1 DEF RowTypes, FlowRecords
<1>4. CASE childRow[1].version = q.version
  <2>1. /\ childRow' = [childRow EXCEPT ![1] = Saved(q)] /\ UNCHANGED parentRow
        /\ At(t, place, flowTask[t].p, Saved(q))
    BY <1>2, <1>4 DEF SaveChild
  <2>2. Saved(q) \in Flows /\ place \in FlowStages BY SavedIs DEF FlowStages
  <2>3. /\ OneTask(t) /\ flowTask'[t].at = place /\ flowTask'[t].p = flowTask[t].p /\ flowTask'[t].c = Saved(q)
    BY <1>1, <1>3, <2>1, <2>2, TaskGoes
  <2>4. flowTask[t].at \in OnChild =>
          childRow[1].status = flowTask[t].c.status /\ childRow[1].node = flowTask[t].c.node
          /\ childRow[1].status \in Unfinished
    BY <1>1, <1>4 DEF ChildCopy
  <2>5. childRow[1].status \in Unfinished \cup {"absent"} BY <1>4, <2>4
  <2>6. flowTask[t].at = "child" => childRow[1].node # "running" /\ childRow[1].status # "absent"
    BY <1>1, <2>4 DEF ChildCopy, OnChild
  <2>7. /\ workStarted' \in [ChildIds -> Nat] /\ \A i \in ChildIds : i # 1 => workStarted'[i] = workStarted[i]
        /\ \/ workStarted'[1] = workStarted[1] /\ UNCHANGED workStarted
           \/ workStarted'[1] = workStarted[1] + 1 /\ flowTask[t].at = "child" /\ q.node = "running"
    BY <1>1, <1>2 DEF RowTypes
  <2>8. \/ /\ workStarted'[1] = workStarted[1]
           /\ ~ChildRetry /\ q.status \in Unfinished /\ q.node # "running" =>
                childRow[1].status = "absent" \/ childRow[1].node # "running"
        \/ workStarted'[1] = workStarted[1] + 1 /\ childRow[1].node # "running" /\ q.node = "running"
           /\ childRow[1].status # "absent"
    BY <1>4, <2>4, <2>6, <2>7, <1>1, <1>2 DEF RowTypes
  <2> QED BY <1>1, <1>2, <1>4, <2>1, <2>3, <2>5, <2>7, <2>8, ChildSaves
<1>5. CASE childRow[1].version # q.version
  <2>1. AgentMoves /\ UNCHANGED workStarted /\ UNCHANGED childRow BY <1>2, <1>5 DEF SaveChild
  <2>2. CASE ~flowTask[t].driving
    <3>1. EndTask(t) /\ UNCHANGED parentRow BY <1>2, <1>5, <2>2 DEF SaveChild
    <3> QED BY <2>1, <3>1, TaskStops
  <2>3. CASE flowTask[t].driving
    <3> DEFINE p == ParentOver(flowTask[t].p, "failed")
    <3>1. p \in Flows /\ p.status = "failed" /\ p.ids = 1 /\ p.version = flowTask[t].p.version
      BY <1>2, <1>3, OverIs DEF Over
    <3>2. SaveParent(t, p, "ended", q) BY <1>2, <1>5, <2>3 DEF SaveChild
    <3>3. parentRow.version = p.version => parentRow.status \in Unfinished BY <1>1, <3>1 DEF ParentCopy
    <3> HIDE DEF p
    <3> QED BY <1>2, <2>1, <3>1, <3>2, <3>3, SaveParentKeeps DEF Over
  <2> QED BY <2>2, <2>3
<1> QED BY <1>4, <1>5

\* Nothing has a row before the first drive.
LEMMA FlowInitInv == ChildInit => FlowInv
<1> SUFFICES ASSUME ChildInit PROVE FlowInv OBVIOUS
<1>1. NoFlow \in Flows /\ NoFlow.status = "absent" /\ NoFlow.ids = 0 /\ NoFlow.version = 0
  BY DEF NoFlow, Flows, Statuses
<1>2. IdleTask \in FlowRecords /\ IdleTask.at = "idle" BY <1>1 DEF FlowRecords, FlowStages, IdleTask
<1>3. NoAgentRun \in AgentRuns /\ NoAgentRun.status = "absent" BY DEF NoAgentRun, AgentRuns
<1>4. RowTypes BY <1>1, <1>2, <1>3 DEF ChildInit, RowTypes
<1>5. \A t \in FlowTasks : flowTask[t].at = "idle" BY <1>2 DEF ChildInit
<1>6. ParentSound BY <1>1, <1>5 DEF ParentSound, ChildInit, Active
<1>7. AgentSound BY <1>3 DEF AgentSound, ChildInit
<1>8. \A i \in ChildIds : ChildSound(i)
  <2>1. \A i \in ChildIds : childRow[i] = NoFlow /\ workStarted[i] = 0 BY DEF ChildInit
  <2> QED BY <1>1, <2>1 DEF ChildSound, RowSound, Unfinished
<1>9. \A t \in FlowTasks : ParentCopy(t) /\ ChildCopy(t)
  BY <1>5 DEF ParentCopy, ChildCopy, Active, OnChild
<1> QED BY <1>4, <1>6, <1>7, <1>8, <1>9 DEF FlowInv

\* The first drive finds no row of its run, so no task works on one (start).
LEMMA StartKeeps ==
  ASSUME FlowInv, NEW t \in FlowTasks, StartParent(t)
  PROVE  FlowInv'
<1> DEFINE q == [NoFlow EXCEPT !.status = "running", !.node = "running", !.version = 1]
           r == [at |-> "dispatch", p |-> q, c |-> NoFlow, driving |-> TRUE]
<1>1. NoFlow \in Flows BY DEF NoFlow, Flows, Statuses
<1>2. q \in Flows /\ q.status = "running" /\ q.ids = 0 /\ q.version = 1
  BY DEF NoFlow, Flows, Statuses, Unfinished
<1>3. parentRow' = q /\ flowTask' = [flowTask EXCEPT ![t] = r] /\ parentRow.status = "absent"
      /\ UNCHANGED <<childRow, agentRow, workStarted>>
  BY DEF StartParent
<1> HIDE DEF q
<1>4. r \in FlowRecords /\ r.at = "dispatch" /\ r.p = q BY <1>1, <1>2 DEF FlowRecords, FlowStages
<1> HIDE DEF r
<1>5. RowTypes' BY <1>2, <1>3, <1>4 DEF FlowInv, RowTypes
<1>6. flowTask'[t] = r /\ \A u \in FlowTasks : u # t => flowTask'[u] = flowTask[u] /\ ~Active(u)
  BY <1>3 DEF FlowInv, RowTypes, ParentSound
<1>7. ParentSound' BY <1>2, <1>3 DEF ParentSound, Unfinished
<1>8. AgentSound' BY <1>3 DEF FlowInv, AgentSound
<1>9. ASSUME NEW i \in ChildIds PROVE ChildSound(i)'
  <2>1. ChildSound(i) /\ parentRow.ids # 1 BY <1>3 DEF FlowInv, ParentSound
  <2> QED BY <2>1, <1>3 DEF ChildSound, Unfinished
<1>10. ASSUME NEW u \in FlowTasks PROVE ParentCopy(u)' /\ ChildCopy(u)'
  <2>1. CASE u = t
    <3>1. ParentCopy(t)' BY <1>2, <1>3, <1>4, <1>6 DEF ParentCopy, Active, Unfinished
    <3>2. ChildCopy(t)' BY <1>4, <1>6 DEF ChildCopy, OnChild
    <3> QED BY <2>1, <3>1, <3>2
  <2>2. CASE u # t BY <2>2, <1>6 DEF ParentCopy, ChildCopy, Active, OnChild
  <2> QED BY <2>1, <2>2
<1> QED BY <1>5, <1>7, <1>8, <1>9, <1>10 DEF FlowInv

\* The node's dispatch records the child's identity, or fails the node (_execute_child_workflow).
LEMMA DispatchKeeps ==
  ASSUME FlowInv, NEW t \in FlowTasks, Dispatch(t)
  PROVE  FlowInv'
<1>1. /\ RowTypes /\ ParentCopy(t) /\ flowTask[t].at = "dispatch" /\ AgentMoves
      /\ UNCHANGED <<childRow, workStarted>>
  BY DEF FlowInv, Dispatch, RowTypes, AgentMoves
<1>2. /\ flowTask[t].p \in Flows /\ flowTask[t].p.ids = 0 /\ flowTask[t].p.status \in Unfinished
      /\ parentRow.version = flowTask[t].p.version => parentRow.status \in Unfinished /\ parentRow.ids = 0
  BY <1>1 DEF ParentCopy, Active, RowTypes, FlowRecords
<1>3. NoFlow \in Flows BY DEF NoFlow, Flows, Statuses
<1>4. CASE SaveParent(t, ParentOver(flowTask[t].p, "failed"), "ended", NoFlow)
  <2> DEFINE q == ParentOver(flowTask[t].p, "failed")
  <2>1. q \in Flows /\ q.status = "failed" /\ q.ids = 0 /\ q.version = flowTask[t].p.version
    BY <1>2, OverIs DEF Over
  <2>2. SaveParent(t, q, "ended", NoFlow) BY <1>4
  <2> HIDE DEF q
  <2> QED BY <1>1, <1>2, <1>3, <2>1, <2>2, SaveParentKeeps DEF Over
<1>5. CASE 1 \in ChildIds /\ SaveParent(t, [flowTask[t].p EXCEPT !.ids = 1], "create", NoFlow)
  <2> DEFINE q == [flowTask[t].p EXCEPT !.ids = 1]
  <2>1. q \in Flows /\ q.status = flowTask[t].p.status /\ q.ids = 1 /\ q.version = flowTask[t].p.version
    BY <1>2 DEF Flows
  <2>2. SaveParent(t, q, "create", NoFlow) BY <1>5
  <2> HIDE DEF q
  <2>3. q.status \in Unfinished /\ q.status # "completed" BY <1>2, <2>1 DEF Unfinished
  <2> QED BY <1>1, <1>2, <1>3, <1>5, <2>1, <2>2, <2>3, SaveParentKeeps
<1>6. flowTask[t].p.ids + 1 = 1 BY <1>2
<1> QED BY <1>4, <1>5, <1>6 DEF Dispatch

\* What a task on the child knows of its copies.
LEMMA OnChildIs ==
  ASSUME FlowInv, NEW t \in FlowTasks, flowTask[t].at \in OnChild \cup {"create"}
  PROVE  /\ flowTask[t].p \in Flows /\ flowTask[t].c \in Flows /\ flowTask[t].p.ids = 1
         /\ parentRow.ids = 1 /\ 1 \in ChildIds /\ ParentCopy(t) /\ ChildCopy(t)
BY DEF FlowInv, RowTypes, FlowRecords, ParentCopy, ParentSound, Active, OnChild

\* A child that has a row is not created again (_execute_child_workflow).
LEMMA CreateKeeps ==
  ASSUME FlowInv, NEW t \in FlowTasks, CreateChild(t)
  PROVE  FlowInv'
<1> DEFINE c == [NoFlow EXCEPT !.status = "running"]
<1>1. flowTask[t].at = "create" /\ UNCHANGED <<agentRow, workStarted>> /\ RowTypes BY DEF CreateChild, FlowInv
<1>2. flowTask[t].p.ids = 1 /\ 1 \in ChildIds BY <1>1, OnChildIs
<1>3. c \in Flows /\ c.status = "running" /\ c.node = "pending" /\ c.version = 0
  BY DEF NoFlow, Flows, Statuses, Unfinished
<1>4. childRow[1] \in Flows /\ ChildSound(1) BY <1>2 DEF FlowInv, RowTypes
<1>5. childRow[1].status # "gone" BY <1>1, <1>4 DEF ChildSound
<1>6. AgentMoves BY <1>1 DEF AgentMoves, RowTypes
<1>7. CASE childRow[1].status = "absent"
  <2>1. PICK v \in Nat : v = childRow[1].version BY <1>4 DEF Flows
  <2> DEFINE q == [c EXCEPT !.version = v]
  <2>2. SaveChild(t, q, "child") BY <1>2, <1>7, <2>1 DEF CreateChild
  <2>3. q \in Flows /\ q.status = "running" /\ q.node = "pending"
    BY <1>3 DEF Flows
  <2> HIDE DEF q, c
  <2> QED BY <1>1, <1>6, <1>7, <2>2, <2>3, SaveChildKeeps DEF RowSound, Unfinished, OnChild
<1>8. CASE childRow[1].status # "absent"
  <2>1. SaveChild(t, c, "child") BY <1>2, <1>5, <1>8 DEF CreateChild
  <2>2. childRow[1].version # 0 BY <1>4, <1>8 DEF ChildSound
  <2> HIDE DEF c
  <2> QED BY <1>1, <1>3, <1>6, <2>1, <2>2, SaveChildKeeps DEF RowSound, Unfinished, OnChild
<1> QED BY <1>7, <1>8

\* The saves of the child that begin no work: its question, its answer, its expiry and its
\* recovery (_execute_node, resume, expire_pause, recover).
LEMMA ChildTurns ==
  ASSUME FlowInv, NEW t \in FlowTasks, ChildAsks(t) \/ ReopenChild(t) \/ CloseChildWait(t) \/ RecoverChild(t)
  PROVE  FlowInv'
<1>1. UNCHANGED <<agentRow, workStarted>> /\ RowTypes /\ flowTask[t].at \in OnChild
  BY DEF FlowInv, ChildAsks, ReopenChild, CloseChildWait, RecoverChild, OnChild
<1>2. AgentMoves BY <1>1 DEF AgentMoves, RowTypes
<1>3. ChildCopy(t) BY <1>1, OnChildIs
<1>c. PICK c \in Flows : c = flowTask[t].c BY <1>1, OnChildIs
<1>4. CASE ChildAsks(t)
  <2> DEFINE q == [c EXCEPT !.status = "awaiting", !.node = "asked"]
  <2>1. SaveChild(t, q, "consume") /\ flowTask[t].c.node = "pending" BY <1>4, <1>c DEF ChildAsks
  <2>2. q \in Flows /\ q.status = "awaiting" /\ q.node = "asked" /\ q.version = c.version
    BY DEF Flows, Statuses, Unfinished
  <2> HIDE DEF q
  <2> QED BY <1>1, <1>2, <1>c, <2>1, <2>2, SaveChildKeeps DEF RowSound, Unfinished, OnChild
<1>5. CASE ReopenChild(t)
  <2> DEFINE q == [c EXCEPT !.status = "running", !.node = "answered"]
  <2>1. SaveChild(t, q, "child") /\ flowTask[t].at = "reopen" BY <1>5, <1>c DEF ReopenChild
  <2>2. q \in Flows /\ q.status = "running" /\ q.node = "answered" /\ q.version = c.version
    BY DEF Flows, Statuses, Unfinished
  <2>3. flowTask[t].c.node # "running" BY <1>3, <2>1, <1>c DEF ChildCopy
  <2> HIDE DEF q
  <2> QED BY <1>1, <1>2, <1>c, <2>1, <2>2, <2>3, SaveChildKeeps DEF RowSound, Unfinished, OnChild
<1>6. ASSUME SaveChild(t, [flowTask[t].c EXCEPT !.status = "failed", !.node = "failed"], "consume")
      PROVE  FlowInv'
  <2> DEFINE q == [c EXCEPT !.status = "failed", !.node = "failed"]
  <2>1. SaveChild(t, q, "consume") BY <1>6, <1>c
  <2>2. q \in Flows /\ q.status = "failed" /\ q.version = c.version
    BY DEF Flows, Statuses, Over
  <2> HIDE DEF q
  <2> QED BY <1>1, <1>2, <1>c, <2>1, <2>2, SaveChildKeeps DEF RowSound, Over, Unfinished, OnChild
<1>7. CASE RecoverChild(t) /\ ChildRetry
  <2> DEFINE q == [c EXCEPT !.node = "answered"]
  <2>1. SaveChild(t, q, "child") /\ flowTask[t].at = "interrupted" BY <1>7, <1>c DEF RecoverChild
  <2>2. q \in Flows /\ q.status = c.status /\ q.node = "answered" /\ q.version = c.version
    BY DEF Flows, Statuses, Unfinished
  <2>3. flowTask[t].c.status = "running" BY <1>3, <2>1, <1>c DEF ChildCopy
  <2> HIDE DEF q
  <2> QED BY <1>1, <1>2, <1>7, <1>c, <2>1, <2>2, <2>3, SaveChildKeeps DEF RowSound, Unfinished, OnChild
<1>8. CASE CloseChildWait(t) BY <1>6, <1>8 DEF CloseChildWait
<1>9. CASE RecoverChild(t) /\ ~ChildRetry BY <1>6, <1>9 DEF RecoverChild
<1> QED BY <1>4, <1>5, <1>7, <1>8, <1>9

\* Work begins with the save of its start, and ends with the save of its outcome (_execute_node).
LEMMA WorkKeeps ==
  ASSUME FlowInv, NEW t \in FlowTasks, ChildBegins(t) \/ ChildEnds(t)
  PROVE  FlowInv'
<1>1. RowTypes /\ flowTask[t].at \in OnChild BY DEF FlowInv, ChildBegins, ChildEnds, OnChild
<1>2. ChildCopy(t) /\ flowTask[t].p.ids = 1 /\ 1 \in ChildIds BY <1>1, OnChildIs
<1>c. PICK c \in Flows : c = flowTask[t].c BY <1>1, OnChildIs
<1>3. CASE ChildBegins(t)
  <2> DEFINE q == [c EXCEPT !.node = "running"]
  <2>1. SaveChild(t, q, "working") /\ flowTask[t].at = "child" BY <1>3, <1>c DEF ChildBegins
  <2>2. q \in Flows /\ q.status = c.status /\ q.node = "running" /\ q.version = c.version
    BY DEF Flows, Statuses, Unfinished
  <2>3. flowTask[t].c.status = "running" BY <1>2, <2>1, <1>c DEF ChildCopy
  <2> HIDE DEF q
  <2>4. CASE childRow[1].version = q.version
    <3>1. workStarted' = [workStarted EXCEPT ![1] = @ + 1] /\ agentRow' = [NoAgentRun EXCEPT !.status = "live"]
      BY <1>2, <1>3, <2>2, <2>4, <1>c DEF ChildBegins
    <3> QED BY <1>1, <1>c, <2>1, <2>2, <2>3, <2>4, <3>1, SaveChildKeeps DEF RowSound, Unfinished, OnChild
  <2>5. CASE childRow[1].version # q.version
    <3>1. UNCHANGED <<workStarted, agentRow>> BY <1>2, <1>3, <2>2, <2>5, <1>c DEF ChildBegins
    <3>2. AgentMoves BY <1>1, <3>1 DEF AgentMoves, RowTypes
    <3>3. flowTask[t].c.node # "running" BY <1>2, <2>1, <1>c DEF ChildCopy
    <3> QED BY <1>1, <1>c, <2>1, <2>2, <2>3, <3>1, <3>2, <3>3, SaveChildKeeps DEF RowSound, Unfinished, OnChild
  <2> QED BY <2>4, <2>5
<1>4. CASE ChildEnds(t)
  <2>1. PICK end \in Over, unresolved \in BOOLEAN :
          /\ SaveChild(t, [flowTask[t].c EXCEPT !.status = end, !.node = end], "consume")
          /\ agentRow' = [status |-> "over", unresolved |-> unresolved, old |-> FALSE]
          /\ UNCHANGED workStarted
    BY <1>4 DEF ChildEnds
  <2> DEFINE q == [c EXCEPT !.status = end, !.node = end]
  <2>2. SaveChild(t, q, "consume") BY <2>1, <1>c
  <2>3. q \in Flows /\ q.status = end /\ q.version = c.version BY DEF Flows, Statuses, Over
  <2>4. childRow[1].status # "absent" BY <1>1, <1>2 DEF ChildCopy
  <2>5. AgentMoves BY <1>2, <2>1, <2>4 DEF AgentMoves, AgentRuns
  <2> HIDE DEF q
  <2>6. q.status \notin Unfinished BY <2>3 DEF Over, Unfinished
  <2> QED BY <1>1, <1>c, <2>1, <2>2, <2>3, <2>5, <2>6, SaveChildKeeps DEF RowSound, Unfinished, OnChild
<1> QED BY <1>3, <1>4

\* The parent takes what its child came to (_consume_child_state).
LEMMA ConsumeKeeps ==
  ASSUME FlowInv, NEW t \in FlowTasks, Consume(t)
  PROVE  FlowInv'
<1>1. /\ RowTypes /\ ParentCopy(t) /\ ChildCopy(t) /\ ParentSound /\ flowTask[t].at = "consume"
      /\ UNCHANGED <<childRow, agentRow, workStarted>>
  BY DEF FlowInv, Consume
<1>2. /\ flowTask[t].p.ids = 1 /\ parentRow.ids = 1 /\ 1 \in ChildIds
      /\ parentRow.version = flowTask[t].p.version => parentRow.status \in Unfinished
  BY <1>1 DEF ParentCopy, ParentSound, Active
<1>3. PICK p \in Flows : p = flowTask[t].p BY <1>1 DEF RowTypes, FlowRecords
<1>4. AgentMoves /\ NoFlow \in Flows BY <1>1 DEF AgentMoves, RowTypes, NoFlow, Flows, Statuses
<1>5. CASE flowTask[t].c.status = "awaiting"
  <2> DEFINE q == [p EXCEPT !.status = "awaiting", !.node = "asked"]
  <2>1. SaveParent(t, q, "ended", NoFlow) BY <1>3, <1>5 DEF Consume, Consumed
  <2>2. q \in Flows /\ q.status = "awaiting" /\ q.ids = p.ids /\ q.version = p.version
    BY DEF Flows, Statuses, Unfinished
  <2> HIDE DEF q
  <2> QED BY <1>1, <1>2, <1>3, <1>4, <2>1, <2>2, SaveParentKeeps DEF Unfinished
<1>6. CASE flowTask[t].c.status # "awaiting"
  <2>1. PICK end \in Over :
          /\ Consumed(flowTask[t].p, flowTask[t].c) = ParentOver(p, end)
          /\ end = "completed" => flowTask[t].c.status = "completed"
    BY <1>3, <1>6 DEF Consumed, Over
  <2> DEFINE q == ParentOver(p, end)
  <2>2. SaveParent(t, q, "ended", NoFlow) BY <2>1 DEF Consume
  <2>3. q \in Flows /\ q.status = end /\ q.ids = p.ids /\ q.version = p.version BY OverIs
  <2>4. end = "completed" => childRow[1].status \in {"completed", "gone"} BY <1>1, <2>1 DEF ChildCopy
  <2> HIDE DEF q
  <2> QED BY <1>1, <1>2, <1>3, <1>4, <2>2, <2>3, <2>4, SaveParentKeeps
<1> QED BY <1>5, <1>6


\* A task takes copies of both rows as they are.
LEMMA TaskReads ==
  ASSUME FlowInv, NEW t \in FlowTasks, NEW place \in FlowStages, At(t, place, parentRow, childRow[parentRow.ids]),
         UNCHANGED <<parentRow, childRow, agentRow, workStarted>>,
         parentRow.status \in Unfinished, parentRow.ids = 1, place \notin {"idle", "dispatch", "working"},
         place = "create" => childRow[1].status = "absent",
         place \in {"child", "interrupted"} => childRow[1].status = "running",
         place = "child" => childRow[1].node # "running",
         place = "interrupted" => childRow[1].node = "running",
         place \in {"reopen", "expire"} => childRow[1].status = "awaiting"
  PROVE  FlowInv'
<1>1. RowTypes /\ 1 \in ChildIds /\ parentRow \in Flows /\ childRow[1] \in Flows /\ ChildSound(1)
  BY DEF FlowInv, RowTypes, ParentSound
<1>2. /\ OneTask(t) /\ flowTask'[t].at = place /\ flowTask'[t].p = parentRow /\ flowTask'[t].c = childRow[1]
  BY <1>1, TaskGoes
<1>3. AgentMoves BY <1>1 DEF AgentMoves, RowTypes
<1>4. parentRow.version \in Nat /\ childRow[1].version \in Nat BY <1>1 DEF Flows
<1>5. ParentCopy(t)' BY <1>2, <1>4 DEF ParentCopy, Active
<1>6. ChildCopy(t)'
  <2>1. RowSound(childRow[1]) BY <1>1 DEF ChildSound
  <2> QED BY <1>2, <1>4, <2>1 DEF ChildCopy, OnChild, RowSound, Unfinished
<1>7. place = "create" => \A i \in ChildIds : childRow[i].status = "absent" \/ ~childRow[i].old
  BY DEF FlowInv, ChildSound
<1> QED BY <1>2, <1>3, <1>5, <1>6, <1>7, TaskMoves DEF Unfinished

\* An answer and an expiry go to the child the parent's pause names (resume, expire_pause).
LEMMA AnswerKeeps ==
  ASSUME FlowInv, NEW t \in FlowTasks, AnswerChild(t) \/ ExpireChild(t)
  PROVE  FlowInv'
<1>1. /\ RowTypes /\ parentRow.status = "awaiting" /\ UNCHANGED <<parentRow, childRow, agentRow, workStarted>>
      /\ parentRow.ids = 1
  BY DEF FlowInv, ParentSound, AnswerChild, ExpireChild
<1>2. AgentMoves BY <1>1 DEF AgentMoves, RowTypes
<1>3. CASE EndTask(t) BY <1>1, <1>2, <1>3, TaskStops
<1>4. CASE childRow[1].status = "awaiting" /\ ~EndTask(t)
  <2>1. PICK place \in {"reopen", "expire"} : At(t, place, parentRow, childRow[parentRow.ids])
    BY <1>1, <1>4 DEF AnswerChild, ExpireChild
  <2> QED BY <1>1, <1>4, <2>1, TaskReads DEF FlowStages, Unfinished
<1>5. CASE childRow[1].status # "awaiting" /\ ~EndTask(t)
  <2>1. At(t, "consume", parentRow, childRow[parentRow.ids]) BY <1>1, <1>5 DEF AnswerChild, ExpireChild
  <2> QED BY <1>1, <2>1, TaskReads DEF FlowStages, Unfinished
<1> QED BY <1>3, <1>4, <1>5

\* A recovery goes on with the child there is, or follows the node's recovery policy (recover).
LEMMA RecoverKeeps ==
  ASSUME FlowInv, NEW t \in FlowTasks, RecoverParent(t)
  PROVE  FlowInv'
<1>1. /\ RowTypes /\ parentRow.status = "running" /\ UNCHANGED <<childRow, agentRow, workStarted>>
      /\ parentRow \in Flows
  BY DEF FlowInv, RowTypes, RecoverParent
<1>2. AgentMoves /\ NoFlow \in Flows BY <1>1 DEF AgentMoves, RowTypes, NoFlow, Flows, Statuses
<1>3. CASE parentRow.ids = 0 /\ ParentRetry
  <2>1. SaveParent(t, parentRow, "dispatch", NoFlow) BY <1>3 DEF RecoverParent, RecoverChildless
  <2> QED BY <1>1, <1>2, <1>3, <2>1, SaveParentKeeps DEF Unfinished
<1>4. CASE parentRow.ids = 0 /\ ~ParentRetry
  <2> DEFINE q == ParentOver(parentRow, "failed")
  <2>1. SaveParent(t, q, "ended", NoFlow) BY <1>4 DEF RecoverParent, RecoverChildless
  <2>2. q \in Flows /\ q.status = "failed" /\ q.ids = 0 /\ q.version = parentRow.version
    BY <1>1, <1>4, OverIs DEF Over
  <2> HIDE DEF q
  <2> QED BY <1>1, <1>2, <1>4, <2>1, <2>2, SaveParentKeeps DEF Unfinished, Over
<1>5. CASE parentRow.ids # 0
  <2>1. parentRow.ids = 1 /\ 1 \in ChildIds BY <1>1, <1>5 DEF Flows, FlowInv, ParentSound
  <2>2. ChildSound(1) /\ childRow[1] \in Flows BY <1>1, <2>1 DEF FlowInv, RowTypes
  <2>3. childRow[1].status # "gone" BY <1>1, <2>2 DEF ChildSound, Unfinished
  <2>4. PICK place \in {"create", "consume", "interrupted", "child"} :
          /\ At(t, place, parentRow, childRow[parentRow.ids]) /\ UNCHANGED parentRow
          /\ place = RecoverStage(childRow[1])
    BY <1>5, <2>1 DEF RecoverParent, RecoverStage
  <2>5. /\ place = "create" => childRow[1].status = "absent"
        /\ place \in {"child", "interrupted"} => childRow[1].status = "running"
        /\ place = "child" => childRow[1].node # "running"
        /\ place = "interrupted" => childRow[1].node = "running"
    BY <2>3, <2>4 DEF RecoverStage
  <2> QED BY <1>1, <2>1, <2>4, <2>5, TaskReads DEF FlowStages, Unfinished
<1> QED BY <1>3, <1>4, <1>5

\* A process that dies leaves its agent run to an operator.
LEMMA CrashKeeps ==
  ASSUME FlowInv, NEW t \in FlowTasks, CrashTask(t)
  PROVE  FlowInv'
<1>1. RowTypes /\ EndTask(t) /\ UNCHANGED <<parentRow, childRow, workStarted>> /\ agentRow \in AgentRuns
  BY DEF FlowInv, RowTypes, CrashTask
<1>2. CASE flowTask[t].at # "working"
  <2>1. AgentMoves BY <1>1, <1>2 DEF CrashTask, AgentMoves
  <2> QED BY <1>1, <2>1, TaskStops
<1>3. CASE flowTask[t].at = "working"
  <2>1. 1 \in ChildIds /\ ChildCopy(t) BY <1>3, OnChildIs DEF OnChild
  <2>2. childRow[1].status # "absent" BY <1>3, <2>1 DEF ChildCopy, OnChild
  <2>3. agentRow' = [agentRow EXCEPT !.status = "over", !.unresolved = TRUE] BY <1>3 DEF CrashTask
  <2>4. agentRow' \in AgentRuns /\ agentRow'.status = "over" BY <1>1, <2>3 DEF AgentRuns
  <2>5. AgentMoves BY <2>1, <2>2, <2>4 DEF AgentMoves
  <2> QED BY <1>1, <2>5, TaskStops
<1> QED BY <1>2, <1>3

\* An operator resolves what the agent run left.
LEMMA ResolveKeeps == FlowInv /\ ResolveExecution => FlowInv'
<1> SUFFICES ASSUME FlowInv, ResolveExecution PROVE FlowInv' OBVIOUS
<1>1. agentRow \in AgentRuns /\ AgentSound /\ RowTypes BY DEF FlowInv, RowTypes
<1>2. agentRow' = [agentRow EXCEPT !.unresolved = FALSE] /\ UNCHANGED <<parentRow, childRow, flowTask, workStarted>>
  BY DEF ResolveExecution
<1>3. agentRow' \in AgentRuns /\ agentRow'.status = agentRow.status /\ agentRow'.unresolved = FALSE
  BY <1>1, <1>2 DEF AgentRuns
<1>4. RowTypes' BY <1>1, <1>2, <1>3 DEF RowTypes
<1>5. AgentSound' BY <1>1, <1>2, <1>3 DEF AgentSound
<1>6. ParentSound' BY <1>2 DEF FlowInv, ParentSound, Active
<1>7. \A i \in ChildIds : ChildSound(i)' BY <1>2 DEF FlowInv, ChildSound
<1>8. \A t \in FlowTasks : ParentCopy(t)' /\ ChildCopy(t)' BY <1>2 DEF FlowInv, ParentCopy, ChildCopy, Active
<1> QED BY <1>4, <1>5, <1>6, <1>7, <1>8 DEF FlowInv

\* Rows age while no task is between two statements, so none is about to create the child.
LEMMA AgeKeeps == FlowInv /\ AgeRows => FlowInv'
<1> SUFFICES ASSUME FlowInv, AgeRows PROVE FlowInv' OBVIOUS
<1>1. /\ RowTypes /\ ParentSound /\ AgentSound /\ UNCHANGED <<flowTask, workStarted>>
      /\ \A t \in FlowTasks : flowTask[t].at # "create"
  BY DEF FlowInv, AgeRows
<1>2. ASSUME NEW q \in Flows
      PROVE  /\ [q EXCEPT !.old = TRUE] \in Flows /\ [q EXCEPT !.old = TRUE].status = q.status
             /\ [q EXCEPT !.old = TRUE].node = q.node /\ [q EXCEPT !.old = TRUE].ids = q.ids
             /\ [q EXCEPT !.old = TRUE].version = q.version /\ [q EXCEPT !.old = TRUE].old = TRUE
  BY DEF Flows
<1>3. /\ parentRow' \in Flows /\ parentRow'.status = parentRow.status /\ parentRow'.ids = parentRow.ids
      /\ parentRow'.version = parentRow.version
  <2>1. parentRow \in Flows /\ parentRow' = [parentRow EXCEPT !.old = TRUE] BY <1>1 DEF RowTypes, AgeRows
  <2> QED BY <1>2, <2>1
<1>4. /\ childRow' \in [ChildIds -> Flows]
      /\ \A i \in ChildIds : /\ childRow'[i].status = childRow[i].status /\ childRow'[i].node = childRow[i].node
                             /\ childRow'[i].version = childRow[i].version /\ childRow'[i].old = TRUE
  <2>1. /\ \A i \in ChildIds : childRow[i] \in Flows
        /\ childRow' = [i \in ChildIds |-> [childRow[i] EXCEPT !.old = TRUE]]
    BY <1>1 DEF RowTypes, AgeRows
  <2> QED BY <1>2, <2>1
<1>5. agentRow' \in AgentRuns /\ agentRow'.status = agentRow.status /\ agentRow'.unresolved = agentRow.unresolved
  <2>1. agentRow \in AgentRuns /\ agentRow' = [agentRow EXCEPT !.old = TRUE] BY <1>1 DEF RowTypes, AgeRows
  <2> QED BY <2>1 DEF AgentRuns
<1>6. RowTypes' BY <1>1, <1>3, <1>4, <1>5 DEF RowTypes
<1>7. ParentSound' BY <1>1, <1>3, <1>4 DEF ParentSound, Active
<1>8. AgentSound' BY <1>1, <1>4, <1>5 DEF AgentSound
<1>9. ASSUME NEW i \in ChildIds PROVE ChildSound(i)'
  <2>1. ChildSound(i) BY DEF FlowInv
  <2> QED BY <2>1, <1>1, <1>3, <1>4 DEF ChildSound, RowSound
<1>10. ASSUME NEW t \in FlowTasks PROVE ParentCopy(t)' /\ ChildCopy(t)'
  <2>1. ParentCopy(t) /\ ChildCopy(t) BY DEF FlowInv
  <2>2. ParentCopy(t)' BY <2>1, <1>1, <1>3 DEF ParentCopy, Active
  <2>3. flowTask[t].at \in OnChild \cup {"consume"} => 1 \in ChildIds
    BY <2>1, <1>1 DEF ParentCopy, ParentSound, Active, OnChild
  <2>4. ChildCopy(t)' BY <2>1, <2>3, <1>1, <1>4 DEF ChildCopy
  <2> QED BY <2>2, <2>4
<1> QED BY <1>6, <1>7, <1>8, <1>9, <1>10 DEF FlowInv

\* The sweep takes rows of what is over: no task's copy is one of them (PostgresRetentionSweeper.sweep).
LEMMA SweepKeeps == FlowInv /\ SweepBatch => FlowInv'
<1> SUFFICES ASSUME FlowInv, SweepBatch PROVE FlowInv' OBVIOUS
<1>1. RowTypes /\ ParentSound /\ AgentSound /\ UNCHANGED <<flowTask, workStarted>> BY DEF FlowInv, SweepBatch
<1>2. ASSUME NEW q \in Flows
      PROVE  /\ [q EXCEPT !.status = "gone"] \in Flows /\ [q EXCEPT !.status = "gone"].status = "gone"
             /\ [q EXCEPT !.status = "gone"].node = q.node /\ [q EXCEPT !.status = "gone"].ids = q.ids
             /\ [q EXCEPT !.status = "gone"].version = q.version /\ [q EXCEPT !.status = "gone"].old = q.old
  BY DEF Flows, Statuses
<1>3. CASE RunDoomed(agentRow) /\ agentRow' = [agentRow EXCEPT !.status = "gone"] /\ UNCHANGED <<parentRow, childRow>>
  <2>1. /\ agentRow' \in AgentRuns /\ agentRow'.status = "gone" /\ agentRow'.unresolved = agentRow.unresolved
    BY <1>1, <1>3 DEF RowTypes, AgentRuns
  <2>2. ~agentRow.unresolved /\ agentRow.status = "over" /\ \A i \in ChildIds : childRow[i].status \notin Unfinished
    BY <1>3 DEF RunDoomed
  <2>3. RowTypes' BY <1>1, <1>3, <2>1 DEF RowTypes
  <2>4. AgentSound' BY <1>1, <1>3, <2>1, <2>2 DEF AgentSound
  <2>5. ParentSound' BY <1>1, <1>3 DEF ParentSound, Active
  <2>6. \A i \in ChildIds : ChildSound(i)' BY <1>1, <1>3 DEF FlowInv, ChildSound
  <2>7. \A t \in FlowTasks : ParentCopy(t)' /\ ChildCopy(t)'
    BY <1>1, <1>3 DEF FlowInv, ParentCopy, ChildCopy, Active
  <2> QED BY <2>3, <2>4, <2>5, <2>6, <2>7 DEF FlowInv
<1>4. ASSUME NEW gone \in SUBSET {i \in ChildIds : ChildDoomed(childRow[i])},
             childRow' = [i \in ChildIds |-> IF i \in gone THEN [childRow[i] EXCEPT !.status = "gone"] ELSE childRow[i]],
             UNCHANGED <<parentRow, agentRow>>
      PROVE  FlowInv'
  <2>1. ASSUME NEW i \in ChildIds
        PROVE  /\ childRow'[i] \in Flows /\ childRow'[i].node = childRow[i].node
               /\ childRow'[i].version = childRow[i].version /\ childRow'[i].old = childRow[i].old
               /\ \/ childRow'[i].status = childRow[i].status
                  \/ /\ childRow'[i].status = "gone" /\ childRow[i].status \in Over /\ childRow[i].old
                     /\ parentRow.status \notin Unfinished
    <3>1. childRow[i] \in Flows BY <1>1 DEF RowTypes
    <3>2. CASE i \in gone
      <4>1. childRow'[i] = [childRow[i] EXCEPT !.status = "gone"] BY <1>4, <3>2
      <4>2. childRow[i].status \in Over /\ childRow[i].old /\ parentRow.status \notin Unfinished
        BY <1>4, <3>2 DEF ChildDoomed
      <4> QED BY <1>2, <3>1, <4>1, <4>2
    <3>3. CASE i \notin gone BY <1>4, <3>1, <3>3
    <3> QED BY <3>2, <3>3
  <2>2. childRow' \in [ChildIds -> Flows] BY <1>4, <2>1
  <2>3. RowTypes' BY <1>1, <1>4, <2>2 DEF RowTypes
  <2>4. AgentSound' BY <1>1, <1>4, <2>1 DEF AgentSound, Over, Unfinished
  <2>5. ParentSound' BY <1>1, <1>4, <2>1 DEF ParentSound, Active, Over, Unfinished
  <2>6. ASSUME NEW i \in ChildIds PROVE ChildSound(i)'
    <3>1. ChildSound(i) BY DEF FlowInv
    <3> QED BY <3>1, <2>1, <1>1, <1>4 DEF ChildSound, RowSound, Over, Unfinished
  <2>7. ASSUME NEW t \in FlowTasks PROVE ParentCopy(t)' /\ ChildCopy(t)'
    <3>1. ParentCopy(t) /\ ChildCopy(t) BY DEF FlowInv
    <3>2. ParentCopy(t)' BY <3>1, <1>1, <1>4 DEF ParentCopy, Active
    <3>3. flowTask[t].at \in OnChild \cup {"consume"} => 1 \in ChildIds
      BY <3>1, <1>1 DEF ParentCopy, ParentSound, Active, OnChild
    <3>4. ChildCopy(t)' BY <3>1, <3>3, <2>1, <1>1 DEF ChildCopy, Over, Unfinished
    <3> QED BY <3>2, <3>4
  <2> QED BY <2>3, <2>4, <2>5, <2>6, <2>7 DEF FlowInv
<1>5. CASE parentRow.status \in Over /\ parentRow' = [parentRow EXCEPT !.status = "gone"] /\ UNCHANGED <<childRow, agentRow>>
  <2>1. /\ parentRow' \in Flows /\ parentRow'.status = "gone" /\ parentRow'.ids = parentRow.ids
        /\ parentRow'.version = parentRow.version
    <3>1. parentRow \in Flows BY <1>1 DEF RowTypes
    <3> QED BY <1>2, <1>5, <3>1
  <2>2. RowTypes' BY <1>1, <1>5, <2>1 DEF RowTypes
  <2>3. AgentSound' BY <1>1, <1>5 DEF AgentSound
  <2>4. ParentSound' BY <1>1, <1>5, <2>1 DEF ParentSound, Active
  <2>5. ASSUME NEW i \in ChildIds PROVE ChildSound(i)'
    <3>1. ChildSound(i) BY DEF FlowInv
    <3> QED BY <3>1, <1>1, <1>5, <2>1 DEF ChildSound, Unfinished
  <2>6. ASSUME NEW t \in FlowTasks PROVE ParentCopy(t)' /\ ChildCopy(t)'
    <3>1. ParentCopy(t) /\ ChildCopy(t) BY DEF FlowInv
    <3>2. ParentCopy(t)' BY <3>1, <1>1, <1>5, <2>1 DEF ParentCopy, Active, Over, Unfinished
    <3>3. ChildCopy(t)' BY <3>1, <1>1, <1>5 DEF ChildCopy
    <3> QED BY <3>2, <3>3
  <2> QED BY <2>2, <2>3, <2>4, <2>5, <2>6 DEF FlowInv
<1>6. CASE \E gone \in SUBSET {i \in ChildIds : ChildDoomed(childRow[i])} :
             /\ childRow' = [i \in ChildIds |-> IF i \in gone THEN [childRow[i] EXCEPT !.status = "gone"]
                                                ELSE childRow[i]]
             /\ UNCHANGED <<parentRow, agentRow>>
  BY <1>4, <1>6
<1> QED BY <1>3, <1>5, <1>6 DEF SweepBatch

\* Every step of a task, of an operator, of time and of the sweep keeps the rows sound.
LEMMA FlowInvKept == FlowInv /\ [ChildNext]_childVars => FlowInv'
<1> SUFFICES ASSUME FlowInv, [ChildNext]_childVars PROVE FlowInv' OBVIOUS
<1>1. ASSUME NEW t \in FlowTasks,
             \/ StartParent(t) \/ Dispatch(t) \/ CreateChild(t) \/ ChildAsks(t) \/ ChildBegins(t)
             \/ ChildEnds(t) \/ Consume(t) \/ AnswerChild(t) \/ ReopenChild(t) \/ ExpireChild(t)
             \/ CloseChildWait(t) \/ RecoverParent(t) \/ RecoverChild(t) \/ CrashTask(t)
      PROVE  FlowInv'
  BY <1>1, StartKeeps, DispatchKeeps, CreateKeeps, ChildTurns, WorkKeeps, ConsumeKeeps, AnswerKeeps,
     RecoverKeeps, CrashKeeps
<1>2. CASE UNCHANGED childVars
  BY <1>2 DEF childVars, FlowInv, RowTypes, ParentSound, AgentSound, ChildSound, ParentCopy, ChildCopy, Active
<1> QED BY <1>1, <1>2, ResolveKeeps, AgeKeeps, SweepKeeps DEF ChildNext

\* A parent and its child agree for every number of tasks, identities and crashes, under both
\* recovery policies (workflows/engine.py, persistence/retention.py).
THEOREM ChildIsSafe == ChildSpec => []ChildSafe
<1>1. FlowInv => ChildSafe
  <2> SUFFICES ASSUME FlowInv PROVE ChildSafe OBVIOUS
  <2>1. /\ RowTypes /\ ParentSound /\ AgentSound /\ \A i \in ChildIds : ChildSound(i)
        /\ \A t \in FlowTasks : ParentCopy(t)
    BY DEF FlowInv
  <2>2. ChildTypeOK
    <3>1. parentRow \in Flows /\ agentRow \in AgentRuns /\ \A i \in ChildIds : childRow[i] \in Flows
      BY <2>1 DEF RowTypes
    <3>2. parentRow.status \in Unfinished \cup Over \cup {"absent", "gone"} /\ parentRow.ids \in {0} \cup ChildIds
      BY <2>1, <3>1 DEF Flows, Statuses, ParentSound
    <3>3. \A i \in ChildIds : childRow[i].status \in Unfinished \cup Over \cup {"absent", "gone"}
      BY <3>1 DEF Flows, Statuses
    <3>4. agentRow.status \in {"absent", "live", "over", "gone"} BY <3>1 DEF AgentRuns
    <3>5. \A t \in FlowTasks : flowTask[t].at \in FlowStages BY <2>1 DEF RowTypes, FlowRecords
    <3>6. ASSUME NEW t \in FlowTasks, flowTask[t].at \in {"create", "child", "working", "consume", "reopen",
                                                           "expire", "interrupted"}
          PROVE  flowTask[t].p.ids \in ChildIds
      BY <2>1, <3>6 DEF ParentCopy, ParentSound, Active
    <3> QED BY <3>2, <3>3, <3>4, <3>5, <3>6 DEF ChildTypeOK
  <2>3. NeededRowsKept BY <2>1 DEF NeededRowsKept, ChildSound, AgentSound
  <2>4. ChildWorkOnce
    <3> DEFINE begun == {i \in ChildIds : workStarted[i] > 0}
    <3>1. begun \subseteq {1} BY <2>1 DEF ChildSound
    <3>2. IsFiniteSet({1}) /\ Cardinality({1}) = 1 BY FS_Singleton
    <3>3. Cardinality(begun) <= 1 BY <3>1, <3>2, FS_Subset
    <3>4. ~ChildRetry => \A i \in ChildIds : workStarted[i] <= 1 BY <2>1 DEF ChildSound
    <3> QED BY <3>3, <3>4 DEF ChildWorkOnce
  <2>5. ParentFollowsChild BY <2>1 DEF ParentFollowsChild, ParentSound
  <2> QED BY <2>2, <2>3, <2>4, <2>5 DEF ChildSafe
<1> QED BY <1>1, FlowInitInv, FlowInvKept, PTL DEF ChildSpec

-----------------------------------------------------------------------------
(* MemoryStore.                                                            *)

MemStages == {"new", "proposed", "applying", "answered", "recalled", "checking", "told", "refused"}
MemContents == Contents \cup {Screened, Blank}
MemRecords == [revision : 0..(MaxRevision + 1), content : MemContents, deleted : BOOLEAN,
               expires : Nat, updated : Nat]
MemRows == [key : MemoryKeys, record : MemRecords]
MemShown == [key : MemoryKeys, content : MemContents]
MemReasons == {Blank, "denied", "retention", "conflict", "expired", "reused", "quota", "changed"}
ToolCalls == [tool : MemoryTools \cup {Blank}, stage : MemStages, key : MemoryKeys \cup {Blank},
              expect : 0..MaxRevision, content : Contents \cup {Blank}, retention : Nat, started : Nat,
              draft : MemRecords, why : MemReasons, found : SUBSET MemRows, left : SUBSET MemRows,
              since : SUBSET MemShown, replays : Nat]
Operations == [asked : MemRecords, key : MemoryKeys \cup {Blank}]
RowOf(c, k) == memories[<<ScopeOf[c], k>>]

MemTypes ==
  /\ memClock \in 1..MemoryUntil
  /\ memories \in [Places -> MemRecords]
  /\ \A p \in Places : memories[p].deleted => memories[p].content = Blank
  /\ operations \in [MemoryCalls -> Operations]
  /\ memCall \in [MemoryCalls -> ToolCalls]

\* The fields a call's tool has filled in by its stage.
StageSound(r) ==
  /\ r.stage \in {"proposed", "applying", "answered"} =>
       r.tool \in {"write", "delete"} /\ r.key \in MemoryKeys /\ r.content \in Contents
  /\ r.stage \in {"recalled", "checking", "told"} => r.tool = "recall"
  /\ r.left \subseteq r.found /\ (r.stage # "checking" => r.left = {})

\* A recalled row has not been overtaken, or its revision has.
RecallRowSound(line, c) ==
  LET current == RowOf(c, line.key)
  IN  /\ line.record.revision <= current.revision
      /\ (line.record.revision = current.revision /\ line.record.content # Blank /\ current.content # Blank)
            => line.record.content = current.content
Seen(line) == [key |-> line.key, content |-> line.record.content]
RecallSound(r, c) ==
  /\ \A line \in r.found : RecallRowSound(line, c)
  /\ r.stage = "checking" =>
       \A line \in r.found :
         /\ (line.record.content # Blank /\ RowOf(c, line.key).revision = line.record.revision
               /\ Visible(RowOf(c, line.key))) => Seen(line) \in r.since
         /\ (line \notin r.left /\ line.record.content # Blank) => Seen(line) \in r.since
  /\ r.stage = "told" => \A line \in r.found : line.record.content # Blank => Seen(line) \in r.since

\* An operation that was answered is one the call has proposed, and can propose again.
AnswerSound(r, c) ==
  operations[c] # NotApplied =>
    /\ r.stage \in {"proposed", "answered", "refused"}
    /\ IF r.stage = "refused"
       THEN r.why = "reused" /\ r.draft.content # operations[c].asked.content
       ELSE /\ operations[c].key = r.key /\ r.retention <= MaxRetention
            /\ \E matter \in MemContents : operations[c].asked = RecordOf(r, matter)

\* A transaction holds its scope and writes the revision after the row's.
ApplySound(r, c) ==
  r.stage = "applying" =>
    /\ operations[c] = NotApplied /\ r.retention <= MaxRetention
    /\ r.draft.revision = RowOf(c, r.key).revision + 1
    /\ r.draft.deleted => r.draft.content = Blank
    /\ \E matter \in MemContents : r.draft = RecordOf(r, matter)

CallSound(r, c) == StageSound(r) /\ RecallSound(r, c) /\ AnswerSound(r, c) /\ ApplySound(r, c)
CallsInv == \A c \in MemoryCalls : CallSound(memCall[c], c)
OneApplies ==
  \A c, d \in MemoryCalls : (memCall[c].stage = "applying" /\ memCall[d].stage = "applying"
                               /\ ScopeOf[c] = ScopeOf[d]) => c = d

MemInv == MemTypes /\ CallsInv /\ OneApplies /\ RevisionsCounted /\ QuotaKept

-----------------------------------------------------------------------------
\* A call reads and writes in the scope of its caller.
LEMMA PlacesOfCalls == \A c \in MemoryCalls, k \in MemoryKeys : <<ScopeOf[c], k>> \in Places
BY DEF Places, MemScopes

\* There are finitely many places to write.
LEMMA ScopesFinite == IsFiniteSet(Places)
<1> DEFINE f == [c \in MemoryCalls |-> ScopeOf[c]]
<1>1. f \in Surjection(MemoryCalls, MemScopes) BY DEF MemScopes, Surjection
<1> HIDE DEF f
<1>2. IsFiniteSet(MemScopes) BY <1>1, MemoryConstants, FS_Surjection
<1> QED BY <1>2, MemoryConstants, FS_Product DEF Places

\* What a table of records takes from a tenant's quota is a number.
LEMMA UnitsFinite ==
  ASSUME NEW held \in [Places -> MemRecords], NEW t, NEW d \in {"items", "bytes"}
  PROVE  IsFiniteSet(Units(t, held, d)) /\ UsedBy(t, held, d) \in Nat
<1> DEFINE S == {p \in Places : p[1].tenant = t}
           n(p) == Counted(held[p])[d]
           U(p) == {p} \X (1..n(p))
           f == [p \in S |-> U(p)]
<1>1. IsFiniteSet(S) BY ScopesFinite, FS_Subset
<1>2. ASSUME NEW p \in S PROVE n(p) \in Nat
  <2>1. held[p] \in MemRecords OBVIOUS
  <2>2. held[p].content \in MemContents BY <2>1 DEF MemRecords
  <2>3. held[p].content # Blank => SizeOf[held[p].content] \in Nat
    BY <2>2, MemoryConstants DEF MemContents, MemoryConstants
  <2> QED BY <2>3 DEF Counted
<1>3. ASSUME NEW p \in S PROVE IsFiniteSet(U(p))
  <2>1. PICK m \in Nat : m = n(p) BY <1>2
  <2>2. m \in Int /\ 1 \in Int OBVIOUS
  <2>3. IsFiniteSet(1..m) BY ONLY <2>2, FS_Interval
  <2>4. IsFiniteSet({p}) BY FS_Singleton
  <2>5. IsFiniteSet({p} \X (1..m)) BY <2>3, <2>4, FS_Product
  <2> QED BY <2>1, <2>5
<1> HIDE DEF U, S
<1>4. f \in Surjection(S, {U(p) : p \in S}) BY DEF Surjection
<1> HIDE DEF f
<1>5. IsFiniteSet({U(p) : p \in S}) BY <1>1, <1>4, FS_Surjection
<1>6. \A T \in {U(p) : p \in S} : IsFiniteSet(T) BY <1>3
<1>7. IsFiniteSet(UNION {U(p) : p \in S}) BY <1>5, <1>6, FS_UNION
<1>8. Units(t, held, d) = UNION {U(p) : p \in S} BY DEF Units, U, S
<1> QED BY <1>7, <1>8, FS_CardinalityType DEF UsedBy

-----------------------------------------------------------------------------
(* One tool call moves, and the store is as it was.                        *)

\* What holds of a call depends on the clock, the rows and its own answer alone.
LEMMA SoundStays ==
  ASSUME NEW r, NEW c, UNCHANGED <<memClock, memories, operations>>
  PROVE  CallSound(r, c)' <=> CallSound(r, c)
<1>1. memClock' = memClock /\ memories' = memories /\ operations' = operations OBVIOUS
<1>2. \A x : Visible(x)' <=> Visible(x) BY <1>1 DEF Visible
<1>3. \A k : RowOf(c, k)' = RowOf(c, k) BY <1>1 DEF RowOf
<1>4. StageSound(r)' <=> StageSound(r) BY DEF StageSound
<1>5. AnswerSound(r, c)' <=> AnswerSound(r, c) BY <1>1 DEF AnswerSound, RecordOf
<1>6. ApplySound(r, c)' <=> ApplySound(r, c) BY <1>1 DEF ApplySound, RowOf, RecordOf
<1>7. RecallSound(r, c)' <=> RecallSound(r, c)
  BY <1>1 DEF RecallSound, RecallRowSound, RowOf, Visible, Seen
<1> QED BY <1>4, <1>5, <1>6, <1>7 DEF CallSound

\* Revisions stay counted while no row gets a new one and no operation is answered.
LEMMA CountStays ==
  ASSUME RevisionsCounted, UNCHANGED operations, \A p \in Places : memories'[p].revision = memories[p].revision
  PROVE  RevisionsCounted'
<1>1. \A p : Done(p)' = Done(p) BY DEF Done
<1>2. \A p : {operations[c].asked.revision : c \in Done(p)}' = {operations[c].asked.revision : c \in Done(p)}
  BY <1>1
<1> QED BY <1>1, <1>2 DEF RevisionsCounted

\* A call that moves on and writes nothing keeps the invariant, if what it knows is sound.
LEMMA CallMoves ==
  ASSUME MemInv, NEW c \in MemoryCalls, NEW r \in ToolCalls, CallSound(r, c),
         memCall' = [memCall EXCEPT ![c] = r], UNCHANGED <<memClock, memories, operations>>,
         r.stage = "applying" => memCall[c].stage = "applying" \/ ScopeFree(c)
  PROVE  MemInv'
<1>1. memCall \in [MemoryCalls -> ToolCalls] BY DEF MemInv, MemTypes
<1>2. memCall' \in [MemoryCalls -> ToolCalls] BY <1>1
<1>3. memCall'[c] = r /\ \A d \in MemoryCalls \ {c} : memCall'[d] = memCall[d] BY <1>1
<1>4. memClock' = memClock /\ memories' = memories /\ operations' = operations OBVIOUS
<1>5. MemTypes' BY <1>2, <1>4 DEF MemInv, MemTypes
<1>6. CallsInv'
  <2> SUFFICES ASSUME NEW d \in MemoryCalls PROVE CallSound(memCall[d], d)' BY DEF CallsInv
  <2>1. CallSound(memCall'[d], d)
    <3>1. CASE d = c BY <3>1, <1>3
    <3>2. CASE d # c
      <4>1. CallSound(memCall[d], d) /\ memCall'[d] = memCall[d] BY <3>2, <1>3 DEF MemInv, CallsInv
      <4> QED BY <4>1
    <3> QED BY <3>1, <3>2
  <2>2. PICK q : q = memCall'[d] OBVIOUS
  <2>3. CallSound(q, d)' BY <2>1, <2>2, <1>4, SoundStays
  <2>4. CallSound(q, d)' => CallSound(memCall[d], d)' BY <2>2
  <2> QED BY <2>3, <2>4
<1>7. OneApplies'
  <2>1. ASSUME NEW d \in MemoryCalls, d # c, memCall'[d].stage = "applying", r.stage = "applying",
               ScopeOf[d] = ScopeOf[c]
        PROVE  FALSE
    <3>1. memCall[d].stage = "applying" BY <2>1, <1>3
    <3>2. ~ScopeFree(c) BY <3>1, <2>1 DEF ScopeFree
    <3>3. memCall[c].stage = "applying" BY <3>2, <2>1
    <3> QED BY <3>1, <3>3, <2>1 DEF MemInv, OneApplies
  <2>2. ASSUME NEW d \in MemoryCalls, NEW e \in MemoryCalls,
               memCall'[d].stage = "applying", memCall'[e].stage = "applying", ScopeOf[d] = ScopeOf[e]
        PROVE  d = e
    <3>1. CASE d = c /\ e # c BY <3>1, <2>1, <2>2, <1>3
    <3>2. CASE e = c /\ d # c BY <3>2, <2>1, <2>2, <1>3
    <3>3. CASE d # c /\ e # c BY <3>3, <2>2, <1>3 DEF MemInv, OneApplies
    <3> QED BY <3>1, <3>2, <3>3
  <2> QED BY <2>2 DEF OneApplies
<1>8. RevisionsCounted' BY <1>4, CountStays DEF MemInv
<1>9. QuotaKept' BY <1>4 DEF MemInv, QuotaKept, UsedBy, Units
<1> QED BY <1>5, <1>6, <1>7, <1>8, <1>9 DEF MemInv

\* A call that has not begun knows nothing; an empty place holds nothing.
LEMMA NewCallIs ==
  /\ NewCall \in ToolCalls /\ NewCall.found = {} /\ NewCall.left = {} /\ NewCall.stage = "new"
  /\ NoMemory \in MemRecords /\ NoMemory.revision = 0 /\ NoMemory.content = Blank /\ ~NoMemory.deleted
<1> USE MemoryConstants DEF MemoryConstants
<1>1. NoMemory \in MemRecords /\ NoMemory.revision = 0 /\ NoMemory.content = Blank /\ ~NoMemory.deleted
  BY DEF NoMemory, MemRecords, MemContents
<1>2. NewCall \in ToolCalls
  <2> HIDE DEF NoMemory
  <2>1. Blank \in MemoryTools \cup {Blank} /\ Blank \in MemoryKeys \cup {Blank} /\ Blank \in Contents \cup {Blank}
        /\ Blank \in MemReasons /\ "new" \in MemStages
    BY DEF MemReasons, MemStages
  <2>2. 0 \in 0..MaxRevision /\ 0 \in Nat OBVIOUS
  <2> HIDE DEF MemReasons, MemStages, MemRecords
  <2> QED BY <2>1, <2>2, <1>1 DEF NewCall, ToolCalls
<1> QED BY <1>1, <1>2 DEF NewCall

\* An error ends a call that has applied nothing.
RefusedAs(why, n) == [NewCall EXCEPT !.stage = "refused", !.why = why, !.replays = n]
\* A refusal carries its reason and tells the model no content.
LEMMA RefusedIs ==
  ASSUME NEW why \in MemReasons, NEW n \in Nat
  PROVE  /\ RefusedAs(why, n) \in ToolCalls /\ RefusedAs(why, n).stage = "refused"
         /\ RefusedAs(why, n).found = {} /\ RefusedAs(why, n).left = {}
<1>1. NewCall \in ToolCalls /\ NewCall.found = {} /\ NewCall.left = {} BY NewCallIs
<1>2. "refused" \in MemStages BY DEF MemStages
<1> HIDE DEF NewCall, MemReasons, MemStages
<1> QED BY <1>1, <1>2 DEF RefusedAs, ToolCalls

\* A call that is refused changes no row.
LEMMA RefuseKeeps ==
  ASSUME MemInv, NEW c \in MemoryCalls, NEW why \in MemReasons, operations[c] = NotApplied,
         RefuseCall(c, why), UNCHANGED <<memClock, memories, operations>>
  PROVE  MemInv'
<1> DEFINE r == RefusedAs(why, memCall[c].replays)
<1>1. memCall[c] \in ToolCalls BY DEF MemInv, MemTypes
<1>2. memCall[c].replays \in Nat BY <1>1 DEF ToolCalls
<1>3. memCall' = [memCall EXCEPT ![c] = r] BY DEF RefuseCall, RefusedAs
<1>4. r \in ToolCalls /\ r.stage = "refused" /\ r.found = {} /\ r.left = {} BY <1>2, RefusedIs
<1> HIDE DEF r
<1>5. CallSound(r, c) BY <1>4 DEF CallSound, StageSound, RecallSound, AnswerSound, ApplySound
<1> QED BY <1>3, <1>4, <1>5, CallMoves

\* The stages of a call.
LEMMA StagesOfCalls ==
  /\ "new" \in MemStages /\ "proposed" \in MemStages /\ "applying" \in MemStages /\ "answered" \in MemStages
  /\ "recalled" \in MemStages /\ "checking" \in MemStages /\ "told" \in MemStages /\ "refused" \in MemStages
BY DEF MemStages

\* A write or a deletion is authorized and proposed; the store is not asked yet.
LEMMA ProposeKeeps == ASSUME MemInv, NEW c \in MemoryCalls, Propose(c) PROVE MemInv'
<1>1. memCall[c] \in ToolCalls /\ CallSound(memCall[c], c) BY DEF MemInv, MemTypes, CallsInv
<1>2. memCall[c].stage = "new" /\ UNCHANGED <<memClock, memories, operations>> BY DEF Propose
<1>3. operations[c] = NotApplied BY <1>1, <1>2 DEF CallSound, AnswerSound
<1>4. PICK tool \in {"write", "delete"}, k \in MemoryKeys, e \in 0..MaxRevision, matter \in Contents,
           seconds \in 1..(MaxRetention + 1) :
        \/ memCall' = [memCall EXCEPT ![c] = [@ EXCEPT !.tool = tool, !.stage = "proposed", !.key = k,
                         !.expect = e, !.content = matter, !.retention = seconds, !.started = memClock]]
        \/ RefuseCall(c, "denied")
  BY DEF Propose
<1>5. CASE RefuseCall(c, "denied")
  <2>1. "denied" \in MemReasons BY DEF MemReasons
  <2> QED BY <2>1, <1>2, <1>3, <1>5, RefuseKeeps
<1>6. CASE memCall' = [memCall EXCEPT ![c] = [@ EXCEPT !.tool = tool, !.stage = "proposed", !.key = k,
                         !.expect = e, !.content = matter, !.retention = seconds, !.started = memClock]]
  <2> DEFINE q == memCall[c]
             r == [q EXCEPT !.tool = tool, !.stage = "proposed", !.key = k,
                     !.expect = e, !.content = matter, !.retention = seconds, !.started = memClock]
  <2>1. memCall' = [memCall EXCEPT ![c] = r] BY <1>6
  <2>2. seconds \in Nat /\ memClock \in Nat
    BY MemoryConstants DEF MemoryConstants, MemInv, MemTypes
  <2>3. q \in ToolCalls BY <1>1
  <2> HIDE DEF q
  <2>4. r \in ToolCalls /\ r.stage = "proposed" /\ r.tool = tool /\ r.key = k /\ r.content = matter
        /\ r.found = q.found /\ r.left = q.left
    <3> HIDE DEF MemStages, MemReasons
    <3> QED BY <2>2, <2>3, StagesOfCalls DEF ToolCalls, MemoryTools
  <2> HIDE DEF r
  <2>5. CallSound(r, c)
    <3>0. q.left = {} BY <1>1, <1>2 DEF CallSound, StageSound, q
    <3>1. StageSound(r) BY <2>4, <3>0 DEF StageSound
    <3>2. RecallSound(r, c) BY <2>4, <1>1 DEF CallSound, RecallSound, q
    <3> QED BY <2>4, <3>1, <3>2, <1>3 DEF CallSound, AnswerSound, ApplySound
  <2>6. r.stage # "applying" BY <2>4
  <2> QED BY <2>1, <2>4, <2>5, <2>6, <1>2, CallMoves
<1> QED BY <1>4, <1>5, <1>6

\* The record a proposal makes is one of the store's.
LEMMA RecordIs ==
  ASSUME NEW r \in ToolCalls, NEW matter \in MemContents
  PROVE  /\ RecordOf(r, matter) \in MemRecords /\ RecordOf(r, matter).revision = r.expect + 1
         /\ RecordOf(r, matter).deleted => RecordOf(r, matter).content = Blank
         /\ ~RecordOf(r, matter).deleted => RecordOf(r, matter).content = matter
         /\ r.tool # "delete" => RecordOf(r, matter).content = matter
<1>1. r.expect \in 0..MaxRevision /\ r.started \in Nat /\ r.retention \in Nat BY DEF ToolCalls
<1>2. MaxRevision \in Nat BY MemoryConstants DEF MemoryConstants
<1>3. r.expect + 1 \in 0..(MaxRevision + 1) BY <1>1, <1>2
<1>4. r.started + r.retention \in Nat BY <1>1
<1>5. CASE r.tool = "delete" BY <1>5, <1>1, <1>3 DEF RecordOf, MemRecords, MemContents
<1>6. CASE r.tool # "delete" BY <1>6, <1>1, <1>3, <1>4 DEF RecordOf, MemRecords
<1> QED BY <1>5, <1>6

\* A deletion asks for one record only; a write, for one of each content.
LEMMA RecordAgain ==
  ASSUME NEW r \in ToolCalls, NEW x \in MemContents, NEW y \in MemContents, RecordOf(r, x) # RecordOf(r, y)
  PROVE  RecordOf(r, x).content # RecordOf(r, y).content
<1>1. r.tool # "delete" BY DEF RecordOf
<1>2. x # y OBVIOUS
<1> QED BY <1>1, <1>2, RecordIs

\* A call that goes to another stage keeps its arguments and what it found.
LEMMA CallUpdates ==
  ASSUME NEW r \in ToolCalls, NEW at \in MemStages
  PROVE  LET q == [r EXCEPT !.stage = at]
         IN  /\ q \in ToolCalls /\ q.stage = at /\ q.tool = r.tool /\ q.key = r.key /\ q.content = r.content
             /\ q.expect = r.expect /\ q.retention = r.retention /\ q.started = r.started /\ q.draft = r.draft
             /\ q.found = r.found /\ q.left = r.left /\ q.since = r.since
BY DEF ToolCalls

AppliesWith(r, d) == [r EXCEPT !.stage = "applying", !.draft = d]
\* A call that begins to write takes its draft along.
LEMMA CallApplies ==
  ASSUME NEW r \in ToolCalls, NEW d \in MemRecords
  PROVE  LET q == AppliesWith(r, d)
         IN  /\ q \in ToolCalls /\ q.stage = "applying" /\ q.tool = r.tool /\ q.key = r.key
             /\ q.content = r.content /\ q.expect = r.expect /\ q.retention = r.retention
             /\ q.started = r.started /\ q.draft = d /\ q.found = r.found /\ q.left = r.left
<1> HIDE DEF MemRecords, MemReasons, MemoryTools
<1> QED BY StagesOfCalls DEF ToolCalls, AppliesWith

\* The ledger of operations is read first: a repetition with the same record is answered again.
LEMMA AnswerAgainKeeps ==
  ASSUME MemInv, NEW c \in MemoryCalls, NEW matter \in MemContents, memCall[c].stage = "proposed",
         operations[c] # NotApplied, AnswerAgain(c, RecordOf(memCall[c], matter)),
         UNCHANGED <<memClock, memories, operations>>
  PROVE  MemInv'
<1> DEFINE record == RecordOf(memCall[c], matter)
<1>1. memCall[c] \in ToolCalls /\ CallSound(memCall[c], c) BY DEF MemInv, MemTypes, CallsInv
<1>2. /\ operations[c].key = memCall[c].key /\ memCall[c].retention <= MaxRetention
      /\ \E x \in MemContents : operations[c].asked = RecordOf(memCall[c], x)
  BY <1>1 DEF CallSound, AnswerSound
<1>3. CASE operations[c].asked = record
  <2> DEFINE r == [memCall[c] EXCEPT !.stage = "answered"]
  <2>1. memCall' = [memCall EXCEPT ![c] = r] BY <1>3 DEF AnswerAgain
  <2>2. /\ r \in ToolCalls /\ r.stage = "answered" /\ r.tool = memCall[c].tool /\ r.key = memCall[c].key
        /\ r.content = memCall[c].content /\ r.expect = memCall[c].expect
        /\ r.retention = memCall[c].retention /\ r.started = memCall[c].started
        /\ r.found = memCall[c].found /\ r.left = memCall[c].left
    BY <1>1, StagesOfCalls, CallUpdates
  <2> HIDE DEF r
  <2>3. StageSound(r) BY <2>2, <1>1 DEF CallSound, StageSound
  <2>4. RecallSound(r, c) BY <2>2, <1>1 DEF CallSound, RecallSound
  <2>5. \A x : RecordOf(r, x) = RecordOf(memCall[c], x) BY <2>2 DEF RecordOf
  <2>6. AnswerSound(r, c) BY <2>2, <2>5, <1>2 DEF AnswerSound
  <2>7. ApplySound(r, c) BY <2>2 DEF ApplySound
  <2> QED BY <2>1, <2>2, <2>3, <2>4, <2>6, <2>7, CallMoves DEF CallSound
<1>4. CASE operations[c].asked # record
  <2> DEFINE r == [NewCall EXCEPT !.stage = "refused", !.why = "reused", !.draft = record,
                                  !.replays = memCall[c].replays]
  <2>1. memCall' = [memCall EXCEPT ![c] = r] BY <1>4 DEF AnswerAgain
  <2>2. record \in MemRecords BY <1>1, RecordIs
  <2>3. operations[c].asked.content # record.content BY <1>1, <1>2, <1>4, RecordAgain
  <2> HIDE DEF record
  <2>4. /\ r \in ToolCalls /\ r.stage = "refused" /\ r.why = "reused" /\ r.draft = record
        /\ r.found = {} /\ r.left = {}
    <3>1. NewCall \in ToolCalls /\ NewCall.found = {} /\ NewCall.left = {} BY NewCallIs
    <3>2. "reused" \in MemReasons /\ "refused" \in MemStages BY DEF MemReasons, MemStages
    <3>3. memCall[c].replays \in Nat BY <1>1 DEF ToolCalls
    <3> HIDE DEF NewCall, MemReasons, MemStages
    <3> QED BY <3>1, <3>2, <3>3, <2>2 DEF ToolCalls
  <2> HIDE DEF r
  <2>5. CallSound(r, c) BY <2>3, <2>4 DEF CallSound, StageSound, RecallSound, AnswerSound, ApplySound
  <2>6. r.stage # "applying" BY <2>4
  <2> QED BY <2>1, <2>4, <2>5, <2>6, CallMoves
<1> QED BY <1>3, <1>4

\* A conflict is told as one: its reason is not the empty text.
LEMMA ReasonIsGiven == "conflict" # Blank
BY Zenon DEF Blank

\* A write takes the scope's turn at the store and is answered from an earlier operation, refused or begun (apply).
LEMMA ApplyBeginKeeps == ASSUME MemInv, NEW c \in MemoryCalls, ApplyBegin(c) PROVE MemInv'
<1>1. memCall[c] \in ToolCalls /\ CallSound(memCall[c], c) BY DEF MemInv, MemTypes, CallsInv
<1>2. memCall[c].stage = "proposed" /\ ScopeFree(c) /\ UNCHANGED <<memClock, memories, operations>>
  BY DEF ApplyBegin
<1>3. memCall[c].content \in Contents /\ memCall[c].key \in MemoryKeys
  BY <1>1, <1>2 DEF CallSound, StageSound
<1> DEFINE Asks(matter) == RecordOf(memCall[c], matter)
           Remembered == memories[<<ScopeOf[c], memCall[c].key>>]
<1>4. PICK matter \in {memCall[c].content, Screened} :
        IF memCall[c].retention > MaxRetention THEN RefuseCall(c, "retention")
        ELSE IF operations[c] # NotApplied THEN AnswerAgain(c, Asks(matter))
        ELSE IF RevisionError(Remembered, Asks(matter)) # Blank
             THEN RefuseCall(c, RevisionError(Remembered, Asks(matter)))
        ELSE memCall' = [memCall EXCEPT ![c] = [@ EXCEPT !.stage = "applying", !.draft = Asks(matter)]]
  BY DEF ApplyBegin
<1>5. matter \in MemContents BY <1>3 DEF MemContents
<1>6. operations[c] # NotApplied => memCall[c].retention <= MaxRetention
  BY <1>1, <1>2 DEF CallSound, AnswerSound
<1>7. memCall[c].retention \in Nat /\ MaxRetention \in Nat BY <1>1, MemoryConstants DEF ToolCalls, MemoryConstants
<1>8. CASE memCall[c].retention > MaxRetention
  <2>1. operations[c] = NotApplied BY <1>6, <1>7, <1>8
  <2>2. "retention" \in MemReasons BY DEF MemReasons
  <2>3. RefuseCall(c, "retention") BY <1>4, <1>8
  <2> QED BY <2>1, <2>2, <2>3, <1>2, RefuseKeeps
<1>9. CASE ~(memCall[c].retention > MaxRetention) /\ operations[c] # NotApplied
  <2>1. AnswerAgain(c, Asks(matter)) BY <1>4, <1>9
  <2> QED BY <2>1, <1>2, <1>5, <1>9, AnswerAgainKeeps
<1>10. CASE /\ ~(memCall[c].retention > MaxRetention) /\ operations[c] = NotApplied
            /\ RevisionError(Remembered, Asks(matter)) # Blank
  <2>1. RevisionError(Remembered, Asks(matter)) \in MemReasons BY DEF RevisionError, MemReasons
  <2>2. RefuseCall(c, RevisionError(Remembered, Asks(matter))) BY <1>4, <1>10
  <2>3. PICK why \in MemReasons : why = RevisionError(Remembered, Asks(matter)) BY <2>1
  <2>4. RefuseCall(c, why) BY <2>2, <2>3
  <2> QED BY <2>4, <1>2, <1>10, RefuseKeeps
<1>11. CASE /\ ~(memCall[c].retention > MaxRetention) /\ operations[c] = NotApplied
            /\ RevisionError(Remembered, Asks(matter)) = Blank
  <2> DEFINE d == Asks(matter)
             r == AppliesWith(memCall[c], d)
  <2>1. memCall' = [memCall EXCEPT ![c] = r] BY <1>4, <1>11 DEF AppliesWith
  <2>2. Remembered.revision = d.revision - 1 BY <1>11, ReasonIsGiven DEF RevisionError
  <2>3. /\ d \in MemRecords /\ d.revision = memCall[c].expect + 1 /\ (d.deleted => d.content = Blank)
    BY <1>1, <1>5, RecordIs
  <2>4. d = RecordOf(memCall[c], matter) OBVIOUS
  <2> HIDE DEF d
  <2>5. /\ r \in ToolCalls /\ r.stage = "applying" /\ r.draft = d
        /\ r.tool = memCall[c].tool /\ r.key = memCall[c].key
        /\ r.content = memCall[c].content /\ r.expect = memCall[c].expect
        /\ r.retention = memCall[c].retention /\ r.started = memCall[c].started
        /\ r.found = memCall[c].found /\ r.left = memCall[c].left
    BY <2>3, <1>1, CallApplies
  <2> HIDE DEF r
  <2>6. StageSound(r) BY <2>5, <1>1, <1>2 DEF CallSound, StageSound
  <2>7. RecallSound(r, c) BY <2>5, <1>1 DEF CallSound, RecallSound
  <2>8. AnswerSound(r, c) BY <1>11 DEF AnswerSound
  <2>9. ApplySound(r, c)
    <3>1. RecordOf(r, matter) = d BY <2>4, <2>5 DEF RecordOf
    <3>2. memCall[c].expect \in Int /\ memories[<<ScopeOf[c], memCall[c].key>>].revision = d.revision - 1
      BY <1>1, <2>2 DEF ToolCalls
    <3>3. r.draft.revision = RowOf(c, r.key).revision + 1
      <4>1. d.revision \in Int BY <2>3, <3>2
      <4>2. RowOf(c, r.key) = memories[<<ScopeOf[c], memCall[c].key>>] BY <2>5 DEF RowOf
      <4>3. RowOf(c, r.key).revision = d.revision - 1 BY <4>2, <3>2
      <4> QED BY <4>1, <4>3, <2>5
    <3>4. r.retention <= MaxRetention BY <2>5, <1>7, <1>11
    <3>5. \E x \in MemContents : r.draft = RecordOf(r, x) BY <3>1, <2>5, <1>5
    <3>6. r.draft.deleted => r.draft.content = Blank BY <2>3, <2>5
    <3> QED BY <3>3, <3>4, <3>5, <3>6, <1>11 DEF ApplySound
  <2> QED BY <2>1, <2>5, <2>6, <2>7, <2>8, <2>9, <1>2, CallMoves DEF CallSound
<1> QED BY <1>8, <1>9, <1>10, <1>11

-----------------------------------------------------------------------------
(* Recalls.                                                                *)

\* A call that keeps its place in the ledger: what it has not applied needs no answer.
LEMMA UnappliedSound ==
  ASSUME NEW c \in MemoryCalls, NEW r, operations[c] = NotApplied, r.stage # "applying"
  PROVE  AnswerSound(r, c) /\ ApplySound(r, c)
BY DEF AnswerSound, ApplySound

\* What a recall finds are rows as they stand.
LEMMA FoundIsSound ==
  ASSUME MemTypes, NEW c \in MemoryCalls, NEW k \in MemoryKeys \cup {Blank},
         NEW rows \in RecallRows(ScopeOf[c], k)
  PROVE  rows \in SUBSET MemRows /\ \A line \in rows : RecallRowSound(line, c)
<1>1. ASSUME NEW x \in MemoryKeys
      PROVE  /\ RowOf(c, x) \in MemRecords /\ Shown(RowOf(c, x)) \in MemRecords
             /\ Shown(RowOf(c, x)).revision = RowOf(c, x).revision
             /\ Shown(RowOf(c, x)).content \in {Blank, RowOf(c, x).content}
  <2>1. RowOf(c, x) \in MemRecords BY PlacesOfCalls DEF RowOf, MemTypes
  <2>2. Blank \in MemContents BY DEF MemContents
  <2>3. ASSUME NEW q \in MemRecords
        PROVE  /\ [q EXCEPT !.content = Blank] \in MemRecords
               /\ [q EXCEPT !.content = Blank].revision = q.revision
               /\ [q EXCEPT !.content = Blank].content = Blank
    BY <2>2 DEF MemRecords
  <2> QED BY <2>1, <2>3 DEF Shown
<1>2. ASSUME NEW x \in MemoryKeys, NEW q \in MemRecords, q.revision = RowOf(c, x).revision,
             q.content \in {Blank, RowOf(c, x).content}
      PROVE  /\ [key |-> x, record |-> q] \in MemRows
             /\ RecallRowSound([key |-> x, record |-> q], c)
  <2>1. [key |-> x, record |-> q] \in MemRows BY <1>2 DEF MemRows
  <2>2. RowOf(c, x).revision \in Int BY <1>1 DEF MemRecords
  <2> QED BY <2>1, <2>2, <1>2 DEF RecallRowSound
<1>3. CASE k # Blank
  <2>1. k \in MemoryKeys BY <1>3
  <2>2. \A line \in rows : line = [key |-> k, record |-> Shown(RowOf(c, k))]
    BY <1>3 DEF RecallRows, RowOf
  <2>3. /\ [key |-> k, record |-> Shown(RowOf(c, k))] \in MemRows
        /\ RecallRowSound([key |-> k, record |-> Shown(RowOf(c, k))], c)
    BY <2>1, <1>1, <1>2
  <2> QED BY <2>2, <2>3
<1>4. CASE k = Blank
  <2>1. \A line \in rows : \E x \in MemoryKeys : line = [key |-> x, record |-> RowOf(c, x)]
    BY <1>4 DEF RecallRows, RowOf
  <2>2. \A x \in MemoryKeys : /\ [key |-> x, record |-> RowOf(c, x)] \in MemRows
                              /\ RecallRowSound([key |-> x, record |-> RowOf(c, x)], c)
    BY <1>1, <1>2
  <2> QED BY <2>1, <2>2
<1> QED BY <1>3, <1>4

RecalledAs(r, rows) == [r EXCEPT !.tool = "recall", !.stage = "recalled", !.found = rows]
\* A recall reads the visible rows of its scope.
LEMMA RecallMemoryKeeps == ASSUME MemInv, NEW c \in MemoryCalls, RecallMemory(c) PROVE MemInv'
<1>1. memCall[c] \in ToolCalls /\ CallSound(memCall[c], c) BY DEF MemInv, MemTypes, CallsInv
<1>2. memCall[c].stage = "new" /\ UNCHANGED <<memClock, memories, operations>> BY DEF RecallMemory
<1>3. operations[c] = NotApplied BY <1>1, <1>2 DEF CallSound, AnswerSound
<1>4. CASE RefuseCall(c, "denied")
  <2>1. "denied" \in MemReasons BY DEF MemReasons
  <2> QED BY <2>1, <1>2, <1>3, <1>4, RefuseKeeps
<1>5. ASSUME NEW k \in MemoryKeys \cup {Blank}, NEW rows \in RecallRows(ScopeOf[c], k),
             memCall' = [memCall EXCEPT ![c] = RecalledAs(memCall[c], rows)]
      PROVE  MemInv'
  <2>1. rows \in SUBSET MemRows /\ \A line \in rows : RecallRowSound(line, c)
    BY FoundIsSound DEF MemInv
  <2> DEFINE r == RecalledAs(memCall[c], rows)
  <2>2. /\ r \in ToolCalls /\ r.tool = "recall" /\ r.stage = "recalled" /\ r.found = rows
        /\ r.left = memCall[c].left
    <3> HIDE DEF MemRecords, MemReasons, MemRows, MemShown
    <3> QED BY <2>1, <1>1, StagesOfCalls DEF ToolCalls, RecalledAs, MemoryTools
  <2>8. memCall' = [memCall EXCEPT ![c] = r] BY <1>5
  <2> HIDE DEF r
  <2>3. r.left = {} BY <2>2, <1>1, <1>2 DEF CallSound, StageSound
  <2>4. StageSound(r) BY <2>2, <2>3 DEF StageSound
  <2>5. RecallSound(r, c) BY <2>1, <2>2 DEF RecallSound
  <2>6. r.stage # "applying" BY <2>2
  <2>7. AnswerSound(r, c) /\ ApplySound(r, c) BY <2>6, <1>3, UnappliedSound
  <2> QED BY <1>2, <2>2, <2>4, <2>5, <2>6, <2>7, <2>8, CallMoves DEF CallSound
<1> QED BY <1>4, <1>5 DEF RecallMemory, RecalledAs

CheckingAs(r, since) == [r EXCEPT !.stage = "checking", !.left = r.found, !.since = since]
\* Whatever the scope shows when the validation begins is what a recalled row may still be.
LEMMA ValidateRecallKeeps == ASSUME MemInv, NEW c \in MemoryCalls, ValidateRecall(c) PROVE MemInv'
<1>1. memCall[c] \in ToolCalls /\ CallSound(memCall[c], c) BY DEF MemInv, MemTypes, CallsInv
<1>2. memCall[c].stage = "recalled" /\ UNCHANGED <<memClock, memories, operations>> BY DEF ValidateRecall
<1>3. operations[c] = NotApplied BY <1>1, <1>2 DEF CallSound, AnswerSound
<1> DEFINE since == {[key |-> k, content |-> RowOf(c, k).content] : k \in {x \in MemoryKeys : Visible(RowOf(c, x))}}
           r == CheckingAs(memCall[c], since)
<1>4. memCall' = [memCall EXCEPT ![c] = r] BY DEF ValidateRecall, CheckingAs, RowOf
<1>5. since \in SUBSET MemShown
  <2>1. \A x \in MemoryKeys : RowOf(c, x).content \in MemContents
    BY PlacesOfCalls DEF RowOf, MemInv, MemTypes, MemRecords
  <2> QED BY <2>1 DEF MemShown
<1>6. \A k \in MemoryKeys : Visible(RowOf(c, k)) => [key |-> k, content |-> RowOf(c, k).content] \in since
  OBVIOUS
<1> HIDE DEF since
<1>7. /\ r \in ToolCalls /\ r.stage = "checking" /\ r.tool = memCall[c].tool /\ r.found = memCall[c].found
      /\ r.left = memCall[c].found /\ r.since = since
  <2> HIDE DEF MemRecords, MemReasons, MemRows, MemShown, MemoryTools
  <2> QED BY <1>5, <1>1, StagesOfCalls DEF ToolCalls, CheckingAs
<1> HIDE DEF r
<1>8. StageSound(r) BY <1>7, <1>1, <1>2 DEF CallSound, StageSound
<1>9. RecallSound(r, c)
  <2>1. \A line \in r.found : line \in MemRows /\ RecallRowSound(line, c)
    BY <1>7, <1>1 DEF CallSound, RecallSound, ToolCalls
  <2>2. ASSUME NEW line \in r.found, line.record.content # Blank,
               RowOf(c, line.key).revision = line.record.revision, Visible(RowOf(c, line.key))
        PROVE  Seen(line) \in r.since
    <3>1. line.key \in MemoryKeys BY <2>1 DEF MemRows
    <3>2. RowOf(c, line.key).content # Blank BY <2>2 DEF Visible
    <3>3. line.record.content = RowOf(c, line.key).content BY <2>1, <2>2, <3>2 DEF RecallRowSound
    <3> QED BY <3>1, <3>3, <2>2, <1>6, <1>7 DEF Seen
  <2> QED BY <2>1, <2>2, <1>7 DEF RecallSound
<1>10. r.stage # "applying" BY <1>7
<1>11. AnswerSound(r, c) /\ ApplySound(r, c) BY <1>10, <1>3, UnappliedSound
<1> QED BY <1>2, <1>4, <1>7, <1>8, <1>9, <1>10, <1>11, CallMoves DEF CallSound

CheckedAs(r, left) == [r EXCEPT !.left = left]
\* A row whose revision still stands shows what it showed when the validation began.
LEMMA CheckRecalledKeeps == ASSUME MemInv, NEW c \in MemoryCalls, CheckRecalled(c) PROVE MemInv'
<1>1. memCall[c] \in ToolCalls /\ CallSound(memCall[c], c) BY DEF MemInv, MemTypes, CallsInv
<1>2. memCall[c].stage = "checking" /\ UNCHANGED <<memClock, memories, operations>> BY DEF CheckRecalled
<1>3. operations[c] = NotApplied BY <1>1, <1>2 DEF CallSound, AnswerSound
<1>4. /\ \A line \in memCall[c].found : RecallRowSound(line, c)
      /\ \A line \in memCall[c].found :
           /\ (line.record.content # Blank /\ RowOf(c, line.key).revision = line.record.revision
                 /\ Visible(RowOf(c, line.key))) => Seen(line) \in memCall[c].since
           /\ (line \notin memCall[c].left /\ line.record.content # Blank) => Seen(line) \in memCall[c].since
      /\ memCall[c].left \subseteq memCall[c].found
  BY <1>1, <1>2 DEF CallSound, RecallSound, StageSound
<1>5. CASE memCall[c].left = {} /\ memCall' = [memCall EXCEPT ![c] = [@ EXCEPT !.stage = "told"]]
  <2> DEFINE r == [memCall[c] EXCEPT !.stage = "told"]
  <2>1. memCall' = [memCall EXCEPT ![c] = r] BY <1>5
  <2>2. /\ r \in ToolCalls /\ r.stage = "told" /\ r.tool = memCall[c].tool
        /\ r.found = memCall[c].found /\ r.left = memCall[c].left /\ r.since = memCall[c].since
    BY <1>1, StagesOfCalls, CallUpdates
  <2> HIDE DEF r
  <2>3. StageSound(r) BY <2>2, <1>1, <1>2, <1>5 DEF CallSound, StageSound
  <2>4. RecallSound(r, c) BY <2>2, <1>4, <1>5 DEF RecallSound
  <2>5. r.stage # "applying" BY <2>2
  <2>6. AnswerSound(r, c) /\ ApplySound(r, c) BY <2>5, <1>3, UnappliedSound
  <2> QED BY <1>2, <2>1, <2>2, <2>3, <2>4, <2>5, <2>6, CallMoves DEF CallSound
<1>6. ASSUME NEW line \in memCall[c].left,
             IF StillTrue(line.record, RowOf(c, line.key))
             THEN memCall' = [memCall EXCEPT ![c] = CheckedAs(memCall[c], memCall[c].left \ {line})]
             ELSE RefuseCall(c, "changed")
      PROVE  MemInv'
  <2>1. CASE ~StillTrue(line.record, RowOf(c, line.key))
    <3>1. RefuseCall(c, "changed") BY <2>1, <1>6
    <3>2. "changed" \in MemReasons BY DEF MemReasons
    <3> QED BY <3>1, <3>2, <1>2, <1>3, RefuseKeeps
  <2>2. CASE StillTrue(line.record, RowOf(c, line.key))
    <3> DEFINE left == memCall[c].left \ {line}
               r == CheckedAs(memCall[c], left)
    <3>1. memCall' = [memCall EXCEPT ![c] = r] BY <2>2, <1>6
    <3>2. left \subseteq memCall[c].found /\ left \in SUBSET MemRows BY <1>1, <1>4 DEF ToolCalls
    <3>3. \A x : x \in left <=> x \in memCall[c].left /\ x # line OBVIOUS
    <3> HIDE DEF left
    <3>4. /\ r \in ToolCalls /\ r.stage = "checking" /\ r.tool = memCall[c].tool /\ r.left = left
          /\ r.found = memCall[c].found /\ r.since = memCall[c].since
      <4> HIDE DEF MemRecords, MemReasons, MemRows, MemShown, MemoryTools, MemStages
      <4> QED BY <3>2, <1>1, <1>2 DEF ToolCalls, CheckedAs
    <3> HIDE DEF r
    <3>5. StageSound(r) BY <3>2, <3>4, <1>1, <1>2 DEF CallSound, StageSound
    <3>6. line.record.content # Blank => Seen(line) \in memCall[c].since
      BY <2>2, <1>4, <1>6 DEF StillTrue
    <3>7. RecallSound(r, c)
      <4>1. \A x \in r.found : (x \notin r.left /\ x.record.content # Blank) => Seen(x) \in r.since
        BY <3>3, <3>4, <3>6, <1>4
      <4> QED BY <4>1, <3>4, <1>4 DEF RecallSound
    <3>8. r.stage # "applying" BY <3>4
    <3>9. AnswerSound(r, c) /\ ApplySound(r, c) BY <3>8, <1>3, UnappliedSound
    <3> QED BY <1>2, <3>1, <3>4, <3>5, <3>7, <3>8, <3>9, CallMoves DEF CallSound
  <2> QED BY <2>1, <2>2
<1> QED BY <1>5, <1>6 DEF CheckRecalled, RowOf, CheckedAs

\* A crash takes the transaction and the validation with it; the ledger keeps the rest.
RepeatedAs(r, at) == [r EXCEPT !.stage = at, !.draft = NoMemory, !.left = {}, !.since = {}, !.replays = r.replays + 1]
\* A call is made again under its operation id and meets what the first one did.
LEMMA RepeatCallKeeps == ASSUME MemInv, NEW c \in MemoryCalls, RepeatCall(c) PROVE MemInv'
<1>1. memCall[c] \in ToolCalls /\ CallSound(memCall[c], c) BY DEF MemInv, MemTypes, CallsInv
<1> DEFINE at == IF memCall[c].tool = "recall" THEN "recalled" ELSE "proposed"
           r == RepeatedAs(memCall[c], at)
<1>2. /\ memCall[c].stage \in {"applying", "answered", "checking", "told"}
      /\ UNCHANGED <<memClock, memories, operations>>
      /\ memCall' = [memCall EXCEPT ![c] = r]
  BY DEF RepeatCall, RepeatedAs
<1>3. at \in MemStages /\ at \in {"recalled", "proposed"} BY StagesOfCalls
<1>4. /\ r \in ToolCalls /\ r.stage = at /\ r.tool = memCall[c].tool /\ r.key = memCall[c].key
      /\ r.content = memCall[c].content /\ r.expect = memCall[c].expect
      /\ r.retention = memCall[c].retention /\ r.started = memCall[c].started
      /\ r.found = memCall[c].found /\ r.left = {}
  <2>1. NoMemory \in MemRecords BY NewCallIs
  <2>2. memCall[c].replays + 1 \in Nat BY <1>1 DEF ToolCalls
  <2> HIDE DEF at, NoMemory, MemRecords, MemReasons, MemRows, MemShown, MemoryTools, MemStages
  <2> QED BY <2>1, <2>2, <1>1, <1>3 DEF ToolCalls, RepeatedAs
<1> HIDE DEF r
<1>5. StageSound(r) BY <1>1, <1>2, <1>4 DEF CallSound, StageSound
<1>6. RecallSound(r, c) BY <1>1, <1>3, <1>4 DEF CallSound, RecallSound
<1>7. \A x : RecordOf(r, x) = RecordOf(memCall[c], x) BY <1>4 DEF RecordOf
<1>8. AnswerSound(r, c)
  <2>1. CASE operations[c] = NotApplied BY <2>1 DEF AnswerSound
  <2>2. CASE operations[c] # NotApplied
    <3>1. memCall[c].stage = "answered" BY <2>2, <1>1, <1>2 DEF CallSound, AnswerSound
    <3>2. at = "proposed" BY <3>1, <1>1 DEF CallSound, StageSound
    <3> QED BY <3>1, <3>2, <2>2, <1>1, <1>4, <1>7 DEF CallSound, AnswerSound
  <2> QED BY <2>1, <2>2
<1>9. r.stage # "applying" BY <1>3, <1>4
<1>10. ApplySound(r, c) BY <1>9 DEF ApplySound
<1> QED BY <1>2, <1>4, <1>5, <1>6, <1>8, <1>9, <1>10, CallMoves DEF CallSound

-----------------------------------------------------------------------------
(* The store's own steps: rows age, and a call that stands still stays     *)
(* sound.                                                                  *)

\* A revision never goes back, and while it stands the record does, but for its content.
RowAged(p) ==
  /\ memories[p].revision <= memories'[p].revision
  /\ memories'[p].revision = memories[p].revision =>
       memories'[p].content = Blank \/ memories'[p] = memories[p]

\* What a recall found stays true of rows that only age, expire or are purged.
LEMMA AgedSound ==
  ASSUME MemTypes, MemTypes', memClock <= memClock', \A p \in Places : RowAged(p),
         NEW c \in MemoryCalls, NEW r \in ToolCalls, RecallSound(r, c)
  PROVE  RecallSound(r, c)'
<1>1. \A line \in r.found : line \in MemRows BY DEF ToolCalls
<1>2. ASSUME NEW k \in MemoryKeys
      PROVE  LET old == RowOf(c, k)
                 now == RowOf(c, k)'
             IN  /\ old.revision \in Int /\ now.revision \in Int /\ old.revision <= now.revision
                 /\ now.revision = old.revision => now.content = Blank \/ now = old
  <2>1. <<ScopeOf[c], k>> \in Places BY PlacesOfCalls
  <2>2. memories[<<ScopeOf[c], k>>] \in MemRecords /\ memories'[<<ScopeOf[c], k>>] \in MemRecords
    BY <2>1 DEF MemTypes
  <2>3. /\ memories[<<ScopeOf[c], k>>].revision \in Int /\ memories'[<<ScopeOf[c], k>>].revision \in Int
    BY <2>2 DEF MemRecords
  <2> QED BY <2>1, <2>3 DEF RowOf, RowAged
<1>3. ASSUME NEW line \in r.found PROVE RecallRowSound(line, c)'
  <2>1. line.key \in MemoryKeys /\ line.record.revision \in Int BY <1>1 DEF MemRows, MemRecords
  <2>2. RecallRowSound(line, c) BY DEF RecallSound
  <2>3. /\ line.record.revision <= RowOf(c, line.key).revision
        /\ (line.record.revision = RowOf(c, line.key).revision /\ line.record.content # Blank
              /\ RowOf(c, line.key).content # Blank) => line.record.content = RowOf(c, line.key).content
    BY <2>2 DEF RecallRowSound
  <2>4. PICK k \in MemoryKeys : k = line.key BY <2>1
  <2>5. PICK old, now : old = RowOf(c, k) /\ now = RowOf(c, k)' OBVIOUS
  <2>6. /\ old.revision \in Int /\ now.revision \in Int /\ old.revision <= now.revision
        /\ now.revision = old.revision => now.content = Blank \/ now = old
    BY <1>2, <2>5
  <2>7. /\ line.record.revision <= now.revision
        /\ (line.record.revision = now.revision /\ line.record.content # Blank
              /\ now.content # Blank) => line.record.content = now.content
    BY <2>1, <2>3, <2>4, <2>5, <2>6
  <2> QED BY <2>4, <2>5, <2>7 DEF RecallRowSound
<1>4. ASSUME NEW line \in r.found, r.stage = "checking", line.record.content # Blank,
             (RowOf(c, line.key))'.revision = line.record.revision, Visible(RowOf(c, line.key))'
      PROVE  Seen(line) \in r.since
  <2>1. line.key \in MemoryKeys /\ line.record.revision \in Int BY <1>1 DEF MemRows, MemRecords
  <2>2. PICK k \in MemoryKeys : k = line.key BY <2>1
  <2>3. PICK old, now : old = RowOf(c, k) /\ now = RowOf(c, k)' OBVIOUS
  <2>4. now.revision = line.record.revision /\ Visible(now)' BY <1>4, <2>2, <2>3 DEF Visible
  <2>5. line.record.revision <= old.revision BY <2>2, <2>3 DEF RecallSound, RecallRowSound
  <2>6. now.revision = old.revision
    <3>1. old.revision \in Int /\ now.revision \in Int /\ old.revision <= now.revision BY <1>2, <2>3
    <3> QED BY <3>1, <2>1, <2>4, <2>5
  <2>7. now.content # Blank BY <2>4 DEF Visible
  <2>8. now = old BY <1>2, <2>3, <2>6, <2>7
  <2>9. Visible(old)
    <3>1. memClock \in Int /\ memClock' \in Int BY MemoryConstants DEF MemTypes, MemoryConstants
    <3>2. old.expires \in Int
      <4>1. old \in MemRecords BY <2>3, PlacesOfCalls DEF RowOf, MemTypes
      <4> QED BY <4>1 DEF MemRecords
    <3> QED BY <3>1, <3>2, <2>4, <2>8 DEF Visible
  <2> QED BY <2>2, <2>3, <2>4, <2>8, <2>9, <1>4 DEF RecallSound
<1>5. \A line : Seen(line)' = Seen(line) BY DEF Seen
<1> QED BY <1>3, <1>4, <1>5 DEF RecallSound

\* A call that stands still, its row not overtaken while it holds it.
LEMMA StandsStill ==
  ASSUME MemInv, MemTypes', memClock <= memClock', \A p \in Places : RowAged(p),
         NEW c \in MemoryCalls, memCall'[c] = memCall[c], operations'[c] = operations[c],
         memCall[c].stage = "applying" =>
           memories'[<<ScopeOf[c], memCall[c].key>>].revision = memories[<<ScopeOf[c], memCall[c].key>>].revision
  PROVE  CallSound(memCall[c], c)'
<1>1. PICK r \in ToolCalls : r = memCall[c] BY DEF MemInv, MemTypes
<1>2. CallSound(r, c) BY <1>1 DEF MemInv, CallsInv
<1>3. RecallSound(r, c)' BY <1>2, AgedSound DEF MemInv, CallSound
<1>4. StageSound(r)' BY <1>2 DEF CallSound, StageSound
<1>5. AnswerSound(r, c)' BY <1>2 DEF CallSound, AnswerSound, RecordOf
<1>6. ApplySound(r, c)'
  <2>1. ApplySound(r, c) BY <1>2 DEF CallSound
  <2>2. r.stage = "applying" => RowOf(c, r.key)'.revision = RowOf(c, r.key).revision BY <1>1 DEF RowOf
  <2> QED BY <2>1, <2>2 DEF ApplySound, RecordOf
<1>7. CallSound(r, c)' BY <1>3, <1>4, <1>5, <1>6 DEF CallSound
<1>8. memCall'[c] = r BY <1>1
<1> QED BY <1>7, <1>8 DEF CallSound, StageSound, RecallSound, AnswerSound, ApplySound

\* The rows age while nothing is written: calls, their answers and the counts stay sound.
LEMMA StoreMoves ==
  ASSUME MemInv, MemTypes', memClock <= memClock', UNCHANGED <<operations, memCall>>,
         \A p \in Places : RowAged(p) /\ memories'[p].revision = memories[p].revision
  PROVE  CallsInv' /\ OneApplies' /\ RevisionsCounted'
<1>1. memCall' = memCall /\ operations' = operations OBVIOUS
<1>2. ASSUME NEW c \in MemoryCalls PROVE CallSound(memCall[c], c)'
  <2>1. memCall[c].stage = "applying" => memCall[c].key \in MemoryKeys
    BY DEF MemInv, CallsInv, CallSound, StageSound
  <2>2. memCall[c].stage = "applying" =>
          memories'[<<ScopeOf[c], memCall[c].key>>].revision = memories[<<ScopeOf[c], memCall[c].key>>].revision
    BY <2>1, PlacesOfCalls
  <2> QED BY <2>2, <1>1, StandsStill
<1>3. CallsInv' BY <1>2 DEF CallsInv
<1>4. OneApplies' BY <1>1 DEF MemInv, OneApplies
<1>5. RevisionsCounted' BY <1>1, CountStays DEF MemInv
<1> QED BY <1>3, <1>4, <1>5

\* Time passes, and what has expired is no longer found.
LEMMA MemoryTickKeeps == ASSUME MemInv, MemoryTick PROVE MemInv'
<1>1. /\ memClock < MemoryUntil /\ memClock' = memClock + 1
      /\ memories' = memories /\ operations' = operations /\ memCall' = memCall
  BY DEF MemoryTick
<1>2. memClock' \in 1..MemoryUntil /\ memClock <= memClock'
  BY <1>1, MemoryConstants DEF MemInv, MemTypes, MemoryConstants
<1>3. MemTypes' BY <1>1, <1>2 DEF MemInv, MemTypes
<1>4. \A p \in Places : RowAged(p) /\ memories'[p].revision = memories[p].revision
  <2>1. \A p \in Places : memories[p].revision \in Int BY DEF MemInv, MemTypes, MemRecords
  <2> QED BY <2>1, <1>1 DEF RowAged
<1>5. QuotaKept' BY <1>1 DEF MemInv, QuotaKept, UsedBy, Units
<1>6. CallsInv' /\ OneApplies' /\ RevisionsCounted' BY <1>1, <1>2, <1>3, <1>4, StoreMoves
<1> QED BY <1>3, <1>5, <1>6 DEF MemInv

\* A purge takes units away, and no other.
LEMMA PurgeKeeps == ASSUME MemInv, PurgeMemories PROVE MemInv'
<1>1. PICK due \in SUBSET Places :
        memories' = [p \in Places |-> IF p \in due THEN [memories[p] EXCEPT !.content = Blank] ELSE memories[p]]
  BY DEF PurgeMemories
<1>2. memClock' = memClock /\ operations' = operations /\ memCall' = memCall BY DEF PurgeMemories
<1>3. ASSUME NEW p \in Places
      PROVE  /\ memories[p] \in MemRecords /\ memories'[p] \in MemRecords
             /\ memories'[p].revision = memories[p].revision
             /\ memories'[p].deleted = memories[p].deleted
             /\ memories'[p] = memories[p] \/ memories'[p].content = Blank
  <2>1. memories[p] \in MemRecords BY DEF MemInv, MemTypes
  <2>2. ASSUME NEW q \in MemRecords
        PROVE  /\ [q EXCEPT !.content = Blank] \in MemRecords
               /\ [q EXCEPT !.content = Blank].revision = q.revision
               /\ [q EXCEPT !.content = Blank].deleted = q.deleted
               /\ [q EXCEPT !.content = Blank].content = Blank
    <3>1. Blank \in MemContents BY DEF MemContents
    <3> QED BY <3>1 DEF MemRecords
  <2>3. CASE p \in due
    <3>1. memories'[p] = [memories[p] EXCEPT !.content = Blank] BY <1>1, <2>3
    <3> QED BY <3>1, <2>1, <2>2
  <2>4. CASE p \notin due
    <3>1. memories'[p] = memories[p] BY <1>1, <2>4
    <3> QED BY <3>1, <2>1
  <2> QED BY <2>3, <2>4
<1>4. MemTypes'
  <2>1. memories' \in [Places -> MemRecords]
    <3>1. memories' = [p \in Places |-> memories'[p]] BY <1>1
    <3> QED BY <3>1, <1>3
  <2>2. \A p \in Places : memories'[p].deleted => memories'[p].content = Blank
    BY <1>3 DEF MemInv, MemTypes
  <2> QED BY <2>1, <2>2, <1>2 DEF MemInv, MemTypes
<1>5. memClock <= memClock' BY <1>2, MemoryConstants DEF MemInv, MemTypes, MemoryConstants
<1>6. \A p \in Places : RowAged(p) /\ memories'[p].revision = memories[p].revision
  <2>1. \A p \in Places : memories[p].revision \in Int BY <1>3 DEF MemRecords
  <2> QED BY <2>1, <1>3 DEF RowAged
<1>7. QuotaKept'
  <2>1. ASSUME NEW s \in MemScopes, NEW d \in {"items", "bytes"}, QuotaFor(s.tenant)[d] # Unlimited
        PROVE  UsedBy(s.tenant, memories', d) <= QuotaFor(s.tenant)[d]
    <3>1. Units(s.tenant, memories', d) \subseteq Units(s.tenant, memories, d)
      <4>1. ASSUME NEW p \in Places
            PROVE  {p} \X (1..Counted(memories'[p])[d]) \subseteq {p} \X (1..Counted(memories[p])[d])
        <5>1. CASE memories'[p] = memories[p] BY <5>1
        <5>2. CASE memories'[p].content = Blank
          <6>1. Counted(memories'[p])[d] = 0 BY <5>2 DEF Counted
          <6>2. 1..Counted(memories'[p])[d] = {} BY <6>1
          <6> QED BY <6>2
        <5> QED BY <5>1, <5>2, <1>3
      <4> QED BY <4>1 DEF Units
    <3>2. IsFiniteSet(Units(s.tenant, memories, d)) /\ UsedBy(s.tenant, memories, d) \in Nat
      BY UnitsFinite DEF MemInv, MemTypes
    <3>3. UsedBy(s.tenant, memories', d) \in Nat BY UnitsFinite, <1>4 DEF MemTypes
    <3>4. UsedBy(s.tenant, memories', d) <= UsedBy(s.tenant, memories, d)
      BY <3>1, <3>2, FS_Subset DEF UsedBy
    <3>5. UsedBy(s.tenant, memories, d) <= QuotaFor(s.tenant)[d] BY <2>1 DEF MemInv, QuotaKept
    <3>6. QuotaFor(s.tenant)[d] \in Nat BY <2>1, QuotaAssumption DEF QuotaAssumption
    <3> QED BY <3>2, <3>3, <3>4, <3>5, <3>6
  <2> QED BY <2>1 DEF QuotaKept
<1>8. CallsInv' /\ OneApplies' /\ RevisionsCounted' BY <1>2, <1>4, <1>5, <1>6, StoreMoves
<1> QED BY <1>4, <1>7, <1>8 DEF MemInv

-----------------------------------------------------------------------------
(* A transaction commits.                                                  *)

\* A write replaces one row with its draft and leaves every other.
LEMMA WrittenIs ==
  ASSUME MemTypes, NEW c \in MemoryCalls, memCall[c].key \in MemoryKeys, memories' = Written(c)
  PROVE  LET place == <<ScopeOf[c], memCall[c].key>>
         IN  /\ place \in Places /\ memories'[place] = memCall[c].draft
             /\ \A p \in Places \ {place} : memories'[p] = memories[p]
             /\ memories' \in [Places -> MemRecords]
<1>1. <<ScopeOf[c], memCall[c].key>> \in Places BY PlacesOfCalls
<1>2. memCall[c].draft \in MemRecords BY DEF MemTypes, ToolCalls
<1>3. memories \in [Places -> MemRecords] BY DEF MemTypes
<1> QED BY <1>1, <1>2, <1>3 DEF Written

\* The operation is one more of its place, with the revision after the others'.
LEMMA CommitCounts ==
  ASSUME MemInv, NEW c \in MemoryCalls, memCall[c].stage = "applying", memories' = Written(c),
         operations' = [operations EXCEPT ![c] = [asked |-> memCall[c].draft, key |-> memCall[c].key]]
  PROVE  RevisionsCounted'
<1> DEFINE line == <<ScopeOf[c], memCall[c].key>>
           d == memCall[c].draft
           answer == [asked |-> d, key |-> memCall[c].key]
<1>1. memCall[c] \in ToolCalls /\ CallSound(memCall[c], c) /\ operations \in [MemoryCalls -> Operations]
  BY DEF MemInv, MemTypes, CallsInv
<1>2. memCall[c].key \in MemoryKeys BY <1>1 DEF CallSound, StageSound
<1>3. operations[c] = NotApplied /\ d.revision = memories[line].revision + 1
  BY <1>1 DEF CallSound, ApplySound, RowOf
<1>4. PICK place \in Places : /\ place = line /\ memories'[place] = d
                             /\ \A p \in Places \ {place} : memories'[p] = memories[p]
  BY <1>2, WrittenIs DEF MemInv
<1>5. PICK n \in Nat : n = memories[place].revision BY <1>4 DEF MemInv, MemTypes, MemRecords
<1>6. operations'[c] = answer /\ \A x \in MemoryCalls \ {c} : operations'[x] = operations[x] BY <1>1
<1>7. answer.asked = d /\ answer.key = memCall[c].key OBVIOUS
<1>8. answer # NotApplied
  <2>1. NotApplied.asked.revision = 0 BY NewCallIs DEF NotApplied
  <2>2. d.revision = n + 1 BY <1>3, <1>4, <1>5
  <2>3. answer.asked.revision = n + 1 BY <2>2, <1>7
  <2> QED BY <2>1, <2>3
<1> HIDE DEF answer, d
<1>9. ASSUME NEW p \in Places, p # place
      PROVE  /\ Done(p)' = Done(p)
             /\ {operations[x].asked.revision : x \in Done(p)}' = {operations[x].asked.revision : x \in Done(p)}
  <2>1. ~(ScopeOf[c] = p[1] /\ memCall[c].key = p[2]) BY <1>4, <1>9 DEF Places
  <2>2. c \notin Done(p) BY <1>3 DEF Done
  <2>3. c \notin Done(p)' BY <2>1, <1>6, <1>7 DEF Done
  <2>4. \A x \in MemoryCalls \ {c} : x \in Done(p)' <=> x \in Done(p) BY <1>6 DEF Done
  <2>5. Done(p) \subseteq MemoryCalls /\ Done(p)' \subseteq MemoryCalls BY DEF Done
  <2>6. Done(p)' = Done(p) BY <2>2, <2>3, <2>4, <2>5
  <2>7. \A x \in Done(p) : operations'[x] = operations[x] BY <2>2, <2>5, <1>6
  <2> QED BY <2>6, <2>7
<1>10. /\ Done(place)' = Done(place) \cup {c} /\ c \notin Done(place)
       /\ \A x \in Done(place) : operations'[x] = operations[x]
  <2>1. c \notin Done(place) BY <1>3 DEF Done
  <2>2. c \in Done(place)' BY <1>4, <1>6, <1>7, <1>8 DEF Done
  <2>3. \A x \in MemoryCalls \ {c} : x \in Done(place)' <=> x \in Done(place) BY <1>6 DEF Done
  <2>4. Done(place) \subseteq MemoryCalls /\ Done(place)' \subseteq MemoryCalls BY DEF Done
  <2>5. Done(place)' = Done(place) \cup {c} BY <2>1, <2>2, <2>3, <2>4
  <2> QED BY <2>1, <2>4, <2>5, <1>6
<1>11. IsFiniteSet(Done(place))
  <2>1. Done(place) \in SUBSET MemoryCalls BY DEF Done
  <2> QED BY <2>1, MemoryConstants, FS_Subset DEF MemoryConstants
<1>12. Cardinality(Done(place)) = n /\ {operations[x].asked.revision : x \in Done(place)} = 1..n
  BY <1>4, <1>5 DEF MemInv, RevisionsCounted
<1>13. Cardinality(Done(place)') = n + 1 BY <1>10, <1>11, <1>12, FS_AddElement
<1>14. operations'[c].asked.revision = n + 1
  <2>1. d.revision = n + 1 BY <1>3, <1>4, <1>5
  <2> QED BY <2>1, <1>6, <1>7
<1>15. {operations[x].asked.revision : x \in Done(place)}' = 1..(n + 1)
  <2>1. {operations[x].asked.revision : x \in Done(place)}'
          = {operations[x].asked.revision : x \in Done(place)} \cup {n + 1}
    BY <1>10, <1>14
  <2>2. (1..n) \cup {n + 1} = 1..(n + 1) OBVIOUS
  <2> QED BY <2>1, <2>2, <1>12
<1>16. memories'[place].revision = n + 1 BY <1>3, <1>4, <1>5
<1>17. ASSUME NEW p \in Places
       PROVE  /\ memories'[p].revision = Cardinality(Done(p)')
              /\ {operations[x].asked.revision : x \in Done(p)}' = 1..Cardinality(Done(p)')
  <2>1. CASE p = place BY <2>1, <1>13, <1>15, <1>16
  <2>2. CASE p # place BY <2>2, <1>4, <1>9 DEF MemInv, RevisionsCounted
  <2> QED BY <2>1, <2>2
<1> QED BY <1>17 DEF RevisionsCounted

\* The usage row is locked and what passes the quota is rolled back; other tenants' usage is their own.
LEMMA CommitWithinQuota ==
  ASSUME MemInv, NEW c \in MemoryCalls, memCall[c].key \in MemoryKeys, memories' = Written(c),
         ~Exceeds(ScopeOf[c].tenant, Usage(ScopeOf[c].tenant, memories), Usage(ScopeOf[c].tenant, Written(c)))
  PROVE  QuotaKept'
<1> DEFINE place == <<ScopeOf[c], memCall[c].key>>
           t == ScopeOf[c].tenant
<1>1. /\ place \in Places /\ \A p \in Places \ {place} : memories'[p] = memories[p]
      /\ memories' \in [Places -> MemRecords] /\ memories \in [Places -> MemRecords]
  BY WrittenIs DEF MemInv, MemTypes
<1>2. ASSUME NEW s \in MemScopes, NEW d \in {"items", "bytes"}, QuotaFor(s.tenant)[d] # Unlimited
      PROVE  UsedBy(s.tenant, memories', d) <= QuotaFor(s.tenant)[d]
  <2>1. QuotaFor(s.tenant)[d] \in Nat BY <1>2, QuotaAssumption DEF QuotaAssumption
  <2>2. UsedBy(s.tenant, memories, d) \in Nat /\ UsedBy(s.tenant, memories', d) \in Nat BY <1>1, UnitsFinite
  <2>3. UsedBy(s.tenant, memories, d) <= QuotaFor(s.tenant)[d] BY <1>2 DEF MemInv, QuotaKept
  <2>4. CASE s.tenant = t
    <3>1. \/ ~(Usage(t, memories')[d] > QuotaFor(t)[d])
          \/ ~(Usage(t, memories')[d] > Usage(t, memories)[d])
      BY <1>2, <2>4 DEF Exceeds
    <3>2. Usage(t, memories')[d] = UsedBy(t, memories', d) /\ Usage(t, memories)[d] = UsedBy(t, memories, d)
      BY DEF Usage
    <3>3. \/ ~(UsedBy(t, memories', d) > QuotaFor(t)[d])
          \/ ~(UsedBy(t, memories', d) > UsedBy(t, memories, d))
      BY <3>1, <3>2
    <3> QED BY <3>3, <2>1, <2>2, <2>3, <2>4
  <2>5. CASE s.tenant # t
    <3>1. \A p \in Places : p[1].tenant = s.tenant => memories'[p] = memories[p]
      <4>1. place[1].tenant = t OBVIOUS
      <4> QED BY <4>1, <2>5, <1>1
    <3>2. Units(s.tenant, memories', d) = Units(s.tenant, memories, d) BY <3>1 DEF Units
    <3> QED BY <3>2, <2>3 DEF UsedBy
  <2> QED BY <2>4, <2>5
<1> QED BY <1>2 DEF QuotaKept

\* A write commits its row and its answer in one transaction (apply).
LEMMA ApplyCommitKeeps == ASSUME MemInv, NEW c \in MemoryCalls, ApplyCommit(c) PROVE MemInv'
<1> DEFINE t == ScopeOf[c].tenant
           place == <<ScopeOf[c], memCall[c].key>>
           d == memCall[c].draft
           answer == [asked |-> d, key |-> memCall[c].key]
<1>1. /\ memCall[c] \in ToolCalls /\ CallSound(memCall[c], c) /\ operations \in [MemoryCalls -> Operations]
      /\ memCall \in [MemoryCalls -> ToolCalls]
  BY DEF MemInv, MemTypes, CallsInv
<1>2. memCall[c].stage = "applying" /\ memClock' = memClock BY DEF ApplyCommit
<1>3. memCall[c].key \in MemoryKeys BY <1>1, <1>2 DEF CallSound, StageSound
<1>4. /\ operations[c] = NotApplied /\ memCall[c].retention <= MaxRetention
      /\ d.revision = memories[place].revision + 1
      /\ (d.deleted => d.content = Blank)
      /\ \E matter \in MemContents : d = RecordOf(memCall[c], matter)
  BY <1>1, <1>2 DEF CallSound, ApplySound, RowOf
<1>5. CASE RefuseCall(c, "quota") /\ UNCHANGED <<memories, operations>>
  <2>1. "quota" \in MemReasons BY DEF MemReasons
  <2> QED BY <2>1, <1>2, <1>4, <1>5, RefuseKeeps
<1>6. ASSUME ~Exceeds(t, Usage(t, memories), Usage(t, Written(c))), memories' = Written(c),
             operations' = [operations EXCEPT ![c] = answer],
             memCall' = [memCall EXCEPT ![c] = [@ EXCEPT !.stage = "answered"]]
      PROVE  MemInv'
  <2>1. /\ place \in Places /\ memories'[place] = d /\ memories' \in [Places -> MemRecords]
        /\ \A p \in Places \ {place} : memories'[p] = memories[p]
    BY <1>3, <1>6, WrittenIs DEF MemInv
  <2>2. QuotaKept' BY <1>3, <1>6, CommitWithinQuota
  <2>3. RevisionsCounted' BY <1>2, <1>6, CommitCounts
  <2>17. PICK r : r = [memCall[c] EXCEPT !.stage = "answered"] OBVIOUS
  <2>4. /\ r \in ToolCalls /\ r.stage = "answered" /\ r.tool = memCall[c].tool /\ r.key = memCall[c].key
        /\ r.content = memCall[c].content /\ r.expect = memCall[c].expect
        /\ r.retention = memCall[c].retention /\ r.started = memCall[c].started
        /\ r.found = memCall[c].found /\ r.left = memCall[c].left
    BY <1>1, <2>17, StagesOfCalls, CallUpdates
  <2>5. memCall'[c] = r /\ memCall' \in [MemoryCalls -> ToolCalls]
        /\ \A x \in MemoryCalls \ {c} : memCall'[x] = memCall[x]
    BY <1>1, <1>6, <2>17, <2>4
  <2>6. d \in MemRecords BY <1>1 DEF ToolCalls
  <2>7. answer \in Operations BY <2>6, <1>3 DEF Operations
  <2>8. answer.asked = d /\ answer.key = memCall[c].key OBVIOUS
  <2> HIDE DEF answer
  <2>9. /\ operations' \in [MemoryCalls -> Operations] /\ operations'[c] = answer
        /\ \A x \in MemoryCalls \ {c} : operations'[x] = operations[x]
    BY <1>1, <1>6, <2>7
  <2>10. MemTypes'
    <3>1. \A p \in Places : memories'[p].deleted => memories'[p].content = Blank
      BY <1>4, <2>1 DEF MemInv, MemTypes
    <3> QED BY <3>1, <1>2, <2>1, <2>5, <2>9 DEF MemInv, MemTypes
  <2>11. memClock <= memClock' BY <1>2, MemoryConstants DEF MemInv, MemTypes, MemoryConstants
  <2>12. \A p \in Places : RowAged(p)
    <3>1. \A p \in Places : memories[p].revision \in Int BY DEF MemInv, MemTypes, MemRecords
    <3>2. RowAged(place) BY <3>1, <1>4, <2>1 DEF RowAged
    <3>3. \A p \in Places \ {place} : RowAged(p) BY <3>1, <2>1 DEF RowAged
    <3> QED BY <3>2, <3>3
  <2>13. ASSUME NEW x \in MemoryCalls, x # c PROVE CallSound(memCall[x], x)'
    <3>1. memCall[x].stage = "applying" =>
            memories'[<<ScopeOf[x], memCall[x].key>>].revision = memories[<<ScopeOf[x], memCall[x].key>>].revision
      <4> SUFFICES ASSUME memCall[x].stage = "applying"
                   PROVE  memories'[<<ScopeOf[x], memCall[x].key>>] = memories[<<ScopeOf[x], memCall[x].key>>]
        OBVIOUS
      <4>1. ScopeOf[x] # ScopeOf[c] BY <2>13, <1>2 DEF MemInv, OneApplies
      <4>2. memCall[x].key \in MemoryKeys BY DEF MemInv, CallsInv, CallSound, StageSound
      <4>3. <<ScopeOf[x], memCall[x].key>> \in Places \ {place} BY <4>1, <4>2, PlacesOfCalls
      <4> QED BY <4>3, <2>1
    <3>2. memCall'[x] = memCall[x] /\ operations'[x] = operations[x] BY <2>5, <2>9, <2>13
    <3> QED BY <3>1, <3>2, <2>10, <2>11, <2>12, StandsStill
  <2>14. CallSound(memCall[c], c)'
    <3>1. RecallSound(memCall[c], c) BY <1>1 DEF CallSound
    <3>2. RecallSound(r, c) BY <3>1, <2>4 DEF RecallSound
    <3>3. RecallSound(r, c)' BY <3>2, <2>4, <2>10, <2>11, <2>12, AgedSound DEF MemInv
    <3>4. StageSound(r)' BY <2>4, <1>1, <1>2 DEF CallSound, StageSound
    <3>5. \E x \in MemContents : d = RecordOf(r, x) BY <1>4, <2>4 DEF RecordOf
    <3>6. AnswerSound(r, c)' BY <3>5, <2>4, <2>8, <2>9, <1>4 DEF AnswerSound, RecordOf
    <3>7. ApplySound(r, c)' BY <2>4 DEF ApplySound
    <3>8. CallSound(r, c)' BY <3>3, <3>4, <3>6, <3>7 DEF CallSound
    <3> QED BY <3>8, <2>5 DEF CallSound, StageSound, RecallSound, AnswerSound, ApplySound
  <2>15. CallsInv' BY <2>13, <2>14 DEF CallsInv
  <2>16. OneApplies'
    <3>1. \A x \in MemoryCalls : memCall'[x].stage = "applying" => memCall[x].stage = "applying"
      BY <2>4, <2>5
    <3> QED BY <3>1 DEF MemInv, OneApplies
  <2> QED BY <2>2, <2>3, <2>10, <2>15, <2>16 DEF MemInv
<1> QED BY <1>5, <1>6 DEF ApplyCommit

-----------------------------------------------------------------------------
\* The invariant holds of an empty memory.
LEMMA MemoryInitInv == ASSUME MemoryInit PROVE MemInv
<1>1. NewCall \in ToolCalls /\ NewCall.found = {} /\ NewCall.left = {} /\ NewCall.stage = "new"
  BY NewCallIs
<1>2. NoMemory \in MemRecords /\ NoMemory.revision = 0 /\ NoMemory.content = Blank /\ ~NoMemory.deleted
  BY NewCallIs
<1>3. \A p \in Places : memories[p] = NoMemory BY DEF MemoryInit
<1>4. \A c \in MemoryCalls : memCall[c] = NewCall /\ operations[c] = NotApplied BY DEF MemoryInit
<1>5. NotApplied \in Operations BY <1>2 DEF NotApplied, Operations
<1>6. MemTypes
  <2> HIDE DEF NewCall, NoMemory, NotApplied, MemRecords, ToolCalls, Operations
  <2>1. memClock \in 1..MemoryUntil BY MemoryConstants DEF MemoryInit, MemoryConstants
  <2> QED BY <2>1, <1>1, <1>2, <1>3, <1>5 DEF MemoryInit, MemTypes
<1>7. CallsInv
  BY <1>1, <1>4 DEF CallsInv, CallSound, StageSound, RecallSound, AnswerSound, ApplySound
<1>8. OneApplies BY <1>1, <1>4 DEF OneApplies
<1>9. RevisionsCounted
  <2>1. \A p : Done(p) = {} BY <1>4 DEF Done
  <2>2. Cardinality({}) = 0 BY FS_EmptySet
  <2>3. 1..0 = {} OBVIOUS
  <2> QED BY <2>1, <2>2, <2>3, <1>2, <1>3 DEF RevisionsCounted
<1>10. QuotaKept
  <2>1. ASSUME NEW s \in MemScopes, NEW d \in {"items", "bytes"}, QuotaFor(s.tenant)[d] # Unlimited
        PROVE  UsedBy(s.tenant, memories, d) <= QuotaFor(s.tenant)[d]
    <3>1. \A p \in Places : Counted(memories[p])[d] = 0 BY <1>2, <1>3 DEF Counted
    <3>2. \A p \in Places : 1..Counted(memories[p])[d] = {} BY <3>1
    <3>3. Units(s.tenant, memories, d) = {} BY <3>2 DEF Units
    <3>4. UsedBy(s.tenant, memories, d) = 0 BY <3>3, FS_EmptySet DEF UsedBy
    <3>5. QuotaFor(s.tenant)[d] \in Nat BY <2>1, QuotaAssumption DEF QuotaAssumption
    <3> QED BY <3>4, <3>5
  <2> QED BY <2>1 DEF QuotaKept
<1> QED BY <1>6, <1>7, <1>8, <1>9, <1>10 DEF MemInv

\* Every step keeps the invariant: one lemma per action above.
LEMMA MemoryNextInv == ASSUME MemInv, [MemoryNext]_memoryVars PROVE MemInv'
<1>1. CASE UNCHANGED memoryVars
  <2>1. UNCHANGED <<operations, memCall>> /\ memClock' = memClock /\ memories' = memories
    BY <1>1 DEF memoryVars
  <2>2. MemTypes' BY <2>1 DEF MemInv, MemTypes
  <2>3. memClock <= memClock' BY <2>1, MemoryConstants DEF MemInv, MemTypes, MemoryConstants
  <2>4. \A p \in Places : RowAged(p) /\ memories'[p].revision = memories[p].revision
    <3>1. \A p \in Places : memories[p].revision \in Int BY DEF MemInv, MemTypes, MemRecords
    <3> QED BY <3>1, <2>1 DEF RowAged
  <2>5. QuotaKept' BY <2>1 DEF MemInv, QuotaKept, UsedBy, Units
  <2>6. CallsInv' /\ OneApplies' /\ RevisionsCounted' BY <2>1, <2>2, <2>3, <2>4, StoreMoves
  <2> QED BY <2>2, <2>5, <2>6 DEF MemInv
<1>2. CASE PurgeMemories BY <1>2, PurgeKeeps
<1>3. CASE MemoryTick BY <1>3, MemoryTickKeeps
<1>4. ASSUME NEW c \in MemoryCalls,
             \/ Propose(c) \/ ApplyBegin(c) \/ ApplyCommit(c) \/ RecallMemory(c)
             \/ ValidateRecall(c) \/ CheckRecalled(c) \/ RepeatCall(c)
      PROVE  MemInv'
  BY <1>4, ProposeKeeps, ApplyBeginKeeps, ApplyCommitKeeps, RecallMemoryKeeps, ValidateRecallKeeps,
     CheckRecalledKeeps, RepeatCallKeeps
<1> QED BY <1>1, <1>2, <1>3, <1>4 DEF MemoryNext

\* The invariant implies what the runs check.
LEMMA MemInvSafe == ASSUME MemInv PROVE MemorySafe
<1>1. \A c \in MemoryCalls : memCall[c] \in ToolCalls /\ CallSound(memCall[c], c)
  BY DEF MemInv, MemTypes, CallsInv
<1>2. MemoryTypeOK
  <2>1. \A p \in Places : memories[p] \in MemRecords BY DEF MemInv, MemTypes
  <2>2. \A p \in Places : /\ memories[p].revision \in 0..(MaxRevision + 1)
                          /\ memories[p].deleted => memories[p].content = Blank
                          /\ memories[p].content \in Contents \cup {Screened, Blank}
    BY <2>1 DEF MemInv, MemTypes, MemRecords, MemContents
  <2>3. \A c \in MemoryCalls : memCall[c].stage \in MemStages /\ memCall[c].left \subseteq memCall[c].found
    BY <1>1 DEF CallSound, StageSound, ToolCalls
  <2>4. memClock \in 1..MemoryUntil BY DEF MemInv, MemTypes
  <2> QED BY <2>2, <2>3, <2>4 DEF MemoryTypeOK, MemStages
<1>3. AppliedStaysAnswered BY <1>1 DEF AppliedStaysAnswered, CallSound, AnswerSound
<1>4. ToldWasThere BY <1>1 DEF ToldWasThere, CallSound, RecallSound, Seen
<1> QED BY <1>2, <1>3, <1>4 DEF MemInv, MemorySafe

(* Learned memory, for any number of tool calls, scopes, keys, contents and
   quotas: overlapping and repeated writes and deletions count every
   revision once and keep their answers, the model is told nothing that was
   gone when its recall was validated, and no tenant passes its quota.  The
   invariant adds what each stage of a call knows: a transaction holds its
   scope and writes the revision after the line's, an answer is a record the
   call asks for again, and a recalled line shows its content as long as its
   revision stands. *)
THEOREM MemoryIsSafe == MemorySpec => []MemorySafe
<1>1. MemoryInit => MemInv BY MemoryInitInv
<1>2. MemInv /\ [MemoryNext]_memoryVars => MemInv' BY MemoryNextInv
<1>3. MemInv => MemorySafe BY MemInvSafe
<1> QED BY <1>1, <1>2, <1>3, PTL DEF MemorySpec

-----------------------------------------------------------------------------
(* PolicyGate.  First what a policy's verdict is, and that it stands when  *)
(* later policies take more out of the payload.                            *)

PolicyActions == {"allow", "deny", "transform", "require_approval"}

\* A verdict v of a payload, and a verdict w of what a later policy left of it.
IsVerdict(d, v) ==
  /\ d.action \in PolicyActions /\ d.value \subseteq v
  /\ d.action # "transform" => d.value = v
VerdictHolds(d, w) ==
  d.action # "deny" =>
    /\ w.action \in {"allow", "require_approval"}
    /\ w.action = "require_approval" <=> d.action = "require_approval"

\* A policy that takes marks out of a payload has nothing to take out of what is left.
LEMMA RewritesIs ==
  ASSUME NEW v, NEW marks
  PROVE  /\ IsVerdict(Rewrites(v, marks), v)
         /\ \A w \in SUBSET Rewrites(v, marks).value : VerdictHolds(Rewrites(v, marks), Rewrites(w, marks))
<1>1. PICK d : d = Rewrites(v, marks) OBVIOUS
<1>2. CASE v \cap marks = {}
  <2>1. d = [action |-> "allow", value |-> v] BY <1>1, <1>2 DEF Rewrites, Allowed, Decision
  <2>2. ASSUME NEW w \in SUBSET v PROVE Rewrites(w, marks).action = "allow"
    <3>1. w \cap marks = {} BY <1>2
    <3> QED BY <3>1 DEF Rewrites, Allowed, Decision
  <2> QED BY <1>1, <2>1, <2>2 DEF IsVerdict, VerdictHolds, PolicyActions
<1>3. CASE v \cap marks # {}
  <2>1. d = [action |-> "transform", value |-> v \ marks] BY <1>1, <1>3 DEF Rewrites, Decision
  <2>2. ASSUME NEW w \in SUBSET (v \ marks) PROVE Rewrites(w, marks).action = "allow"
    <3>1. w \cap marks = {} OBVIOUS
    <3> QED BY <3>1 DEF Rewrites, Allowed, Decision
  <2> QED BY <1>1, <2>1, <2>2 DEF IsVerdict, VerdictHolds, PolicyActions
<1> QED BY <1>2, <1>3

\* A bundle's rules: what they let through they let through still when less is left.
LEMMA BundleRulesAre ==
  ASSUME NEW b, NEW point, NEW tool, NEW v
  PROVE  /\ IsVerdict(BundleRules(b, point, tool, v), v)
         /\ \A w \in SUBSET BundleRules(b, point, tool, v).value :
              VerdictHolds(BundleRules(b, point, tool, v), BundleRules(b, point, tool, w))
<1> DEFINE named == point \in {"plan_tool", "before_tool"} /\ tool # NoSelection
           refuses == named /\ tool.name \in b.denyTools
           asks == named /\ point = "plan_tool" /\ tool.name \in b.approvalTools
           Denied(x) == point \in b.points /\ x \cap b.denies # {}
           R(x) == BundleRules(b, point, tool, x)
<1>1. \A x : R(x) = IF refuses THEN Decision("deny", x) ELSE IF asks THEN Decision("require_approval", x)
                    ELSE IF Denied(x) THEN Decision("deny", x)
                    ELSE IF point \in b.points THEN Rewrites(x, b.redacts) ELSE Allowed(x)
  BY DEF BundleRules
<1>2. refuses \in BOOLEAN /\ asks \in BOOLEAN /\ (\A x : Denied(x) \in BOOLEAN) OBVIOUS
<1>3. CASE refuses
  <2>1. R(v) = [action |-> "deny", value |-> v] BY <1>1, <1>3 DEF Decision
  <2> QED BY <2>1 DEF IsVerdict, VerdictHolds, PolicyActions
<1>4. CASE ~refuses /\ asks
  <2>1. \A x : R(x) = [action |-> "require_approval", value |-> x] BY <1>1, <1>4 DEF Decision
  <2> HIDE DEF R
  <2>2. \A x : R(x).action = "require_approval" /\ R(x).value = x BY <2>1
  <2>3. IsVerdict(R(v), v) BY <2>2 DEF IsVerdict, PolicyActions
  <2>4. \A w : VerdictHolds(R(v), R(w)) BY <2>2 DEF VerdictHolds
  <2> QED BY <2>3, <2>4 DEF R
<1>5. CASE ~refuses /\ ~asks /\ Denied(v)
  <2>1. R(v) = [action |-> "deny", value |-> v] BY <1>1, <1>5 DEF Decision
  <2> QED BY <2>1 DEF IsVerdict, VerdictHolds, PolicyActions
<1>6. CASE ~refuses /\ ~asks /\ ~Denied(v) /\ point \in b.points
  <2>1. \A w \in SUBSET v : ~Denied(w) BY <1>6
  <2>2. \A w \in SUBSET v : R(w) = Rewrites(w, b.redacts) BY <1>1, <1>6, <2>1
  <2>3. R(v) = Rewrites(v, b.redacts) BY <2>2
  <2>4. /\ IsVerdict(Rewrites(v, b.redacts), v)
        /\ \A w \in SUBSET Rewrites(v, b.redacts).value : VerdictHolds(Rewrites(v, b.redacts), Rewrites(w, b.redacts))
    BY RewritesIs
  <2>5. Rewrites(v, b.redacts).value \subseteq v BY <2>4 DEF IsVerdict
  <2> HIDE DEF R
  <2>6. \A w \in SUBSET R(v).value : R(w) = Rewrites(w, b.redacts) BY <2>2, <2>3, <2>5
  <2>7. \A w \in SUBSET R(v).value : VerdictHolds(R(v), R(w)) BY <2>3, <2>4, <2>6
  <2>8. IsVerdict(R(v), v) BY <2>3, <2>4
  <2> QED BY <2>7, <2>8 DEF R
<1>7. CASE ~refuses /\ ~asks /\ ~Denied(v) /\ point \notin b.points
  <2>1. \A x : R(x) = [action |-> "allow", value |-> x] BY <1>1, <1>7 DEF Allowed, Decision
  <2> HIDE DEF R
  <2>2. \A x : R(x).action = "allow" /\ R(x).value = x BY <2>1
  <2>3. IsVerdict(R(v), v) BY <2>2 DEF IsVerdict, PolicyActions
  <2>4. \A w : VerdictHolds(R(v), R(w)) BY <2>2 DEF VerdictHolds
  <2> QED BY <2>3, <2>4 DEF R
<1> QED BY <1>2, <1>3, <1>4, <1>5, <1>6, <1>7

\* Every policy: what it lets through it lets through still when less is left of the payload.
LEMMA VerdictStands ==
  ASSUME NEW p, NEW point, NEW tool, NEW v
  PROVE  /\ IsVerdict(Verdict(p, point, tool, v), v)
         /\ \A w \in SUBSET Verdict(p, point, tool, v).value :
              VerdictHolds(Verdict(p, point, tool, v), Verdict(p, point, tool, w))
<1> DEFINE V(x) == Verdict(p, point, tool, x)
<1>1. CASE p = "secrets"
  <2>1. \A x : V(x) = Rewrites(x, {"secret"}) BY <1>1 DEF Verdict, SecretRedaction
  <2> QED BY <2>1, RewritesIs
<1>2. CASE p = "pii"
  <2>1. PICK m : m = IF tool # NoSelection /\ point \in {"plan_tool", "before_tool", "after_tool", "before_model"}
                     THEN {"pii"} ELSE {"pii", "address"}
    OBVIOUS
  <2>2. \A x : V(x) = Rewrites(x, m) BY <1>2, <2>1 DEF Verdict, PIIRedaction
  <2> QED BY <2>2, RewritesIs
<1>3. CASE p = "prompt_injection"
  <2>1. \A x : V(x) = IF "override" \in x THEN Decision("deny", x) ELSE Allowed(x)
    BY <1>3 DEF Verdict, PromptInjection
  <2> QED BY <2>1 DEF IsVerdict, VerdictHolds, PolicyActions, Allowed, Decision
<1>4. CASE p = "output_validation"
  <2>1. \A x : V(x) = IF x \cap {"marker", "blank"} # {} THEN Decision("deny", x) ELSE Allowed(x)
    BY <1>4 DEF Verdict, OutputValidation
  <2>2. CASE v \cap {"marker", "blank"} # {}
    <3>1. V(v) = [action |-> "deny", value |-> v] BY <2>1, <2>2 DEF Decision
    <3> QED BY <3>1 DEF IsVerdict, VerdictHolds, PolicyActions
  <2>3. CASE v \cap {"marker", "blank"} = {}
    <3>1. \A w \in SUBSET v : w \cap {"marker", "blank"} = {} BY <2>3
    <3>2. \A w \in SUBSET v : V(w) = [action |-> "allow", value |-> w] BY <2>1, <3>1 DEF Allowed, Decision
    <3> HIDE DEF V
    <3>3. \A w \in SUBSET v : V(w).action = "allow" /\ V(w).value = w BY <3>2
    <3>4. IsVerdict(V(v), v) BY <3>3 DEF IsVerdict, PolicyActions
    <3>5. \A w \in SUBSET V(v).value : VerdictHolds(V(v), V(w)) BY <3>3 DEF VerdictHolds
    <3> QED BY <3>4, <3>5 DEF V
  <2> QED BY <2>2, <2>3
<1>5. CASE p = "authorization"
  <2>1. \A x : V(x) = IF tool.permitted THEN Allowed(x) ELSE Decision("deny", x) BY <1>5 DEF Verdict, Authorization
  <2> QED BY <2>1 DEF IsVerdict, VerdictHolds, PolicyActions, Allowed, Decision
<1>6. CASE p = "side_effects"
  <2>1. \A x : V(x) = IF tool.writes THEN Decision("require_approval", x) ELSE Allowed(x) BY <1>6 DEF Verdict, SideEffects
  <2> QED BY <2>1 DEF IsVerdict, VerdictHolds, PolicyActions, Allowed, Decision
<1>7. CASE p \notin {"secrets", "pii", "prompt_injection", "output_validation", "authorization", "side_effects"}
  <2>1. \A x : V(x) = BundleRules(BundleOf(p), point, tool, x) BY <1>7 DEF Verdict
  <2> QED BY <2>1, BundleRulesAre
<1> QED BY <1>1, <1>2, <1>3, <1>4, <1>5, <1>6, <1>7

-----------------------------------------------------------------------------
(* The inductive invariant of the policy engine. *)

PolicyNames == {BuiltIn[i] : i \in 1..6} \cup UNION {{f[i].name : i \in DOMAIN f} : f \in BundleConfigs}
PolicyContents == SUBSET UNION Payloads
Evaluations ==
  [point : PolicyPoints \cup {"none"}, agent : GuardedAgents \cup {NoSelection}, tool : GuardedTools \cup {NoSelection},
   first : PolicyContents, value : PolicyContents, at : Nat, ran : SUBSET PolicyNames, failed : SUBSET PolicyNames,
   pending : BOOLEAN, changed : BOOLEAN, decision : {"none", "allow", "deny", "transform", "require_approval"}]
GuardedCalls ==
  [at : {"none", "plan", "asked", "before", "running", "after", "history", "refused"},
   agent : GuardedAgents \cup {NoSelection}, tool : GuardedTools \cup {NoSelection}, args : PolicyContents,
   approved : BOOLEAN, ran : SUBSET PolicyNames, failed : SUBSET PolicyNames]
PolicyTypes ==
  /\ files \in BundleConfigs /\ table \in Seq(PolicyNames)
  /\ startup \in [at : {"loading", "serving", "stopped"}, loaded : Nat] /\ startup.loaded <= Len(files)
  /\ mandatory \subseteq {table[i] : i \in DOMAIN table}
  /\ 6 \in DOMAIN table /\ table[6] = "side_effects"
  /\ ev \in Evaluations /\ tcall \in GuardedCalls

\* Bundles: the loaded ones are in force, and nothing is evaluated before all are.
BundleSigners == TrustedKeys \cup (IF RequireSigned THEN {} ELSE {""})
Loaded ==
  /\ \A i \in 1..startup.loaded : files[i].name \in mandatory /\ files[i].signer \in BundleSigners
  /\ startup.at = "serving" => startup.loaded = Len(files)
  /\ startup.at # "serving" => ev = NoEval /\ tcall = NoToolCall

\* A policy that looked at the payload is content with what the payload is now.
RunsIn(e, p) == p \in SelectedPolicies(e.agent, e.point) /\ e.point \in AppliesTo(p)
ContentWith(e, p) ==
  LET action == Verdict(p, e.point, e.tool, e.value).action
  IN  action \in {"allow", "require_approval"} /\ (action = "require_approval" => e.pending)
Contented(e) == e.decision # "deny" =>
  /\ \A p \in e.ran : ContentWith(e, p)
  /\ e.failed # {} => e.point \in OpenPoints
Looked(e) ==
  /\ e.at \in 1..Len(table) + 1
  /\ \A i \in 1..e.at - 1 : RunsIn(e, table[i]) => table[i] \in e.ran \cup e.failed
Ends(e) ==
  /\ e.value \subseteq e.first /\ (e.changed \/ e.value = e.first)
  /\ e.decision \in {"allow", "transform", "require_approval"} => e.at = Len(table) + 1
  /\ e.decision = "allow" => ~e.pending /\ ~e.changed
  /\ e.decision = "transform" => ~e.pending
EvalSound(e) ==
  /\ e.point = "none" => e.at = 0 /\ e.decision = "none"
  /\ e.point # "none" => Looked(e) /\ Contented(e) /\ Ends(e)

\* A call is evaluated at its own boundaries, and is before its tool only as its plan allowed.
MayWrite(c) == c.tool.writes => c.approved \/ "plan_tool" \in OpenPoints
PassageSound(c, e) ==
  /\ c.at \in {"plan", "asked"} =>
       e.point = "plan_tool" /\ e.agent = NoSelection /\ e.tool = c.tool /\ e.first = c.args
  /\ c.at = "before" =>
       e.point = "before_tool" /\ e.agent = c.agent /\ e.tool = c.tool /\ e.first = c.args
  /\ c.at \in {"before", "running"} => MayWrite(c)
  /\ c.at = "running" =>
       /\ \A p \in mandatory : "before_tool" \in AppliesTo(p) =>
            p \in c.ran \/ (p \in c.failed /\ "before_tool" \in OpenPoints)
       /\ \A p \in c.ran : Verdict(p, "before_tool", c.tool, c.args).action = "allow"
PolicyInv == PolicyTypes /\ Loaded /\ EvalSound(ev) /\ PassageSound(tcall, ev)

\* The names a policy has stay, and so does what it says.
LEMMA PoliciesStay ==
  ASSUME files' = files
  PROVE  /\ \A p : AppliesTo(p)' = AppliesTo(p)
         /\ \A p, point, tool, v : Verdict(p, point, tool, v)' = Verdict(p, point, tool, v)
<1>1. \A p : BundleOf(p)' = BundleOf(p) BY DEF BundleOf
<1>2. \A p : AppliesTo(p)' = AppliesTo(p) BY <1>1, Zenon DEF AppliesTo
<1>3. \A p, point, tool, v : Verdict(p, point, tool, v)' = Verdict(p, point, tool, v) BY <1>1, Zenon DEF Verdict
<1> QED BY <1>2, <1>3

\* What holds of a new evaluation and a new call in this state holds of them in the next.
LEMMA SoundNext ==
  ASSUME NEW e, NEW c, ev' = e, tcall' = c, UNCHANGED <<files, table, mandatory>>, EvalSound(e), PassageSound(c, e)
  PROVE  EvalSound(ev)' /\ PassageSound(tcall, ev)'
<1>1. /\ \A p : AppliesTo(p)' = AppliesTo(p)
      /\ \A p, point, tool, v : Verdict(p, point, tool, v)' = Verdict(p, point, tool, v)
  BY PoliciesStay
<1>2. \A a, point : SelectedPolicies(a, point)' = SelectedPolicies(a, point) BY DEF SelectedPolicies
<1>3. \A p : RunsIn(ev, p)' = RunsIn(e, p) BY <1>1, <1>2 DEF RunsIn
<1>4. \A p : ContentWith(ev, p)' = ContentWith(e, p) BY <1>1 DEF ContentWith
<1>5. Looked(ev)' = Looked(e) BY <1>3 DEF Looked
<1>6. Contented(ev)' = Contented(e) BY <1>4 DEF Contented
<1>7. Ends(ev)' = Ends(e) BY DEF Ends
<1>8. EvalSound(ev)' BY <1>5, <1>6, <1>7 DEF EvalSound
<1>9. PassageSound(tcall, ev)' BY <1>1 DEF PassageSound, MayWrite
<1> QED BY <1>8, <1>9

\* A new evaluation has nothing behind it.
LEMMA StartIs ==
  ASSUME NEW point \in PolicyPoints, NEW agent \in GuardedAgents \cup {NoSelection},
         NEW tool \in GuardedTools \cup {NoSelection}, NEW v \in PolicyContents, PolicyTypes
  PROVE  /\ EvalStart(point, agent, tool, v) \in Evaluations
         /\ EvalStart(point, agent, tool, v).point = point /\ EvalStart(point, agent, tool, v).agent = agent
         /\ EvalStart(point, agent, tool, v).tool = tool /\ EvalStart(point, agent, tool, v).first = v
         /\ EvalSound(EvalStart(point, agent, tool, v))
<1>1. PICK e : e = EvalStart(point, agent, tool, v) OBVIOUS
<1>2. e = [point |-> point, agent |-> agent, tool |-> tool, first |-> v, value |-> v, at |-> 1,
           ran |-> {}, failed |-> {}, pending |-> FALSE, changed |-> FALSE, decision |-> "none"]
  BY <1>1 DEF EvalStart, NoEval
<1>3. e \in Evaluations BY <1>2 DEF Evaluations
<1>4. Looked(e) BY <1>2 DEF Looked, PolicyTypes
<1>5. Contented(e) BY <1>2 DEF Contented
<1>6. Ends(e) BY <1>2 DEF Ends
<1>7. point # "none" BY DEF PolicyPoints, ContentPoints
<1>8. EvalSound(e) BY <1>2, <1>4, <1>5, <1>6, <1>7 DEF EvalSound
<1> QED BY <1>1, <1>2, <1>3, <1>8

\* An engine with its built-in policies, no bundle loaded and nothing evaluated.
LEMMA PolicyInitInv == ASSUME PolicyInit PROVE PolicyInv
<1>1. ev = NoEval /\ tcall = NoToolCall /\ startup = [at |-> "loading", loaded |-> 0] /\ files \in BundleConfigs
  BY DEF PolicyInit
<1>2. table = BuiltIn /\ mandatory = {"authorization", "side_effects"} BY DEF PolicyInit
<1>3. table \in Seq(PolicyNames) /\ Len(table) = 6 /\ table[6] = "side_effects" /\ table[5] = "authorization"
  <2>1. \A i \in 1..6 : BuiltIn[i] \in PolicyNames BY DEF PolicyNames
  <2>2. BuiltIn \in Seq(PolicyNames)
    <3>1. BuiltIn \in Seq({BuiltIn[i] : i \in 1..6}) BY DEF BuiltIn
    <3> QED BY <3>1, <2>1
  <2> QED BY <1>2, <2>2 DEF BuiltIn
<1>4. mandatory \subseteq {table[i] : i \in DOMAIN table} BY <1>2, <1>3
<1>5. ev \in Evaluations
  <2>1. ev.point = "none" BY <1>1 DEF NoEval
  <2> QED BY <1>1 DEF NoEval, Evaluations, PolicyContents
<1>6. tcall \in GuardedCalls BY <1>1 DEF NoToolCall, GuardedCalls, PolicyContents
<1>7. files \in Seq({files[i] : i \in DOMAIN files}) BY <1>1, GateAssumption
<1>8. PolicyTypes BY <1>1, <1>3, <1>4, <1>5, <1>6, <1>7 DEF PolicyTypes
<1>9. Loaded BY <1>1 DEF Loaded
<1>10. EvalSound(ev) BY <1>1 DEF NoEval, EvalSound
<1>11. PassageSound(tcall, ev) BY <1>1 DEF NoToolCall, PassageSound
<1> QED BY <1>8, <1>9, <1>10, <1>11 DEF PolicyInv

-----------------------------------------------------------------------------

\* A bundle is accepted with no signature where none is required, or with that of a trusted key.
LEMMA SignerIs ==
  ASSUME NEW b, SignatureAccepted(b)
  PROVE  b.signer \in BundleSigners
<1>1. CASE b.signer = "" BY <1>1, Zenon DEF SignatureAccepted, BundleSigners
<1>2. CASE b.signer # "" BY <1>2, Zenon DEF SignatureAccepted, BundleSigners
<1> QED BY <1>1, <1>2

\* A bundle comes into force whole, or the process stops.
LEMMA LoadBundleKeeps == ASSUME PolicyInv, LoadBundle PROVE PolicyInv'
<1> DEFINE i == startup.loaded + 1
           b == files[i]
<1>1. /\ startup.at = "loading" /\ startup.loaded < Len(files) /\ UNCHANGED <<files, ev, tcall>>
      /\ PolicyTypes /\ Loaded
  BY DEF LoadBundle, PolicyInv
<1>2. ev = NoEval /\ tcall = NoToolCall BY <1>1 DEF Loaded
<1>3. ev' = NoEval /\ tcall' = NoToolCall BY <1>1, <1>2
<1>4. EvalSound(ev)' /\ PassageSound(tcall, ev)' BY <1>3 DEF EvalSound, PassageSound, NoEval, NoToolCall
<1>5. files \in BundleConfigs /\ files \in Seq({files[j] : j \in DOMAIN files}) BY <1>1, GateAssumption DEF PolicyTypes
<1>6. i \in DOMAIN files /\ i \in 1..Len(files) BY <1>1, <1>5 DEF PolicyTypes
<1>7. CASE BundleAccepted(b) /\ \A j \in 1..i - 1 : files[j].name # b.name
  <2>1. startup' = [startup EXCEPT !.loaded = i] /\ table' = Append(table, b.name) /\ mandatory' = mandatory \cup {b.name}
    BY <1>7 DEF LoadBundle
  <2>2. b.name \in PolicyNames BY <1>5, <1>6 DEF PolicyNames
  <2>3. table' \in Seq(PolicyNames) /\ Len(table') = Len(table) + 1 /\ table'[Len(table) + 1] = b.name
        /\ (\A j \in 1..Len(table) : table'[j] = table[j])
    BY <1>1, <2>1, <2>2 DEF PolicyTypes
  <2>4. mandatory' \subseteq {table'[j] : j \in DOMAIN table'}
    <3>1. ASSUME NEW p \in mandatory' PROVE \E j \in DOMAIN table' : p = table'[j]
      <4>1. CASE p = b.name BY <4>1, <2>3
      <4>2. CASE p \in mandatory
        <5>1. PICK j \in DOMAIN table : p = table[j] BY <4>2, <1>1 DEF PolicyTypes
        <5> QED BY <5>1, <2>3
      <4> QED BY <4>1, <4>2, <2>1
    <3> QED BY <3>1
  <2>5. 6 \in DOMAIN table' /\ table'[6] = "side_effects" BY <2>3, <1>1 DEF PolicyTypes
  <2>6. startup'.at = "loading" /\ startup'.loaded = i /\ startup' \in [at : {"loading", "serving", "stopped"}, loaded : Nat]
    BY <2>1, <1>1 DEF PolicyTypes
  <2>7. PolicyTypes' BY <1>1, <1>6, <2>3, <2>4, <2>5, <2>6 DEF PolicyTypes
  <2>8. b.signer \in BundleSigners BY <1>7, SignerIs DEF BundleAccepted
  <2>9. \A j \in 1..i : files[j].name \in mandatory' /\ files[j].signer \in BundleSigners
    <3>1. i - 1 = startup.loaded /\ startup.loaded \in Nat BY <1>1 DEF PolicyTypes
    <3>2. \A j \in 1..i : j \in 1..startup.loaded \/ j = i BY <3>1
    <3> QED BY <3>2, <1>1, <2>1, <2>8 DEF Loaded
  <2>10. Loaded' BY <1>1, <2>9, <2>6, <1>3 DEF Loaded
  <2> QED BY <2>7, <2>10, <1>4 DEF PolicyInv
<1>8. CASE ~(BundleAccepted(b) /\ \A j \in 1..i - 1 : files[j].name # b.name)
  <2>1. startup' = [startup EXCEPT !.at = "stopped"] /\ UNCHANGED <<table, mandatory>>
    BY <1>8 DEF LoadBundle
  <2>2. startup'.at = "stopped" /\ startup'.loaded = startup.loaded
        /\ startup' \in [at : {"loading", "serving", "stopped"}, loaded : Nat]
    BY <2>1, <1>1 DEF PolicyTypes
  <2>3. PolicyTypes' BY <1>1, <2>1, <2>2 DEF PolicyTypes
  <2>4. Loaded' BY <1>1, <2>1, <2>2, <1>3 DEF Loaded
  <2> QED BY <2>3, <2>4, <1>4 DEF PolicyInv
<1> QED BY <1>7, <1>8

\* The process serves when the last bundle is in force.
LEMMA ServeKeeps == ASSUME PolicyInv, Serve PROVE PolicyInv'
<1>1. /\ startup.at = "loading" /\ startup.loaded = Len(files) /\ startup' = [startup EXCEPT !.at = "serving"]
      /\ UNCHANGED <<files, table, mandatory, ev, tcall>> /\ PolicyTypes /\ Loaded
  BY DEF Serve, PolicyInv
<1>2. ev = NoEval /\ tcall = NoToolCall BY <1>1 DEF Loaded
<1>3. ev' = NoEval /\ tcall' = NoToolCall BY <1>1, <1>2
<1>4. EvalSound(ev)' /\ PassageSound(tcall, ev)' BY <1>3 DEF EvalSound, PassageSound, NoEval, NoToolCall
<1>5. startup'.at = "serving" /\ startup'.loaded = startup.loaded
      /\ startup' \in [at : {"loading", "serving", "stopped"}, loaded : Nat]
  BY <1>1 DEF PolicyTypes
<1>6. PolicyTypes' BY <1>1, <1>5 DEF PolicyTypes
<1>7. Loaded' BY <1>5, <1>1 DEF Loaded
<1> QED BY <1>6, <1>7, <1>4 DEF PolicyInv

\* A step that leaves the bundles alone keeps what they are.
LEMMA BundlesStay ==
  ASSUME PolicyInv, UNCHANGED <<files, startup, table, mandatory>>, startup.at = "serving",
         ev' \in Evaluations, tcall' \in GuardedCalls
  PROVE  PolicyTypes' /\ Loaded'
<1>1. PolicyTypes /\ Loaded BY DEF PolicyInv
<1>2. PolicyTypes' BY <1>1 DEF PolicyTypes
<1>3. Loaded' BY <1>1 DEF Loaded
<1> QED BY <1>2, <1>3

\* A policy of an evaluation looks, fails or is passed over; what it concludes is for the call as before.
LEMMA EvalMoves ==
  ASSUME PolicyInv, NEW e \in Evaluations, ev' = e, UNCHANGED <<files, startup, table, mandatory, tcall>>,
         ev.point # "none", e.point = ev.point, e.agent = ev.agent, e.tool = ev.tool, e.first = ev.first,
         EvalSound(e)
  PROVE  PolicyInv'
<1>1. PolicyTypes /\ Loaded /\ PassageSound(tcall, ev) BY DEF PolicyInv
<1>2. startup.at = "serving" BY <1>1 DEF Loaded, NoEval
<1>3. tcall \in GuardedCalls BY <1>1 DEF PolicyTypes
<1>4. PassageSound(tcall, e) BY <1>1 DEF PassageSound
<1>5. PICK c : c = tcall OBVIOUS
<1>6. EvalSound(ev)' /\ PassageSound(tcall, ev)' BY <1>4, <1>5, SoundNext
<1>7. PolicyTypes' /\ Loaded' BY <1>2, <1>3, BundlesStay
<1> QED BY <1>6, <1>7 DEF PolicyInv

\* A policy an agent does not run, or that has nothing to say at the boundary.
LEMMA PassedOverKeeps == ASSUME PolicyInv, PassedOver PROVE PolicyInv'
<1>1. /\ ev.point # "none" /\ ev.decision = "none" /\ ev.at <= Len(table) /\ ~RunsIn(ev, table[ev.at])
      /\ ev' = [ev EXCEPT !.at = @ + 1] /\ UNCHANGED <<files, startup, table, mandatory, tcall>>
  BY DEF PassedOver, Evaluating, Runs, RunsIn, CurrentPolicy
<1>2. PolicyTypes /\ EvalSound(ev) BY DEF PolicyInv
<1>3. ev \in Evaluations /\ Looked(ev) /\ Contented(ev) /\ Ends(ev) BY <1>1, <1>2 DEF PolicyTypes, EvalSound
<1>4. PICK e : e = [ev EXCEPT !.at = @ + 1] OBVIOUS
<1>5. /\ e \in Evaluations /\ e.point = ev.point /\ e.agent = ev.agent /\ e.tool = ev.tool /\ e.first = ev.first
      /\ e.value = ev.value /\ e.at = ev.at + 1 /\ e.ran = ev.ran /\ e.failed = ev.failed /\ e.pending = ev.pending
      /\ e.changed = ev.changed /\ e.decision = "none"
  BY <1>1, <1>3, <1>4 DEF Evaluations
<1>6. Looked(e)
  <2>1. ev.at \in Nat /\ 1 <= ev.at /\ Len(table) \in Nat BY <1>2, <1>3 DEF Looked, PolicyTypes
  <2>2. \A i \in 1..e.at - 1 : i \in 1..ev.at - 1 \/ i = ev.at BY <1>5, <2>1
  <2>3. \A p : RunsIn(e, p) = RunsIn(ev, p) BY <1>5 DEF RunsIn
  <2>4. \A i \in 1..e.at - 1 : RunsIn(e, table[i]) => table[i] \in e.ran \cup e.failed
    BY <1>1, <1>3, <1>5, <2>2, <2>3 DEF Looked
  <2> QED BY <1>1, <1>5, <2>1, <2>4 DEF Looked
<1>7. Contented(e)
  <2>1. \A p : ContentWith(e, p) = ContentWith(ev, p) BY <1>5 DEF ContentWith
  <2> QED BY <1>1, <1>3, <1>5, <2>1 DEF Contented
<1>8. Ends(e) BY <1>3, <1>5 DEF Ends
<1>9. EvalSound(e) BY <1>1, <1>5, <1>6, <1>7, <1>8 DEF EvalSound
<1>10. ev' = e BY <1>1, <1>4
<1> QED BY <1>1, <1>5, <1>9, <1>10, EvalMoves

\* A policy looks: a denial ends the evaluation, and what the earlier ones said still stands.
LEMMA DecidedKeeps == ASSUME PolicyInv, Decided PROVE PolicyInv'
<1>1. PICK p : p = table[ev.at] OBVIOUS
<1>2. PICK d : d = Verdict(p, ev.point, ev.tool, ev.value) OBVIOUS
<1>3. PICK e0 : e0 = [ev EXCEPT !.at = @ + 1, !.ran = @ \cup {p}] OBVIOUS
<1>4. PICK e : e = CASE d.action = "deny" -> [e0 EXCEPT !.decision = "deny"]
                     [] d.action = "require_approval" -> [e0 EXCEPT !.pending = TRUE, !.decision = "none"]
                     [] d.action = "transform" -> [e0 EXCEPT !.value = d.value, !.changed = TRUE]
                     [] OTHER -> e0
  OBVIOUS
<1>5. /\ ev.point # "none" /\ ev.decision = "none" /\ ev.at <= Len(table)
      /\ ev' = e /\ UNCHANGED <<files, startup, table, mandatory, tcall>>
  <2>1. /\ ev.point # "none" /\ ev.decision = "none" /\ ev.at <= Len(table)
        /\ UNCHANGED <<files, startup, table, mandatory, tcall>>
    BY DEF Decided, Evaluating
  <2>2. CurrentPolicy = p /\ Given(ev) = ev.value /\ (\A x : AfterApproval(x) = "none")
    BY <1>1 DEF CurrentPolicy, Given, AfterApproval
  <2>3. ev' = CASE d.action = "deny" -> [e0 EXCEPT !.decision = "deny"]
                [] d.action = "require_approval" -> [e0 EXCEPT !.pending = TRUE, !.decision = AfterApproval(e0)]
                [] d.action = "transform" -> [e0 EXCEPT !.value = d.value, !.changed = TRUE]
                [] OTHER -> e0
    BY <1>2, <1>3, <2>2 DEF Decided
  <2> QED BY <2>1, <2>2, <2>3, <1>4
<1>6. PolicyTypes /\ EvalSound(ev) BY DEF PolicyInv
<1>7. ev \in Evaluations /\ Looked(ev) /\ Contented(ev) /\ Ends(ev) BY <1>5, <1>6 DEF PolicyTypes, EvalSound
<1>8. /\ IsVerdict(d, ev.value)
      /\ \A w \in SUBSET d.value : VerdictHolds(d, Verdict(p, ev.point, ev.tool, w))
  BY <1>2, VerdictStands
<1>9. p \in PolicyNames /\ ev.at \in Nat /\ 1 <= ev.at /\ Len(table) \in Nat
  BY <1>1, <1>5, <1>6, <1>7 DEF PolicyTypes, Looked
<1>10. /\ e0 \in Evaluations /\ e0.point = ev.point /\ e0.agent = ev.agent /\ e0.tool = ev.tool /\ e0.first = ev.first
       /\ e0.value = ev.value /\ e0.at = ev.at + 1 /\ e0.ran = ev.ran \cup {p} /\ e0.failed = ev.failed
       /\ e0.pending = ev.pending /\ e0.changed = ev.changed /\ e0.decision = "none"
  <2>1. PICK ran : ran = ev.ran \cup {p} OBVIOUS
  <2>2. PICK n : n = ev.at + 1 OBVIOUS
  <2>3. ev \in Evaluations BY <1>7
  <2>4. ran \in SUBSET PolicyNames /\ n \in Nat BY <2>1, <2>2, <2>3, <1>9 DEF Evaluations
  <2>5. e0 = [ev EXCEPT !.at = n, !.ran = ran] BY <1>3, <2>1, <2>2
  <2>6. e0 \in Evaluations BY <2>3, <2>4, <2>5 DEF Evaluations
  <2>7. /\ e0.point = ev.point /\ e0.agent = ev.agent /\ e0.tool = ev.tool /\ e0.first = ev.first
        /\ e0.value = ev.value /\ e0.at = n /\ e0.ran = ran /\ e0.failed = ev.failed
        /\ e0.pending = ev.pending /\ e0.changed = ev.changed /\ e0.decision = ev.decision
    BY <2>3, <2>5 DEF Evaluations
  <2> QED BY <1>5, <2>1, <2>2, <2>6, <2>7
<1>11. /\ e \in Evaluations /\ e.point = ev.point /\ e.agent = ev.agent /\ e.tool = ev.tool /\ e.first = ev.first
       /\ e.at = ev.at + 1 /\ e.ran = ev.ran \cup {p} /\ e.failed = ev.failed
       /\ e.decision = (IF d.action = "deny" THEN "deny" ELSE "none")
       /\ e.value = d.value
       /\ e.pending = (ev.pending \/ d.action = "require_approval")
       /\ e.changed = (ev.changed \/ d.action = "transform")
  <2>1. CASE d.action = "deny"
    <3>1. e = [e0 EXCEPT !.decision = "deny"] BY <1>4, <2>1
    <3> QED BY <2>1, <3>1, <1>8, <1>10, <1>7 DEF Evaluations, IsVerdict
  <2>2. CASE d.action = "require_approval"
    <3>1. e = [e0 EXCEPT !.pending = TRUE, !.decision = "none"] BY <1>4, <2>2
    <3> QED BY <2>2, <3>1, <1>8, <1>10, <1>7 DEF Evaluations, IsVerdict
  <2>3. CASE d.action = "transform"
    <3>1. e = [e0 EXCEPT !.value = d.value, !.changed = TRUE] BY <1>4, <2>3
    <3>2. d.value \in PolicyContents BY <1>7, <1>8 DEF Evaluations, IsVerdict, PolicyContents
    <3> QED BY <2>3, <3>1, <3>2, <1>10, <1>7 DEF Evaluations
  <2>4. CASE d.action = "allow"
    <3>1. e = e0 BY <1>4, <2>4
    <3> QED BY <2>4, <3>1, <1>8, <1>10, <1>7 DEF Evaluations, IsVerdict
  <2> QED BY <2>1, <2>2, <2>3, <2>4, <1>8 DEF IsVerdict, PolicyActions
<1>12. Looked(e)
  <2>1. \A i \in 1..e.at - 1 : i \in 1..ev.at - 1 \/ i = ev.at BY <1>11, <1>9
  <2>2. \A q : RunsIn(e, q) = RunsIn(ev, q) BY <1>11 DEF RunsIn
  <2>3. \A i \in 1..e.at - 1 : RunsIn(e, table[i]) => table[i] \in e.ran \cup e.failed
    BY <1>1, <1>7, <1>11, <2>1, <2>2 DEF Looked
  <2> QED BY <1>5, <1>9, <1>11, <2>3 DEF Looked
<1>13. Contented(e)
  <2> SUFFICES ASSUME e.decision # "deny" PROVE (\A q \in e.ran : ContentWith(e, q)) /\ (e.failed # {} => e.point \in OpenPoints)
    BY DEF Contented
  <2>1. d.action # "deny" BY <1>11
  <2>2. ContentWith(e, p)
    <3>1. VerdictHolds(d, Verdict(p, ev.point, ev.tool, d.value)) BY <1>8
    <3> QED BY <3>1, <2>1, <1>11 DEF VerdictHolds, ContentWith
  <2>3. ASSUME NEW q \in ev.ran PROVE ContentWith(e, q)
    <3>1. ContentWith(ev, q) BY <1>5, <1>7 DEF Contented
    <3>2. PICK g : g = Verdict(q, ev.point, ev.tool, ev.value) OBVIOUS
    <3>3. g.action \in {"allow", "require_approval"} /\ (g.action = "require_approval" => ev.pending)
      BY <3>1, <3>2 DEF ContentWith
    <3>4. /\ IsVerdict(g, ev.value)
          /\ \A w \in SUBSET g.value : VerdictHolds(g, Verdict(q, ev.point, ev.tool, w))
      BY <3>2, VerdictStands
    <3>5. g.value = ev.value /\ d.value \subseteq ev.value BY <3>3, <3>4, <1>8 DEF IsVerdict
    <3>6. VerdictHolds(g, Verdict(q, ev.point, ev.tool, d.value)) BY <3>4, <3>5
    <3> QED BY <3>3, <3>6, <1>11 DEF VerdictHolds, ContentWith
  <2> QED BY <2>2, <2>3, <1>5, <1>7, <1>11 DEF Contented
<1>14. Ends(e)
  <2>1. d.value \subseteq ev.value /\ (d.action # "transform" => d.value = ev.value) BY <1>8 DEF IsVerdict
  <2> QED BY <2>1, <1>7, <1>11 DEF Ends
<1>15. EvalSound(e) BY <1>5, <1>11, <1>12, <1>13, <1>14 DEF EvalSound
<1> QED BY <1>5, <1>11, <1>15, EvalMoves

\* A policy fails: the evaluation is over, unless the boundary fails open.
LEMMA PolicyFailsKeeps == ASSUME PolicyInv, PolicyFails PROVE PolicyInv'
<1>1. PICK p : p = table[ev.at] OBVIOUS
<1>2. PICK e : e = [ev EXCEPT !.at = @ + 1, !.failed = @ \cup {p},
                              !.decision = IF ev.point \in OpenPoints THEN "none" ELSE "deny"]
  OBVIOUS
<1>3. /\ ev.point # "none" /\ ev.decision = "none" /\ ev.at <= Len(table)
      /\ ev' = e /\ UNCHANGED <<files, startup, table, mandatory, tcall>>
  BY <1>1, <1>2 DEF PolicyFails, Evaluating, CurrentPolicy
<1>4. PolicyTypes /\ EvalSound(ev) BY DEF PolicyInv
<1>5. ev \in Evaluations /\ Looked(ev) /\ Contented(ev) /\ Ends(ev) BY <1>3, <1>4 DEF PolicyTypes, EvalSound
<1>6. p \in PolicyNames /\ ev.at \in Nat /\ 1 <= ev.at /\ Len(table) \in Nat
  BY <1>1, <1>3, <1>4, <1>5 DEF PolicyTypes, Looked
<1>7. /\ e \in Evaluations /\ e.point = ev.point /\ e.agent = ev.agent /\ e.tool = ev.tool /\ e.first = ev.first
      /\ e.value = ev.value /\ e.at = ev.at + 1 /\ e.ran = ev.ran /\ e.failed = ev.failed \cup {p} /\ e.pending = ev.pending
      /\ e.changed = ev.changed /\ e.decision = (IF ev.point \in OpenPoints THEN "none" ELSE "deny")
  <2>1. PICK failed : failed = ev.failed \cup {p} OBVIOUS
  <2>2. PICK n : n = ev.at + 1 OBVIOUS
  <2>3. PICK x : x = IF ev.point \in OpenPoints THEN "none" ELSE "deny" OBVIOUS
  <2>4. ev \in Evaluations BY <1>5
  <2>5. failed \in SUBSET PolicyNames /\ n \in Nat /\ x \in {"none", "deny"} BY <2>1, <2>2, <2>3, <2>4, <1>6 DEF Evaluations
  <2>6. e = [ev EXCEPT !.at = n, !.failed = failed, !.decision = x] BY <1>2, <2>1, <2>2, <2>3
  <2>7. e \in Evaluations BY <2>4, <2>5, <2>6 DEF Evaluations
  <2>8. /\ e.point = ev.point /\ e.agent = ev.agent /\ e.tool = ev.tool /\ e.first = ev.first
        /\ e.value = ev.value /\ e.at = n /\ e.ran = ev.ran /\ e.failed = failed /\ e.pending = ev.pending
        /\ e.changed = ev.changed /\ e.decision = x
    BY <2>4, <2>6 DEF Evaluations
  <2> QED BY <2>1, <2>2, <2>3, <2>7, <2>8
<1>8. Looked(e)
  <2>1. \A i \in 1..e.at - 1 : i \in 1..ev.at - 1 \/ i = ev.at BY <1>6, <1>7
  <2>2. \A q : RunsIn(e, q) = RunsIn(ev, q) BY <1>7 DEF RunsIn
  <2>3. \A i \in 1..e.at - 1 : RunsIn(e, table[i]) => table[i] \in e.ran \cup e.failed
    BY <1>1, <1>5, <1>7, <2>1, <2>2 DEF Looked
  <2> QED BY <1>3, <1>6, <1>7, <2>3 DEF Looked
<1>9. Contented(e)
  <2>1. \A q : ContentWith(e, q) = ContentWith(ev, q) BY <1>7 DEF ContentWith
  <2> QED BY <1>3, <1>5, <1>7, <2>1 DEF Contented
<1>10. Ends(e) BY <1>5, <1>7 DEF Ends
<1>11. EvalSound(e) BY <1>3, <1>7, <1>8, <1>9, <1>10 DEF EvalSound
<1> QED BY <1>3, <1>7, <1>11, EvalMoves

\* Every policy has been asked: an approval before a change, a change before a yes.
LEMMA ConcludedKeeps == ASSUME PolicyInv, Concluded PROVE PolicyInv'
<1>1. PICK e : e = [ev EXCEPT !.decision = IF ev.pending THEN "require_approval"
                                           ELSE IF ev.changed THEN "transform" ELSE "allow"]
  OBVIOUS
<1>2. /\ ev.point # "none" /\ ev.decision = "none" /\ ev.at > Len(table)
      /\ ev' = e /\ UNCHANGED <<files, startup, table, mandatory, tcall>>
  BY <1>1 DEF Concluded, Evaluating
<1>3. PolicyTypes /\ EvalSound(ev) BY DEF PolicyInv
<1>4. ev \in Evaluations /\ Looked(ev) /\ Contented(ev) /\ Ends(ev) BY <1>2, <1>3 DEF PolicyTypes, EvalSound
<1>5. ev.pending \in BOOLEAN /\ ev.changed \in BOOLEAN BY <1>4 DEF Evaluations
<1>6. /\ e \in Evaluations /\ e.point = ev.point /\ e.agent = ev.agent /\ e.tool = ev.tool /\ e.first = ev.first
      /\ e.value = ev.value /\ e.at = ev.at /\ e.ran = ev.ran /\ e.failed = ev.failed /\ e.pending = ev.pending
      /\ e.changed = ev.changed
      /\ e.decision = (IF ev.pending THEN "require_approval" ELSE IF ev.changed THEN "transform" ELSE "allow")
  BY <1>1, <1>4 DEF Evaluations
<1>7. Looked(e)
  <2>1. \A q : RunsIn(e, q) = RunsIn(ev, q) BY <1>6 DEF RunsIn
  <2> QED BY <1>4, <1>6, <2>1 DEF Looked
<1>8. Contented(e)
  <2>1. \A q : ContentWith(e, q) = ContentWith(ev, q) BY <1>6 DEF ContentWith
  <2> QED BY <1>2, <1>4, <1>6, <2>1 DEF Contented
<1>9. ev.at = Len(table) + 1 BY <1>2, <1>3, <1>4 DEF Looked, PolicyTypes
<1>10. Ends(e) BY <1>4, <1>5, <1>6, <1>9 DEF Ends
<1>11. EvalSound(e) BY <1>2, <1>6, <1>7, <1>8, <1>10 DEF EvalSound
<1> QED BY <1>2, <1>6, <1>11, EvalMoves

-----------------------------------------------------------------------------

\* A step that begins an evaluation, or leaves the one there is, keeps the invariant if the call agrees with it.
LEMMA PassageMoves ==
  ASSUME PolicyInv, NEW e \in Evaluations, NEW c \in GuardedCalls, ev' = e, tcall' = c,
         UNCHANGED <<files, startup, table, mandatory>>, startup.at = "serving", EvalSound(e), PassageSound(c, e)
  PROVE  PolicyInv'
<1>1. EvalSound(ev)' /\ PassageSound(tcall, ev)' BY SoundNext
<1>2. PolicyTypes' /\ Loaded' BY BundlesStay
<1> QED BY <1>1, <1>2 DEF PolicyInv

\* A call goes on to another step.
LEMMA PassageGoes ==
  ASSUME NEW at \in {"plan", "asked", "before", "running", "after", "history", "refused"}, PolicyTypes
  PROVE  /\ [tcall EXCEPT !.at = at] \in GuardedCalls
         /\ LET c == [tcall EXCEPT !.at = at]
            IN  /\ c.at = at /\ c.agent = tcall.agent /\ c.tool = tcall.tool /\ c.args = tcall.args
                /\ c.approved = tcall.approved /\ c.ran = tcall.ran /\ c.failed = tcall.failed
<1>1. tcall \in GuardedCalls BY DEF PolicyTypes
<1>2. PICK c : c = [tcall EXCEPT !.at = at] OBVIOUS
<1>3. c \in GuardedCalls BY <1>1, <1>2 DEF GuardedCalls
<1>4. /\ c.at = at /\ c.agent = tcall.agent /\ c.tool = tcall.tool /\ c.args = tcall.args
      /\ c.approved = tcall.approved /\ c.ran = tcall.ran /\ c.failed = tcall.failed
  BY <1>1, <1>2 DEF GuardedCalls
<1> QED BY <1>2, <1>3, <1>4

\* A call that has been planned is a call of a process that serves.
LEMMA PassageIsServed ==
  ASSUME PolicyInv, tcall.at # "none" \/ ev.decision # "none" PROVE startup.at = "serving"
BY DEF PolicyInv, Loaded, NoEval, NoToolCall

\* A boundary of a run: its agent's policies and the mandatory ones.
LEMMA CheckBoundaryKeeps ==
  ASSUME PolicyInv, NEW a \in GuardedAgents, NEW v \in Payloads, NEW p \in PolicyPoints, CheckBoundary(a, p, v)
  PROVE  PolicyInv'
<1>1. /\ startup.at = "serving" /\ ev' = EvalStart(p, a, NoSelection, v) /\ tcall.at = "none"
      /\ UNCHANGED <<files, startup, table, mandatory, tcall>>
  BY DEF CheckBoundary
<1>2. PolicyTypes BY DEF PolicyInv
<1>3. v \in PolicyContents BY DEF PolicyContents
<1>4. PICK e : e = EvalStart(p, a, NoSelection, v) OBVIOUS
<1>5. e \in Evaluations /\ EvalSound(e) BY <1>2, <1>3, <1>4, StartIs
<1>6. PICK c : c = tcall OBVIOUS
<1>7. c \in GuardedCalls /\ c.at = "none" /\ PassageSound(c, e) BY <1>1, <1>2, <1>6 DEF PolicyTypes, PassageSound
<1> QED BY <1>1, <1>4, <1>5, <1>6, <1>7, PassageMoves

\* A tool call is planned: every policy is asked, whatever the agent selects.
LEMMA PlanToolKeeps ==
  ASSUME PolicyInv, NEW a \in GuardedAgents, NEW v \in Payloads, NEW t \in GuardedTools, PlanTool(a, t, v)
  PROVE  PolicyInv'
<1>1. /\ startup.at = "serving" /\ ev' = EvalStart("plan_tool", NoSelection, t, v)
      /\ tcall' = [NoToolCall EXCEPT !.at = "plan", !.agent = a, !.tool = t, !.args = v]
      /\ UNCHANGED <<files, startup, table, mandatory>>
  BY DEF PlanTool
<1>2. PolicyTypes BY DEF PolicyInv
<1>3. v \in PolicyContents BY DEF PolicyContents
<1>4. PICK e : e = EvalStart("plan_tool", NoSelection, t, v) OBVIOUS
<1>5. e \in Evaluations /\ EvalSound(e) /\ e.point = "plan_tool" /\ e.agent = NoSelection /\ e.tool = t /\ e.first = v
  BY <1>2, <1>3, <1>4, StartIs DEF PolicyPoints, ContentPoints
<1>6. PICK c : c = [NoToolCall EXCEPT !.at = "plan", !.agent = a, !.tool = t, !.args = v] OBVIOUS
<1>7. c = [at |-> "plan", agent |-> a, tool |-> t, args |-> v, approved |-> FALSE, ran |-> {}, failed |-> {}]
  BY <1>6 DEF NoToolCall
<1>8. c \in GuardedCalls BY <1>3, <1>7 DEF GuardedCalls
<1>9. PassageSound(c, e) BY <1>5, <1>7 DEF PassageSound
<1> QED BY <1>1, <1>4, <1>5, <1>6, <1>8, <1>9, PassageMoves

\* A planned call goes on to its tool only where no approval is needed, or there is one.
LEMMA PlannedKeeps == ASSUME PolicyInv, Planned PROVE PolicyInv'
<1>1. tcall.at = "plan" /\ ev.decision # "none" /\ UNCHANGED <<files, startup, table, mandatory>> BY DEF Planned
<1>2. PolicyTypes /\ EvalSound(ev) /\ PassageSound(tcall, ev) BY DEF PolicyInv
<1>3. startup.at = "serving" BY <1>1, PassageIsServed
<1>4. ev \in Evaluations /\ tcall \in GuardedCalls BY <1>2 DEF PolicyTypes
<1>5. ev.point = "plan_tool" /\ ev.agent = NoSelection /\ ev.tool = tcall.tool /\ ev.first = tcall.args
  BY <1>1, <1>2 DEF PassageSound
<1>6. Looked(ev) /\ Contented(ev) /\ Ends(ev) BY <1>2, <1>5 DEF EvalSound
<1>7. CASE ev.decision = "deny"
  <2>1. PICK c : c = [tcall EXCEPT !.at = "refused"] OBVIOUS
  <2>2. tcall' = c /\ UNCHANGED ev BY <1>1, <1>7, <2>1 DEF Planned
  <2>3. c \in GuardedCalls /\ c.at = "refused" BY <1>2, <2>1, PassageGoes
  <2>4. PICK e : e = ev OBVIOUS
  <2>5. PassageSound(c, e) BY <2>3 DEF PassageSound
  <2> QED BY <1>1, <1>2, <1>3, <1>4, <2>2, <2>3, <2>4, <2>5, PassageMoves
<1>8. CASE ev.decision = "require_approval" /\ ~tcall.approved
  <2>1. PICK c : c = [tcall EXCEPT !.at = "asked"] OBVIOUS
  <2>2. tcall' = c /\ UNCHANGED ev BY <1>1, <1>8, <2>1 DEF Planned
  <2>3. c \in GuardedCalls /\ c.at = "asked" /\ c.tool = tcall.tool /\ c.args = tcall.args BY <1>2, <2>1, PassageGoes
  <2>4. PICK e : e = ev OBVIOUS
  <2>5. PassageSound(c, e) BY <1>5, <2>3, <2>4 DEF PassageSound
  <2> QED BY <1>1, <1>2, <1>3, <1>4, <2>2, <2>3, <2>4, <2>5, PassageMoves
<1>9. CASE ev.decision # "deny" /\ ~(ev.decision = "require_approval" /\ ~tcall.approved)
  <2>1. ToBeforeTool BY <1>9 DEF Planned
  <2>2. PICK c : c = [tcall EXCEPT !.at = "before"] OBVIOUS
  <2>3. PICK e : e = EvalStart("before_tool", tcall.agent, tcall.tool, tcall.args) OBVIOUS
  <2>4. tcall' = c /\ ev' = e BY <2>1, <2>2, <2>3 DEF ToBeforeTool
  <2>5. /\ c \in GuardedCalls /\ c.at = "before" /\ c.agent = tcall.agent /\ c.tool = tcall.tool /\ c.args = tcall.args
        /\ c.approved = tcall.approved
    BY <1>2, <2>2, PassageGoes
  <2>6. tcall.agent \in GuardedAgents \cup {NoSelection} /\ tcall.tool \in GuardedTools \cup {NoSelection} /\ tcall.args \in PolicyContents
    BY <1>4 DEF GuardedCalls
  <2>7. /\ e \in Evaluations /\ EvalSound(e) /\ e.point = "before_tool" /\ e.agent = tcall.agent
        /\ e.tool = tcall.tool /\ e.first = tcall.args
    <3>1. "before_tool" \in PolicyPoints BY DEF PolicyPoints, ContentPoints
    <3> QED BY <1>2, <2>3, <2>6, <3>1, StartIs
  <2>8. MayWrite(c)
    <3> SUFFICES ASSUME c.tool.writes, ~c.approved PROVE "plan_tool" \in OpenPoints BY DEF MayWrite
    <3>1. ev.decision \in {"allow", "transform"} BY <1>1, <1>4, <1>9, <2>5 DEF Evaluations
    <3>2. ev.at = Len(table) + 1 /\ ~ev.pending BY <1>6, <3>1 DEF Ends
    <3>3. 6 \in 1..ev.at - 1 /\ 6 \in DOMAIN table /\ table[6] = "side_effects" BY <1>2, <3>2 DEF PolicyTypes
    <3>4. RunsIn(ev, table[6])
      <4>1. table[6] \in SelectedPolicies(ev.agent, ev.point) BY <1>5, <3>3 DEF SelectedPolicies
      <4>2. ev.point \in AppliesTo("side_effects") BY <1>5 DEF AppliesTo
      <4> QED BY <4>1, <4>2, <3>3 DEF RunsIn
    <3>5. table[6] \in ev.ran \cup ev.failed BY <1>6, <3>3, <3>4 DEF Looked
    <3>6. table[6] \notin ev.ran
      <4>1. Verdict("side_effects", ev.point, ev.tool, ev.value) = [action |-> "require_approval", value |-> ev.value]
        BY <1>5, <2>5 DEF Verdict, SideEffects, Decision
      <4>2. ~ContentWith(ev, "side_effects") BY <4>1, <3>2 DEF ContentWith
      <4> QED BY <4>2, <3>1, <3>3, <1>6 DEF Contented
    <3> QED BY <3>1, <3>5, <3>6, <1>5, <1>6 DEF Contented
  <2>9. PassageSound(c, e) BY <2>5, <2>7, <2>8 DEF PassageSound
  <2> QED BY <1>1, <1>3, <2>4, <2>5, <2>7, <2>9, PassageMoves
<1> QED BY <1>7, <1>8, <1>9

\* An answer sends the call back to its plan, or ends it.
LEMMA AnsweredKeeps == ASSUME PolicyInv, NEW yes \in BOOLEAN, Answered(yes) PROVE PolicyInv'
<1>1. tcall.at = "asked" /\ UNCHANGED <<files, startup, table, mandatory>> BY DEF Answered
<1>2. PolicyTypes /\ EvalSound(ev) /\ PassageSound(tcall, ev) BY DEF PolicyInv
<1>3. startup.at = "serving" BY <1>1, PassageIsServed
<1>4. ev \in Evaluations /\ tcall \in GuardedCalls BY <1>2 DEF PolicyTypes
<1>5. CASE yes
  <2>1. PICK c : c = [tcall EXCEPT !.at = "plan", !.approved = TRUE] OBVIOUS
  <2>2. PICK e : e = EvalStart("plan_tool", NoSelection, tcall.tool, tcall.args) OBVIOUS
  <2>3. tcall' = c /\ ev' = e BY <1>5, <2>1, <2>2 DEF Answered
  <2>4. c \in GuardedCalls /\ c.at = "plan" /\ c.tool = tcall.tool /\ c.args = tcall.args BY <1>4, <2>1 DEF GuardedCalls
  <2>5. tcall.tool \in GuardedTools \cup {NoSelection} /\ tcall.args \in PolicyContents BY <1>4 DEF GuardedCalls
  <2>6. e \in Evaluations /\ EvalSound(e) /\ e.point = "plan_tool" /\ e.agent = NoSelection
        /\ e.tool = tcall.tool /\ e.first = tcall.args
    BY <1>2, <2>2, <2>5, StartIs DEF PolicyPoints, ContentPoints
  <2>7. PassageSound(c, e) BY <2>4, <2>6 DEF PassageSound
  <2> QED BY <1>1, <1>3, <2>3, <2>4, <2>6, <2>7, PassageMoves
<1>6. CASE ~yes
  <2>1. PICK c : c = [tcall EXCEPT !.at = "refused", !.approved = FALSE] OBVIOUS
  <2>2. tcall' = c /\ UNCHANGED ev BY <1>6, <2>1 DEF Answered
  <2>3. c \in GuardedCalls /\ c.at = "refused" BY <1>4, <2>1 DEF GuardedCalls
  <2>4. PICK e : e = ev OBVIOUS
  <2>5. PassageSound(c, e) BY <2>3 DEF PassageSound
  <2> QED BY <1>1, <1>2, <1>3, <1>4, <2>2, <2>3, <2>4, <2>5, PassageMoves
<1> QED BY <1>5, <1>6

\* The executor runs a call only on a yes: every mandatory policy has looked, and none has changed the arguments.
LEMMA BeforeToolKeeps == ASSUME PolicyInv, BeforeTool PROVE PolicyInv'
<1>1. tcall.at = "before" /\ ev.decision # "none" /\ UNCHANGED <<files, startup, table, mandatory, ev>> BY DEF BeforeTool
<1>2. PolicyTypes /\ EvalSound(ev) /\ PassageSound(tcall, ev) BY DEF PolicyInv
<1>3. startup.at = "serving" BY <1>1, PassageIsServed
<1>4. ev \in Evaluations /\ tcall \in GuardedCalls BY <1>2 DEF PolicyTypes
<1>5. ev.point = "before_tool" /\ ev.agent = tcall.agent /\ ev.tool = tcall.tool /\ ev.first = tcall.args
  BY <1>1, <1>2 DEF PassageSound
<1>6. Looked(ev) /\ Contented(ev) /\ Ends(ev) BY <1>2, <1>5 DEF EvalSound
<1>7. PICK e : e = ev OBVIOUS
<1>8. CASE ev.decision = "allow"
  <2>1. PICK c : c = [tcall EXCEPT !.at = "running", !.ran = ev.ran, !.failed = ev.failed] OBVIOUS
  <2>2. tcall' = c BY <1>8, <2>1 DEF BeforeTool, MayRun
  <2>3. ev.ran \in SUBSET PolicyNames /\ ev.failed \in SUBSET PolicyNames BY <1>4 DEF Evaluations
  <2>4. c \in GuardedCalls BY <1>4, <2>1, <2>3 DEF GuardedCalls
  <2>5. /\ c.at = "running" /\ c.tool = tcall.tool /\ c.args = tcall.args /\ c.approved = tcall.approved
        /\ c.ran = ev.ran /\ c.failed = ev.failed
    BY <1>4, <2>1 DEF GuardedCalls
  <2>6. ev.at = Len(table) + 1 /\ ~ev.pending /\ ev.value = ev.first BY <1>6, <1>8 DEF Ends
  <2>7. ASSUME NEW p \in mandatory, "before_tool" \in AppliesTo(p)
        PROVE  p \in c.ran \/ (p \in c.failed /\ "before_tool" \in OpenPoints)
    <3>1. p \in {table[i] : i \in DOMAIN table} BY <1>2 DEF PolicyTypes
    <3>2. PICK i \in DOMAIN table : p = table[i] BY <3>1
    <3>3. p \in SelectedPolicies(ev.agent, ev.point) BY <3>1 DEF SelectedPolicies
    <3>4. RunsIn(ev, p) BY <3>3, <2>7, <1>5 DEF RunsIn
    <3>5. i \in 1..ev.at - 1 BY <2>6, <3>2, <1>2 DEF PolicyTypes
    <3>6. p \in ev.ran \cup ev.failed BY <1>6, <3>2, <3>4, <3>5 DEF Looked
    <3>7. ev.failed # {} => "before_tool" \in OpenPoints BY <1>5, <1>6, <1>8 DEF Contented
    <3> QED BY <3>6, <3>7, <2>5
  <2>8. ASSUME NEW p \in c.ran PROVE Verdict(p, "before_tool", c.tool, c.args).action = "allow"
    <3>1. ContentWith(ev, p) BY <1>6, <1>8, <2>5 DEF Contented
    <3>2. Verdict(p, ev.point, ev.tool, ev.value).action = "allow" BY <3>1, <2>6 DEF ContentWith
    <3> QED BY <3>2, <1>5, <2>5, <2>6
  <2>9. MayWrite(c) BY <1>1, <1>2, <2>5 DEF PassageSound, MayWrite
  <2>10. PassageSound(c, e) BY <2>5, <2>7, <2>8, <2>9 DEF PassageSound
  <2> QED BY <1>1, <1>2, <1>3, <1>4, <1>7, <2>2, <2>4, <2>10, PassageMoves
<1>9. CASE ev.decision # "allow"
  <2>1. PICK c : c = [tcall EXCEPT !.at = "refused"] OBVIOUS
  <2>2. tcall' = c BY <1>9, <2>1 DEF BeforeTool, MayRun
  <2>3. c \in GuardedCalls /\ c.at = "refused" BY <1>2, <2>1, PassageGoes
  <2>4. PassageSound(c, e) BY <2>3 DEF PassageSound
  <2> QED BY <1>1, <1>2, <1>3, <1>4, <1>7, <2>2, <2>3, <2>4, PassageMoves
<1> QED BY <1>8, <1>9

\* The result of a tool is a boundary of its own.
LEMMA ToolReturnsKeeps == ASSUME PolicyInv, NEW v \in Payloads, ToolReturns(v) PROVE PolicyInv'
<1>1. tcall.at = "running" /\ UNCHANGED <<files, startup, table, mandatory>> BY DEF ToolReturns
<1>2. PolicyTypes BY DEF PolicyInv
<1>3. startup.at = "serving" BY <1>1, PassageIsServed
<1>4. PICK c : c = [tcall EXCEPT !.at = "after"] OBVIOUS
<1>5. PICK e : e = EvalStart("after_tool", tcall.agent, tcall.tool, v) OBVIOUS
<1>6. tcall' = c /\ ev' = e BY <1>4, <1>5 DEF ToolReturns
<1>7. c \in GuardedCalls /\ c.at = "after" BY <1>2, <1>4, PassageGoes
<1>8. tcall.agent \in GuardedAgents \cup {NoSelection} /\ tcall.tool \in GuardedTools \cup {NoSelection} /\ v \in PolicyContents
  BY <1>2 DEF PolicyTypes, GuardedCalls, PolicyContents
<1>9. "after_tool" \in PolicyPoints BY DEF PolicyPoints, ContentPoints
<1>10. e \in Evaluations /\ EvalSound(e) BY <1>2, <1>5, <1>8, <1>9, StartIs
<1>11. PassageSound(c, e) BY <1>7 DEF PassageSound
<1> QED BY <1>1, <1>3, <1>6, <1>7, <1>10, <1>11, PassageMoves

\* What the policies made of a result goes into the history.
LEMMA AfterToolKeeps == ASSUME PolicyInv, AfterTool PROVE PolicyInv'
<1>1. tcall.at = "after" /\ UNCHANGED <<files, startup, table, mandatory>> BY DEF AfterTool
<1>2. PolicyTypes /\ EvalSound(ev) BY DEF PolicyInv
<1>3. startup.at = "serving" BY <1>1, PassageIsServed
<1>4. CASE ev.decision \in {"allow", "transform"}
  <2>1. PICK c : c = [tcall EXCEPT !.at = "history"] OBVIOUS
  <2>2. PICK e : e = EvalStart("before_model", tcall.agent, tcall.tool, ev.value) OBVIOUS
  <2>3. tcall' = c /\ ev' = e BY <1>4, <2>1, <2>2 DEF AfterTool
  <2>4. c \in GuardedCalls /\ c.at = "history" BY <1>2, <2>1, PassageGoes
  <2>5. tcall.agent \in GuardedAgents \cup {NoSelection} /\ tcall.tool \in GuardedTools \cup {NoSelection}
    BY <1>2 DEF PolicyTypes, GuardedCalls
  <2>6. ev.value \in PolicyContents BY <1>2 DEF PolicyTypes, Evaluations
  <2>7. "before_model" \in PolicyPoints BY DEF PolicyPoints, ContentPoints
  <2>8. e \in Evaluations /\ EvalSound(e) BY <1>2, <2>2, <2>5, <2>6, <2>7, StartIs
  <2>9. PassageSound(c, e) BY <2>4 DEF PassageSound
  <2> QED BY <1>1, <1>3, <2>3, <2>4, <2>8, <2>9, PassageMoves
<1>5. CASE ev.decision \notin {"allow", "transform"}
  <2>1. PICK c : c = [tcall EXCEPT !.at = "refused"] OBVIOUS
  <2>2. PICK e : e = ev OBVIOUS
  <2>3. tcall' = c /\ ev' = e BY <1>5, <2>1, <2>2 DEF AfterTool
  <2>4. c \in GuardedCalls /\ c.at = "refused" BY <1>2, <2>1, PassageGoes
  <2>5. PassageSound(c, e) BY <2>4 DEF PassageSound
  <2>6. e \in Evaluations /\ EvalSound(e) BY <1>2, <2>2 DEF PolicyTypes
  <2> QED BY <1>1, <1>3, <2>3, <2>4, <2>5, <2>6, PassageMoves
<1> QED BY <1>4, <1>5

\* The boundary is passed, or the call is over.
LEMMA FinishKeepsPolicies == ASSUME PolicyInv, Finish PROVE PolicyInv'
<1>1. ev' = NoEval /\ tcall' = NoToolCall /\ ev.decision # "none" /\ UNCHANGED <<files, startup, table, mandatory>>
  BY DEF Finish
<1>2. startup.at = "serving" BY <1>1, PassageIsServed
<1>3. PICK e : e = NoEval OBVIOUS
<1>4. PICK c : c = NoToolCall OBVIOUS
<1>5. e \in Evaluations BY <1>3 DEF NoEval, Evaluations, PolicyContents
<1>6. c \in GuardedCalls BY <1>4 DEF NoToolCall, GuardedCalls, PolicyContents
<1>7. EvalSound(e) BY <1>3 DEF NoEval, EvalSound
<1>8. PassageSound(c, e) BY <1>4 DEF NoToolCall, PassageSound
<1> QED BY <1>1, <1>2, <1>3, <1>4, <1>5, <1>6, <1>7, <1>8, PassageMoves

\* The engine, its bundles and the boundaries of a tool call: every step keeps the invariant.
LEMMA PolicyInvKept == ASSUME PolicyInv, [PolicyNext]_policyVars PROVE PolicyInv'
<1>1. CASE UNCHANGED policyVars
  <2>1. UNCHANGED <<files, startup, table, mandatory>> /\ UNCHANGED ev /\ UNCHANGED tcall BY <1>1 DEF policyVars
  <2>2. PolicyTypes /\ Loaded /\ EvalSound(ev) /\ PassageSound(tcall, ev) BY DEF PolicyInv
  <2>3. PICK e : e = ev OBVIOUS
  <2>4. PICK c : c = tcall OBVIOUS
  <2>5. EvalSound(ev)' /\ PassageSound(tcall, ev)' BY <2>1, <2>2, <2>3, <2>4, SoundNext
  <2>6. PolicyTypes' BY <2>1, <2>2 DEF PolicyTypes
  <2>7. Loaded' BY <2>1, <2>2 DEF Loaded
  <2> QED BY <2>5, <2>6, <2>7 DEF PolicyInv
<1>2. CASE PolicyNext
  BY <1>2, LoadBundleKeeps, ServeKeeps, PassedOverKeeps, DecidedKeeps, PolicyFailsKeeps, ConcludedKeeps,
     CheckBoundaryKeeps, PlanToolKeeps, PlannedKeeps, BeforeToolKeeps, AfterToolKeeps, FinishKeepsPolicies,
     AnsweredKeeps, ToolReturnsKeeps
  DEF PolicyNext
<1> QED BY <1>1, <1>2

\* What the invariant says of the boundaries.
LEMMA PolicyInvSafe == ASSUME PolicyInv PROVE PolicySafe
<1>1. PolicyTypes /\ Loaded /\ EvalSound(ev) /\ PassageSound(tcall, ev) BY DEF PolicyInv
<1>2. PolicyTypeOK
  <2>1. Len(files) \in Nat
    <3>1. files \in Seq({files[i] : i \in DOMAIN files}) BY <1>1, GateAssumption DEF PolicyTypes
    <3> QED BY <3>1
  <2>2. startup.at \in {"loading", "serving", "stopped"} /\ startup.loaded \in 0..Len(files)
    BY <1>1, <2>1 DEF PolicyTypes
  <2>3. ev.point \in PolicyPoints \cup {"none"} /\ ev.at \in Nat
        /\ ev.decision \in {"none", "allow", "deny", "transform", "require_approval"}
    BY <1>1 DEF PolicyTypes, Evaluations
  <2>4. Len(table) \in Nat BY <1>1 DEF PolicyTypes
  <2>5. ev.at \in 0..Len(table) + 1 BY <1>1, <2>3, <2>4 DEF EvalSound, Looked
  <2> QED BY <1>1, <2>2, <2>3, <2>5 DEF PolicyTypeOK, PolicyTypes
<1>3. ASSUME ev.decision \in {"allow", "transform", "require_approval"}, NEW i \in DOMAIN table,
             Runs(table[i]), table[i] \notin ev.failed
      PROVE  Verdict(table[i], ev.point, ev.tool, ev.value).action \in {"allow", "require_approval"}
  <2>1. Looked(ev) /\ Contented(ev) /\ Ends(ev) BY <1>1, <1>3 DEF EvalSound
  <2>2. i \in 1..ev.at - 1 BY <1>1, <1>3, <2>1 DEF Ends, PolicyTypes
  <2>3. RunsIn(ev, table[i]) BY <1>3 DEF Runs, RunsIn
  <2>4. table[i] \in ev.ran BY <1>3, <2>1, <2>2, <2>3 DEF Looked
  <2> QED BY <1>3, <2>1, <2>4 DEF Contented, ContentWith
<1>4. DenialBeforeApproval BY <1>3 DEF DenialBeforeApproval
<1>5. RedactionsKept BY <1>3 DEF RedactionsKept
<1>6. MandatoryRan BY <1>1 DEF PassageSound, MandatoryRan
<1>7. ArgumentsClean BY <1>1 DEF PassageSound, MayWrite, ArgumentsClean
<1>8. BundlesInForce
  <2>1. ASSUME startup.at = "serving", NEW i \in DOMAIN files PROVE files[i].name \in mandatory /\ files[i].signer \in BundleSigners
    <3>1. files \in Seq({files[j] : j \in DOMAIN files}) BY <1>1, GateAssumption DEF PolicyTypes
    <3> QED BY <2>1, <3>1, <1>1 DEF Loaded
  <2> QED BY <2>1, Zenon DEF BundlesInForce, BundleSigners
<1> QED BY <1>2, <1>4, <1>5, <1>6, <1>7, <1>8 DEF PolicySafe

-----------------------------------------------------------------------------
(* Approvals.  The inductive invariant: a verdict is written only over a   *)
(* pending request; a reader that is not through has been shown, or has    *)
(* still before it, every request it is owed.                              *)

Requests == [status : ApprovalStatus, expires : Nat, modified : BOOLEAN]
Deciders == [at : {"idle", "saving", "over"}, id : Nat, seen : Verdicts \cup {"none", "expired"},
             answer : {"none", "decided", "conflict", "refused"}]
Readings == [at : {"idle", "reading", "over"}, offset : Nat, told : SUBSET (Nat \X ApprovalStatus), owed : SUBSET Nat]
ApprovalTypes ==
  /\ durable \in BOOLEAN /\ apClock \in Nat /\ requests \in Seq(Requests)
  /\ approver \in [Approvers -> Deciders] /\ listing \in [Listings -> Readings]

DecisionSound(a) ==
  /\ approver[a].at = "saving" =>
       durable /\ approver[a].id \in DOMAIN requests /\ approver[a].seen \in Verdicts \cup {"expired"}
       /\ approver[a].answer = "none"
  /\ approver[a].answer = "decided" =>
       /\ approver[a].id \in DOMAIN requests /\ approver[a].seen \in Verdicts
       /\ requests[approver[a].id].status = approver[a].seen
DecisionsSound ==
  /\ \A a \in Approvers : DecisionSound(a)
  /\ \A a, b \in Approvers : a # b /\ approver[a].answer = "decided" /\ approver[b].answer = "decided"
       => approver[a].id # approver[b].id

ToldOf(l, i) == \E t \in listing[l].told : t[1] = i
ToldTrue(t) ==
  /\ t[1] \in DOMAIN requests
  /\ t[2] # "pending" => \/ requests[t[1]].status = t[2]
                         \/ t[2] = "expired" /\ (durable \/ (requests[t[1]].status = "pending" /\ PastExpiry(t[1])))
ListingSound(l) ==
  /\ listing[l].owed \subseteq DOMAIN requests
  /\ listing[l].at = "idle" => listing[l].offset = 0 /\ listing[l].owed = {}
  /\ \A i \in listing[l].owed :
       ToldOf(l, i) \/ (listing[l].at # "over" /\ i + listing[l].offset <= Len(requests))
  /\ \A t \in listing[l].told : ToldTrue(t)
ApprovalInv == ApprovalTypes /\ DecisionsSound /\ \A l \in Listings : ListingSound(l)

\* No request, no decision and no reader has begun.
LEMMA ApprovalInitInv == ASSUME ApprovalInit PROVE ApprovalInv
<1>1. durable \in BOOLEAN /\ apClock = 1 /\ requests = <<>>
      /\ approver = [a \in Approvers |-> NoDecision] /\ listing = [l \in Listings |-> NoListing]
  BY DEF ApprovalInit
<1>2. NoDecision \in Deciders /\ NoDecision.at = "idle" /\ NoDecision.answer = "none" BY DEF NoDecision, Deciders
<1>3. NoListing \in Readings BY DEF NoListing, Readings
<1>4. NoListing.at = "idle" /\ NoListing.offset = 0 /\ NoListing.owed = {} /\ NoListing.told = {} BY DEF NoListing
<1>5. ApprovalTypes BY <1>1, <1>2, <1>3 DEF ApprovalTypes
<1>6. DecisionsSound BY <1>1, <1>2 DEF DecisionsSound, DecisionSound
<1>7. \A l \in Listings : ListingSound(l) BY <1>1, <1>4 DEF ListingSound
<1> QED BY <1>5, <1>6, <1>7 DEF ApprovalInv

\* What a step may do to the requests: add, and settle a pending one, as expired where its time is over.
RequestsKeep ==
  /\ requests' \in Seq(Requests) /\ Len(requests) <= Len(requests')
  /\ durable' = durable /\ apClock' \in Nat /\ apClock <= apClock'
  /\ \A i \in DOMAIN requests :
       /\ requests'[i].expires = requests[i].expires
       /\ requests[i].status # "pending" => requests'[i].status = requests[i].status
       /\ ~durable /\ PastExpiry(i) => requests'[i].status \in {requests[i].status, "expired"}

\* Requests are never taken out of the list.
LEMMA DomainGrows == ASSUME ApprovalTypes, RequestsKeep PROVE DOMAIN requests \subseteq DOMAIN requests'
BY DEF ApprovalTypes, RequestsKeep

\* What a reader was told stays true when requests are added and settled.
LEMMA ToldStays == ASSUME ApprovalTypes, RequestsKeep, NEW t, ToldTrue(t) PROVE ToldTrue(t)'
<1>1. t[1] \in DOMAIN requests /\ t[1] \in DOMAIN requests' BY DomainGrows DEF ToldTrue
<1>2. PICK i : i = t[1] OBVIOUS
<1>3. PICK s : s = t[2] OBVIOUS
<1>4. requests[i] \in Requests /\ requests'[i] \in Requests BY <1>1, <1>2 DEF ApprovalTypes, RequestsKeep
<1>5. s # "pending" => requests[i].status = s \/ (s = "expired" /\ (durable \/ (requests[i].status = "pending" /\ PastExpiry(i))))
  BY <1>2, <1>3 DEF ToldTrue
<1>6. /\ durable' = durable /\ requests'[i].expires = requests[i].expires
      /\ requests[i].status # "pending" => requests'[i].status = requests[i].status
      /\ ~durable /\ PastExpiry(i) => requests'[i].status \in {requests[i].status, "expired"}
  BY <1>1, <1>2 DEF RequestsKeep
<1>7. PastExpiry(i) => requests'[i].expires <= apClock'
  <2>1. requests[i].expires \in Nat /\ apClock \in Nat /\ apClock' \in Nat /\ apClock <= apClock'
    BY <1>4 DEF Requests, ApprovalTypes, RequestsKeep
  <2> QED BY <2>1, <1>6 DEF PastExpiry
<1>8. s # "pending" => requests'[i].status = s
                       \/ (s = "expired" /\ (durable' \/ (requests'[i].status = "pending" /\ requests'[i].expires <= apClock')))
  BY <1>5, <1>6, <1>7
<1> QED BY <1>1, <1>2, <1>3, <1>8 DEF ToldTrue, PastExpiry

\* Readers that do not move are still owed, and told, what they were.
LEMMA ReadersStay ==
  ASSUME ApprovalTypes, RequestsKeep, listing' = listing, \A l \in Listings : ListingSound(l)
  PROVE  \A l \in Listings : ListingSound(l)'
<1> SUFFICES ASSUME NEW l \in Listings PROVE ListingSound(l)' OBVIOUS
<1>1. ListingSound(l) OBVIOUS
<1>2. DOMAIN requests \subseteq DOMAIN requests' BY DomainGrows
<1>3. Len(requests) \in Nat /\ Len(requests') \in Nat /\ Len(requests) <= Len(requests') BY DEF ApprovalTypes, RequestsKeep
<1>4. listing[l] \in Readings BY DEF ApprovalTypes
<1>5. \A i \in listing[l].owed : ToldOf(l, i)' \/ (listing[l].at # "over" /\ i + listing[l].offset <= Len(requests'))
  <2> SUFFICES ASSUME NEW i \in listing[l].owed
               PROVE  ToldOf(l, i)' \/ (listing[l].at # "over" /\ i + listing[l].offset <= Len(requests'))
    OBVIOUS
  <2>1. i \in Nat /\ listing[l].offset \in Nat BY <1>4 DEF Readings
  <2>2. ToldOf(l, i) \/ (listing[l].at # "over" /\ i + listing[l].offset <= Len(requests)) BY <1>1 DEF ListingSound
  <2>3. ToldOf(l, i) => ToldOf(l, i)' BY DEF ToldOf
  <2> QED BY <2>1, <2>2, <2>3, <1>3
<1>6. \A t \in listing[l].told : ToldTrue(t)' BY <1>1, ToldStays DEF ListingSound
<1> QED BY <1>1, <1>2, <1>5, <1>6 DEF ListingSound

\* What a decision is after its step: read, refused, or written over a request that was pending.
LEMMA DecisionMoves ==
  ASSUME ApprovalInv, RequestsKeep, NEW a \in Approvers, NEW d \in Deciders, approver' = [approver EXCEPT ![a] = d],
         d.at = "saving" => durable /\ d.id \in DOMAIN requests /\ d.seen \in Verdicts \cup {"expired"} /\ d.answer = "none",
         d.answer = "decided" => /\ d.id \in DOMAIN requests /\ d.seen \in Verdicts
                                 /\ requests[d.id].status = "pending" /\ requests'[d.id].status = d.seen
  PROVE  approver' \in [Approvers -> Deciders] /\ DecisionsSound'
<1>1. ApprovalTypes /\ DecisionsSound BY DEF ApprovalInv
<1>2. approver' \in [Approvers -> Deciders] /\ approver'[a] = d /\ (\A b \in Approvers \ {a} : approver'[b] = approver[b])
  BY <1>1 DEF ApprovalTypes
<1>3. DOMAIN requests \subseteq DOMAIN requests' /\ durable' = durable BY <1>1, DomainGrows DEF RequestsKeep
<1>4. \A i \in DOMAIN requests : requests[i].status # "pending" => requests'[i].status = requests[i].status
  BY DEF RequestsKeep
<1>5. \A b \in Approvers : DecisionSound(b)'
  <2>1. DecisionSound(a)' BY <1>2, <1>3 DEF DecisionSound
  <2>2. ASSUME NEW b \in Approvers \ {a} PROVE DecisionSound(b)'
    <3>1. DecisionSound(b) BY <1>1 DEF DecisionsSound
    <3>2. \A x \in Verdicts : x # "pending" BY DEF Verdicts
    <3>3. approver'[b] = approver[b] BY <1>2
    <3> QED BY <3>1, <3>2, <3>3, <1>3, <1>4 DEF DecisionSound
  <2> QED BY <2>1, <2>2
<1>6. ASSUME NEW b \in Approvers \ {a}, approver[b].answer = "decided", d.answer = "decided" PROVE approver[b].id # d.id
  <2>1. requests[approver[b].id].status \in Verdicts BY <1>1, <1>6 DEF DecisionsSound, DecisionSound
  <2> QED BY <2>1, <1>6 DEF Verdicts
<1>7. ASSUME NEW x \in Approvers, NEW y \in Approvers, x # y, approver'[x].answer = "decided", approver'[y].answer = "decided"
      PROVE  approver'[x].id # approver'[y].id
  <2>1. CASE x = a BY <2>1, <1>2, <1>6, <1>7
  <2>2. CASE y = a BY <2>2, <1>2, <1>6, <1>7
  <2>3. CASE x # a /\ y # a BY <2>3, <1>1, <1>2, <1>7 DEF DecisionsSound
  <2> QED BY <2>1, <2>2, <2>3
<1>8. DecisionsSound' BY <1>5, <1>7 DEF DecisionsSound
<1> QED BY <1>2, <1>8

\* No decision moves: what the decided ones said still stands.
LEMMA DecidersStay ==
  ASSUME ApprovalInv, RequestsKeep, approver' = approver
  PROVE  approver' \in [Approvers -> Deciders] /\ DecisionsSound'
<1>1. ApprovalTypes /\ DecisionsSound BY DEF ApprovalInv
<1>2. DOMAIN requests \subseteq DOMAIN requests' /\ durable' = durable BY <1>1, DomainGrows DEF RequestsKeep
<1>3. \A i \in DOMAIN requests : requests[i].status # "pending" => requests'[i].status = requests[i].status
  BY DEF RequestsKeep
<1>4. ASSUME NEW b \in Approvers PROVE DecisionSound(b)'
  <2>1. DecisionSound(b) BY <1>1 DEF DecisionsSound
  <2>2. \A x \in Verdicts : x # "pending" BY DEF Verdicts
  <2> QED BY <2>1, <2>2, <1>2, <1>3 DEF DecisionSound
<1> QED BY <1>1, <1>4 DEF DecisionsSound, ApprovalTypes

\* A step that leaves the readers alone.
LEMMA ApprovalMoves ==
  ASSUME ApprovalInv, RequestsKeep, listing' = listing, approver' \in [Approvers -> Deciders], DecisionsSound'
  PROVE  ApprovalInv'
<1>1. ApprovalTypes /\ (\A l \in Listings : ListingSound(l)) BY DEF ApprovalInv
<1>2. \A l \in Listings : ListingSound(l)' BY <1>1, ReadersStay
<1>3. ApprovalTypes' BY <1>1 DEF ApprovalTypes, RequestsKeep
<1> QED BY <1>2, <1>3 DEF ApprovalInv

-----------------------------------------------------------------------------

\* A new request is at the end of the list, which is the first page.
LEMMA CreateApprovalKeeps == ASSUME ApprovalInv, CreateApproval PROVE ApprovalInv'
<1>1. requests' = Append(requests, NewApproval) /\ UNCHANGED <<durable, apClock, approver, listing>> BY DEF CreateApproval
<1>2. ApprovalTypes BY DEF ApprovalInv
<1>3. NewApproval \in Requests
  <2>1. apClock + ApprovalLife \in Nat BY <1>2, ApprovalConstants DEF ApprovalTypes
  <2> QED BY <2>1 DEF NewApproval, Requests, ApprovalStatus
<1>4. /\ requests' \in Seq(Requests) /\ Len(requests') = Len(requests) + 1
      /\ \A i \in DOMAIN requests : requests'[i] = requests[i]
  BY <1>1, <1>2, <1>3 DEF ApprovalTypes
<1>5. RequestsKeep BY <1>1, <1>2, <1>4 DEF RequestsKeep, ApprovalTypes
<1> QED BY <1>1, <1>5, DecidersStay, ApprovalMoves

\* Time passes: a request past its expiry stays past it.
LEMMA ApprovalTickKeeps == ASSUME ApprovalInv, ApprovalTick PROVE ApprovalInv'
<1>1. apClock' = apClock + 1 /\ UNCHANGED <<durable, requests, approver, listing>> BY DEF ApprovalTick
<1>2. ApprovalTypes BY DEF ApprovalInv
<1>3. RequestsKeep BY <1>1, <1>2 DEF RequestsKeep, ApprovalTypes
<1> QED BY <1>1, <1>3, DecidersStay, ApprovalMoves

\* A step that leaves the requests and the clock alone.
LEMMA NothingMoves == ASSUME ApprovalInv, UNCHANGED <<durable, apClock, requests>> PROVE RequestsKeep
BY DEF ApprovalInv, ApprovalTypes, RequestsKeep

\* A pending request is settled, as expired where its time is over and the service is not PostgreSQL.
LEMMA SetStatusKeeps ==
  ASSUME ApprovalInv, NEW i \in DOMAIN requests, NEW verdict \in ApprovalStatus, SetStatus(i, verdict),
         UNCHANGED <<durable, apClock>>, requests[i].status = "pending",
         ~durable /\ PastExpiry(i) => verdict = "expired"
  PROVE  RequestsKeep /\ requests'[i].status = verdict
<1>1. ApprovalTypes BY DEF ApprovalInv
<1>2. requests[i] \in Requests /\ requests \in Seq(Requests) BY <1>1 DEF ApprovalTypes
<1>3. PICK modified \in BOOLEAN : modified = (verdict = "modified") OBVIOUS
<1>4. PICK r : r = [requests[i] EXCEPT !.status = verdict, !.modified = modified] OBVIOUS
<1>5. r \in Requests /\ r.status = verdict /\ r.expires = requests[i].expires BY <1>2, <1>4 DEF Requests
<1>6. requests' = [requests EXCEPT ![i] = r] BY <1>3, <1>4 DEF SetStatus
<1>7. /\ requests' \in Seq(Requests) /\ Len(requests') = Len(requests) /\ requests'[i] = r
      /\ \A j \in DOMAIN requests \ {i} : requests'[j] = requests[j]
  BY <1>2, <1>5, <1>6
<1>8. \A j \in DOMAIN requests :
        /\ requests'[j].expires = requests[j].expires
        /\ requests[j].status # "pending" => requests'[j].status = requests[j].status
        /\ ~durable /\ PastExpiry(j) => requests'[j].status \in {requests[j].status, "expired"}
  BY <1>5, <1>7
<1> QED BY <1>1, <1>5, <1>7, <1>8 DEF RequestsKeep, ApprovalTypes

\* A decision concludes with an answer that is not "decided".
LEMMA ConcludeIs ==
  ASSUME ApprovalInv, NEW a \in Approvers, NEW answer \in {"decided", "conflict", "refused"}, Conclude(a, answer)
  PROVE  \E d \in Deciders : /\ approver' = [approver EXCEPT ![a] = d] /\ d.at = "over" /\ d.answer = answer
                             /\ d.id = approver[a].id /\ d.seen = approver[a].seen
<1>1. approver[a] \in Deciders /\ approver \in [Approvers -> Deciders] BY DEF ApprovalInv, ApprovalTypes
<1>2. PICK d : d = [approver[a] EXCEPT !.at = "over", !.answer = answer] OBVIOUS
<1>3. d \in Deciders /\ d.at = "over" /\ d.answer = answer /\ d.id = approver[a].id /\ d.seen = approver[a].seen
  BY <1>1, <1>2 DEF Deciders
<1>4. approver' = [approver EXCEPT ![a] = d] BY <1>1, <1>2 DEF Conclude
<1> QED BY <1>3, <1>4

\* A decision that is not taken.
LEMMA NotTaken ==
  ASSUME ApprovalInv, RequestsKeep, listing' = listing, NEW a \in Approvers, NEW answer \in {"conflict", "refused"},
         Conclude(a, answer)
  PROVE  ApprovalInv'
<1>1. PICK d \in Deciders : approver' = [approver EXCEPT ![a] = d] /\ d.at = "over" /\ d.answer = answer
  BY ConcludeIs
<1>2. approver' \in [Approvers -> Deciders] /\ DecisionsSound' BY <1>1, DecisionMoves
<1> QED BY <1>2, ApprovalMoves

\* In memory.
LEMMA DecideAtOnceKeeps == ASSUME ApprovalInv, NEW a \in Approvers, DecideAtOnce(a) PROVE ApprovalInv'
<1>1. ~durable /\ UNCHANGED <<durable, apClock, listing>> BY DEF DecideAtOnce
<1>2. PICK i \in DOMAIN requests, verdict \in Verdicts, parameters \in BOOLEAN :
        IF requests[i].status # "pending" THEN Conclude(a, "conflict") /\ UNCHANGED requests
        ELSE IF PastExpiry(i) THEN SetStatus(i, "expired") /\ Conclude(a, "conflict")
        ELSE IF verdict = "modified" /\ ~parameters THEN Conclude(a, "refused") /\ UNCHANGED requests
        ELSE SetStatus(i, verdict) /\ approver' = [approver EXCEPT ![a] =
                                         [at |-> "over", id |-> i, seen |-> verdict, answer |-> "decided"]]
  BY DEF DecideAtOnce
<1>3. CASE requests[i].status # "pending" BY <1>1, <1>2, <1>3, NothingMoves, NotTaken
<1>4. CASE requests[i].status = "pending" /\ PastExpiry(i)
  <2>1. SetStatus(i, "expired") /\ Conclude(a, "conflict") BY <1>2, <1>4
  <2>2. "expired" \in ApprovalStatus BY DEF ApprovalStatus
  <2>3. RequestsKeep BY <1>1, <1>4, <2>1, <2>2, SetStatusKeeps
  <2> QED BY <1>1, <2>1, <2>3, NotTaken
<1>5. CASE requests[i].status = "pending" /\ ~PastExpiry(i) /\ verdict = "modified" /\ ~parameters
  BY <1>1, <1>2, <1>5, NothingMoves, NotTaken
<1>6. CASE requests[i].status = "pending" /\ ~PastExpiry(i) /\ ~(verdict = "modified" /\ ~parameters)
  <2>1. PICK d : d = [at |-> "over", id |-> i, seen |-> verdict, answer |-> "decided"] OBVIOUS
  <2>2. SetStatus(i, verdict) /\ approver' = [approver EXCEPT ![a] = d] BY <1>2, <1>6, <2>1
  <2>3. verdict \in ApprovalStatus BY DEF Verdicts, ApprovalStatus
  <2>4. RequestsKeep /\ requests'[i].status = verdict BY <1>1, <1>6, <2>2, <2>3, SetStatusKeeps
  <2>5. i \in Nat BY DEF ApprovalInv, ApprovalTypes
  <2>6. d \in Deciders /\ d.at = "over" /\ d.id = i /\ d.seen = verdict BY <2>1, <2>5 DEF Deciders
  <2>7. approver' \in [Approvers -> Deciders] /\ DecisionsSound' BY <1>6, <2>2, <2>4, <2>6, DecisionMoves
  <2> QED BY <1>1, <2>4, <2>7, ApprovalMoves
<1> QED BY <1>3, <1>4, <1>5, <1>6

\* PostgreSQL: the row is read and judged.
LEMMA ReadApprovalKeeps == ASSUME ApprovalInv, NEW a \in Approvers, ReadApproval(a) PROVE ApprovalInv'
<1>1. durable /\ UNCHANGED <<durable, apClock, requests, listing>> BY DEF ReadApproval
<1>2. PICK i \in DOMAIN requests, verdict \in Verdicts, parameters \in BOOLEAN :
        approver' = [approver EXCEPT ![a] =
          IF requests[i].status # "pending" THEN [NoDecision EXCEPT !.at = "over", !.answer = "conflict"]
          ELSE IF PastExpiry(i) THEN [at |-> "saving", id |-> i, seen |-> "expired", answer |-> "none"]
          ELSE IF verdict = "modified" /\ ~parameters THEN [NoDecision EXCEPT !.at = "over", !.answer = "refused"]
          ELSE [at |-> "saving", id |-> i, seen |-> verdict, answer |-> "none"]]
  BY DEF ReadApproval
<1>3. i \in Nat BY DEF ApprovalInv, ApprovalTypes
<1>4. PICK d : d = IF requests[i].status # "pending" THEN [NoDecision EXCEPT !.at = "over", !.answer = "conflict"]
                   ELSE IF PastExpiry(i) THEN [at |-> "saving", id |-> i, seen |-> "expired", answer |-> "none"]
                   ELSE IF verdict = "modified" /\ ~parameters THEN [NoDecision EXCEPT !.at = "over", !.answer = "refused"]
                   ELSE [at |-> "saving", id |-> i, seen |-> verdict, answer |-> "none"]
  OBVIOUS
<1>5. /\ d \in Deciders /\ d.answer # "decided"
      /\ d.at = "saving" => d.id = i /\ d.seen \in Verdicts \cup {"expired"} /\ d.answer = "none"
  <2>1. ASSUME NEW x \in {"conflict", "refused"}, d = [NoDecision EXCEPT !.at = "over", !.answer = x]
        PROVE  d \in Deciders /\ d.answer = x /\ d.at = "over"
    <3>1. d = [at |-> "over", id |-> 0, seen |-> "none", answer |-> x] BY <2>1 DEF NoDecision
    <3> QED BY <3>1 DEF Deciders
  <2>2. ASSUME NEW x \in Verdicts \cup {"expired"}, d = [at |-> "saving", id |-> i, seen |-> x, answer |-> "none"]
        PROVE  d \in Deciders /\ d.id = i /\ d.seen = x /\ d.answer = "none"
    <3>1. x \in Verdicts \cup {"none", "expired"} BY <2>2
    <3> QED BY <2>2, <3>1, <1>3 DEF Deciders
  <2>3. CASE requests[i].status # "pending" BY <1>4, <2>1, <2>3
  <2>4. CASE requests[i].status = "pending" /\ PastExpiry(i) BY <1>4, <2>2, <2>4
  <2>5. CASE requests[i].status = "pending" /\ ~PastExpiry(i) /\ verdict = "modified" /\ ~parameters
    BY <1>4, <2>1, <2>5
  <2>6. CASE requests[i].status = "pending" /\ ~PastExpiry(i) /\ ~(verdict = "modified" /\ ~parameters)
    BY <1>4, <2>2, <2>6
  <2> QED BY <2>3, <2>4, <2>5, <2>6
<1>6. RequestsKeep BY <1>1, NothingMoves
<1>7. approver' = [approver EXCEPT ![a] = d] BY <1>2, <1>4
<1>8. approver' \in [Approvers -> Deciders] /\ DecisionsSound' BY <1>1, <1>5, <1>6, <1>7, DecisionMoves
<1> QED BY <1>1, <1>6, <1>8, ApprovalMoves

\* The row is written only while it is pending, so of two that read it one is answered as taken.
LEMMA SaveDecisionKeeps == ASSUME ApprovalInv, NEW a \in Approvers, SaveDecision(a) PROVE ApprovalInv'
<1>1. PICK i : i = approver[a].id OBVIOUS
<1>2. PICK verdict : verdict = approver[a].seen OBVIOUS
<1>3. /\ approver[a].at = "saving" /\ UNCHANGED <<durable, apClock, listing>>
      /\ IF requests[i].status = "pending" THEN SetStatus(i, verdict) ELSE UNCHANGED requests
      /\ Conclude(a, IF requests[i].status = "pending" /\ verdict # "expired" THEN "decided" ELSE "conflict")
  BY <1>1, <1>2 DEF SaveDecision, SavesPending
<1>4. durable /\ i \in DOMAIN requests /\ verdict \in Verdicts \cup {"expired"}
  BY <1>1, <1>2, <1>3 DEF ApprovalInv, DecisionsSound, DecisionSound
<1>5. verdict \in ApprovalStatus BY <1>4 DEF Verdicts, ApprovalStatus
<1>6. CASE requests[i].status # "pending"
  <2>1. UNCHANGED requests /\ Conclude(a, "conflict") BY <1>3, <1>6
  <2> QED BY <1>3, <2>1, NothingMoves, NotTaken
<1>7. CASE requests[i].status = "pending" /\ verdict = "expired"
  <2>1. SetStatus(i, verdict) /\ Conclude(a, "conflict") BY <1>3, <1>7
  <2>2. RequestsKeep BY <1>3, <1>4, <1>5, <1>7, <2>1, SetStatusKeeps
  <2> QED BY <1>3, <2>1, <2>2, NotTaken
<1>8. CASE requests[i].status = "pending" /\ verdict # "expired"
  <2>1. SetStatus(i, verdict) /\ Conclude(a, "decided") BY <1>3, <1>8
  <2>2. RequestsKeep /\ requests'[i].status = verdict BY <1>3, <1>4, <1>5, <1>8, <2>1, SetStatusKeeps
  <2>3. PICK d \in Deciders : /\ approver' = [approver EXCEPT ![a] = d] /\ d.at = "over" /\ d.answer = "decided"
                              /\ d.id = approver[a].id /\ d.seen = approver[a].seen
    BY <2>1, ConcludeIs
  <2>4. d.id = i /\ d.seen = verdict /\ verdict \in Verdicts BY <1>1, <1>2, <1>4, <1>8, <2>3
  <2>5. approver' \in [Approvers -> Deciders] /\ DecisionsSound' BY <1>4, <1>8, <2>2, <2>3, <2>4, DecisionMoves
  <2> QED BY <1>3, <2>2, <2>5, ApprovalMoves
<1> QED BY <1>6, <1>7, <1>8

-----------------------------------------------------------------------------
(* A page of the list, the newest first. *)

PageOf(total, first, size) ==
  SubSeq(NewestFirst(total), first, IF first + size - 1 < total THEN first + size - 1 ELSE total)

\* A page holds the requests of its places; it is shorter than its size only where the list ends.
LEMMA PageIs ==
  ASSUME NEW total \in Nat, NEW first \in Nat \ {0}, NEW size \in Nat \ {0}
  PROVE  /\ Len(NewestFirst(total)) = total
         /\ ToSet(PageOf(total, first, size)) \subseteq 1..total
         /\ \A i \in 1..total : total + 1 - i \in first..first + size - 1 => i \in ToSet(PageOf(total, first, size))
         /\ Len(PageOf(total, first, size)) < size <=> total < first + size - 1
<1>1. PICK order : order = NewestFirst(total) OBVIOUS
<1>2. order = [i \in 1..total |-> total + 1 - i] BY <1>1 DEF NewestFirst
<1>3. order \in Seq(1..total) /\ Len(order) = total /\ (\A k \in 1..total : order[k] = total + 1 - k)
  BY <1>2
<1>4. PICK last \in Nat : last = IF first + size - 1 < total THEN first + size - 1 ELSE total OBVIOUS
<1>5. PICK shown : shown = SubSeq(order, first, last) OBVIOUS
<1>6. shown = PageOf(total, first, size) BY <1>1, <1>4, <1>5 DEF PageOf
<1>7. CASE first <= last
  <2>1. last <= total BY <1>4
  <2>2. Len(shown) = last - first + 1 /\ (\A k \in 1..last - first + 1 : shown[k] = order[first + k - 1])
        /\ DOMAIN shown = 1..last - first + 1
    BY <1>3, <1>5, <1>7, <2>1
  <2>3. \A k \in 1..last - first + 1 : shown[k] = total + 1 - (first + k - 1) BY <1>3, <2>1, <2>2
  <2>4. ToSet(shown) \subseteq 1..total
    <3>1. ASSUME NEW k \in DOMAIN shown PROVE shown[k] \in 1..total BY <2>1, <2>2, <2>3
    <3> QED BY <3>1 DEF ToSet
  <2>5. ASSUME NEW i \in 1..total, total + 1 - i \in first..first + size - 1 PROVE i \in ToSet(shown)
    <3>1. PICK k : k = total + 1 - i - first + 1 OBVIOUS
    <3>2. k \in 1..last - first + 1 BY <3>1, <2>5, <1>4
    <3>3. shown[k] = i BY <3>1, <3>2, <2>3
    <3> QED BY <3>2, <3>3, <2>2 DEF ToSet
  <2>6. Len(shown) < size <=> total < first + size - 1 BY <1>4, <1>7, <2>2
  <2> QED BY <1>1, <1>3, <1>6, <2>4, <2>5, <2>6
<1>8. CASE last < first
  <2>1. last = total BY <1>4, <1>8
  <2>2. shown = <<>> BY <1>3, <1>5, <1>8
  <2>3. ToSet(shown) = {} BY <2>2 DEF ToSet
  <2>4. ASSUME NEW i \in 1..total PROVE total + 1 - i \notin first..first + size - 1 BY <1>8, <2>1
  <2>5. Len(shown) < size /\ total < first + size - 1
    <3>1. Len(shown) = 0 BY <2>2
    <3>2. total < first BY <1>8, <2>1
    <3> QED BY <3>1, <3>2
  <2> QED BY <1>1, <1>3, <1>6, <2>3, <2>4, <2>5
<1> QED BY <1>7, <1>8

\* A reader turns a page: what is at the end of the list now is further back, never further ahead.
LEMMA ListApprovalsKeeps == ASSUME ApprovalInv, NEW l \in Listings, ListApprovals(l) PROVE ApprovalInv'
<1>1. ApprovalTypes /\ DecisionsSound /\ (\A r \in Listings : ListingSound(r)) BY DEF ApprovalInv
<1>2. PICK total \in Nat : total = Len(requests) BY <1>1 DEF ApprovalTypes
<1>3. DOMAIN requests = 1..total BY <1>1, <1>2 DEF ApprovalTypes
<1>4. listing[l] \in Readings /\ listing \in [Listings -> Readings] BY <1>1 DEF ApprovalTypes
<1>5. PICK first \in Nat \ {0} : first = listing[l].offset + 1 BY <1>4 DEF Readings
<1>6. PICK shown : shown = PageOf(total, first, PageLimit) OBVIOUS
<1>7. PICK told : told = listing[l].told \cup {<<i, Effective(i)>> : i \in ToSet(shown)} OBVIOUS
<1>8. PICK owed : owed = IF listing[l].at = "idle" THEN DOMAIN requests ELSE listing[l].owed OBVIOUS
<1>9. PICK at : at = IF Len(shown) < PageLimit THEN "over" ELSE "reading" OBVIOUS
<1>10. PICK offset : offset = listing[l].offset + PageLimit OBVIOUS
<1>11. PICK r : r = [at |-> at, offset |-> offset, told |-> told, owed |-> owed] OBVIOUS
<1>12. /\ Len(NewestFirst(total)) = total
       /\ ToSet(shown) \subseteq 1..total
       /\ \A i \in 1..total : total + 1 - i \in first..first + PageLimit - 1 => i \in ToSet(shown)
       /\ Len(shown) < PageLimit <=> total < first + PageLimit - 1
  BY <1>6, PageIs, ApprovalConstants
<1>13. /\ listing[l].at # "over" /\ listing' = [listing EXCEPT ![l] = r]
       /\ UNCHANGED <<durable, apClock, requests, approver>>
  BY <1>2, <1>5, <1>6, <1>7, <1>8, <1>9, <1>10, <1>11, <1>12 DEF ListApprovals, PageOf
<1>14. RequestsKeep BY <1>13, NothingMoves
<1>15. approver' \in [Approvers -> Deciders] /\ DecisionsSound' BY <1>13, <1>14, DecidersStay
<1>16. \A i \in 1..total : Effective(i) \in ApprovalStatus
  <2> SUFFICES ASSUME NEW i \in 1..total PROVE Effective(i) \in ApprovalStatus OBVIOUS
  <2>1. requests[i] \in Requests BY <1>1, <1>3 DEF ApprovalTypes
  <2> QED BY <2>1 DEF Effective, Requests, ApprovalStatus
<1>17. r \in Readings
  <2>1. told \in SUBSET (Nat \X ApprovalStatus)
    <3>1. \A t \in {<<i, Effective(i)>> : i \in ToSet(shown)} : t \in Nat \X ApprovalStatus BY <1>12, <1>16
    <3>2. \A t \in listing[l].told : t \in Nat \X ApprovalStatus BY <1>4 DEF Readings
    <3> QED BY <3>1, <3>2, <1>7
  <2>2. owed \in SUBSET Nat BY <1>3, <1>4, <1>8 DEF Readings
  <2>3. offset \in Nat BY <1>4, <1>10, ApprovalConstants DEF Readings
  <2>4. at \in {"reading", "over"} BY <1>9
  <2> QED BY <1>11, <2>1, <2>2, <2>3, <2>4 DEF Readings
<1>18. listing' \in [Listings -> Readings] /\ listing'[l] = r /\ (\A m \in Listings \ {l} : listing'[m] = listing[m])
  BY <1>4, <1>13, <1>17
<1>19. r.at = at /\ r.offset = offset /\ r.told = told /\ r.owed = owed BY <1>11
<1>20. ListingSound(l) BY <1>1
<1>21. ListingSound(l)'
  <2>1. owed \subseteq DOMAIN requests BY <1>8, <1>20 DEF ListingSound
  <2>2. ASSUME NEW i \in owed PROVE (\E t \in told : t[1] = i) \/ (at # "over" /\ i + offset <= total)
    <3>1. i \in 1..total BY <1>3, <2>1
    <3>2. CASE i \in ToSet(shown)
      <4>1. <<i, Effective(i)>> \in told BY <3>2, <1>7
      <4> QED BY <4>1
    <3>3. CASE \E t \in listing[l].told : t[1] = i BY <3>3, <1>7
    <3>4. CASE i \notin ToSet(shown) /\ ~\E t \in listing[l].told : t[1] = i
      <4>1. i + listing[l].offset <= total
        <5>1. CASE listing[l].at = "idle" BY <5>1, <3>1, <1>20 DEF ListingSound
        <5>2. CASE listing[l].at # "idle"
          <6>1. i \in listing[l].owed BY <5>2, <1>8
          <6> QED BY <6>1, <3>4, <1>20, <1>2 DEF ListingSound, ToldOf
        <5> QED BY <5>1, <5>2
      <4>2. listing[l].offset \in Nat /\ PageLimit \in Nat \ {0} BY <1>4, ApprovalConstants DEF Readings
      <4>3. total + 1 - i \notin first..first + PageLimit - 1 BY <3>1, <3>4, <1>12
      <4>4. i + offset <= total /\ ~(total < first + PageLimit - 1) BY <3>1, <4>1, <4>2, <4>3, <1>5, <1>10
      <4> QED BY <4>4, <1>9, <1>12
    <3> QED BY <3>2, <3>3, <3>4
  <2>3. ASSUME NEW t \in told PROVE ToldTrue(t)
    <3>1. CASE t \in listing[l].told BY <3>1, <1>20 DEF ListingSound
    <3>2. CASE t \in {<<i, Effective(i)>> : i \in ToSet(shown)}
      <4>1. PICK i \in ToSet(shown) : t = <<i, Effective(i)>> BY <3>2
      <4>2. i \in DOMAIN requests BY <4>1, <1>3, <1>12
      <4>3. t[1] = i /\ t[2] = Effective(i) BY <4>1
      <4> QED BY <4>2, <4>3 DEF ToldTrue, Effective
    <3> QED BY <2>3, <3>1, <3>2, <1>7
  <2>4. ASSUME NEW t \in told PROVE ToldTrue(t)' BY <2>3, <1>1, <1>14, ToldStays
  <2>5. at # "idle" BY <1>9
  <2>6. listing'[l].at = at /\ listing'[l].offset = offset /\ listing'[l].told = told /\ listing'[l].owed = owed
    BY <1>18, <1>19
  <2>7. DOMAIN requests' = DOMAIN requests /\ Len(requests') = total BY <1>2, <1>13
  <2>8. \A i \in owed : ToldOf(l, i)' \/ (at # "over" /\ i + offset <= total) BY <2>2, <2>6 DEF ToldOf
  <2> QED BY <2>1, <2>4, <2>5, <2>6, <2>7, <2>8 DEF ListingSound
<1>22. ASSUME NEW m \in Listings \ {l} PROVE ListingSound(m)'
  <2>1. ListingSound(m) /\ listing'[m] = listing[m] BY <1>1, <1>18
  <2>2. \A t \in listing[m].told : ToldTrue(t)' BY <2>1, <1>1, <1>14, ToldStays DEF ListingSound
  <2>3. \A i : ToldOf(m, i)' = ToldOf(m, i) BY <2>1 DEF ToldOf
  <2> QED BY <2>1, <2>2, <2>3, <1>13 DEF ListingSound
<1>23. ApprovalTypes' BY <1>1, <1>13, <1>18 DEF ApprovalTypes
<1> QED BY <1>15, <1>21, <1>22, <1>23 DEF ApprovalInv

\* Decisions in both stores, pages and the clock: every step keeps the invariant.
LEMMA ApprovalInvKept == ASSUME ApprovalInv, [ApprovalNext]_approvalVars PROVE ApprovalInv'
<1>1. CASE UNCHANGED approvalVars
  <2>1. UNCHANGED <<durable, apClock, requests, approver, listing>> BY <1>1 DEF approvalVars
  <2> QED BY <2>1, NothingMoves, DecidersStay, ApprovalMoves
<1>2. CASE ApprovalNext
  BY <1>2, CreateApprovalKeeps, DecideAtOnceKeeps, ReadApprovalKeeps, SaveDecisionKeeps, ListApprovalsKeeps, ApprovalTickKeeps
  DEF ApprovalNext
<1> QED BY <1>1, <1>2

\* What the invariant says of the verdicts and of the readers.
LEMMA ApprovalInvSafe == ASSUME ApprovalInv PROVE ApprovalSafe
<1>1. ApprovalTypes /\ DecisionsSound /\ (\A l \in Listings : ListingSound(l)) BY DEF ApprovalInv
<1>2. ApprovalTypeOK
  <2>1. ASSUME NEW i \in DOMAIN requests PROVE requests[i].status \in ApprovalStatus
    <3>1. requests[i] \in Requests BY <1>1 DEF ApprovalTypes
    <3> QED BY <3>1 DEF Requests
  <2>2. \A a \in Approvers : approver[a].answer \in {"none", "decided", "conflict", "refused"}
    BY <1>1 DEF ApprovalTypes, Deciders
  <2>3. ASSUME NEW l \in Listings, NEW t \in listing[l].told PROVE t \in (DOMAIN requests) \X ApprovalStatus
    <3>1. t \in Nat \X ApprovalStatus
      <4>1. listing[l] \in Readings BY <1>1 DEF ApprovalTypes
      <4>2. listing[l].told \in SUBSET (Nat \X ApprovalStatus) BY <4>1 DEF Readings
      <4> QED BY <4>2
    <3>2. t[1] \in DOMAIN requests BY <1>1 DEF ListingSound, ToldTrue
    <3> QED BY <3>1, <3>2
  <2> QED BY <2>1, <2>2, <2>3 DEF ApprovalTypeOK
<1>3. OneVerdict
  <2>1. \A a \in Approvers : approver[a].answer = "decided" => requests[approver[a].id].status = approver[a].seen
    BY <1>1 DEF DecisionsSound, DecisionSound
  <2>2. \A a, b \in Approvers : a # b /\ approver[a].answer = "decided" /\ approver[b].answer = "decided"
          => approver[a].id # approver[b].id
    BY <1>1 DEF DecisionsSound
  <2> QED BY <2>1, <2>2 DEF OneVerdict
<1>4. PagesComplete
  <2>1. ASSUME NEW l \in Listings, listing[l].at = "over", NEW i \in listing[l].owed PROVE \E t \in listing[l].told : t[1] = i
    BY <1>1, <2>1 DEF ListingSound, ToldOf
  <2> QED BY <2>1 DEF PagesComplete
<1>5. ToldStands
  <2>1. ASSUME NEW l \in Listings, NEW t \in listing[l].told, t[2] # "pending"
        PROVE  Effective(t[1]) = t[2] \/ (durable /\ t[2] = "expired")
    <3>1. ToldTrue(t) BY <1>1 DEF ListingSound
    <3> QED BY <3>1, <2>1 DEF ToldTrue, Effective
  <2> QED BY <2>1 DEF ToldStands
<1> QED BY <1>2, <1>3, <1>4, <1>5 DEF ApprovalSafe

(* What decides about an action, for any number of policies, bundles,
   agents, tools and payloads, in every order the policies are registered,
   and any number of approvers, requests and readers: a person is asked only
   about what no policy refuses, nothing that was redacted comes back, a tool
   runs with the arguments that were planned and every mandatory policy has
   seen; a request has one verdict and every reader is shown every request. *)
THEOREM DecisionsAreSafe == DecisionsSpec => []DecisionsSafe
<1>1. PolicyInit => PolicyInv BY PolicyInitInv
<1>2. PolicyInv /\ [PolicyNext]_policyVars => PolicyInv' BY PolicyInvKept
<1>3. PolicyInv => PolicySafe BY PolicyInvSafe
<1>4. ApprovalInit => ApprovalInv BY ApprovalInitInv
<1>5. ApprovalInv /\ [ApprovalNext]_approvalVars => ApprovalInv' BY ApprovalInvKept
<1>6. ApprovalInv => ApprovalSafe BY ApprovalInvSafe
<1>7. PolicySpec => []PolicySafe BY <1>1, <1>2, <1>3, PTL DEF PolicySpec
<1>8. ApprovalSpec => []ApprovalSafe BY <1>4, <1>5, <1>6, PTL DEF ApprovalSpec
<1> QED BY <1>7, <1>8, PTL DEF DecisionsSpec, DecisionsSafe

-----------------------------------------------------------------------------
(* Deployment: what each stage has already settled.  Every store has its   *)
(* client among the resources from the moment it is built, what is open is *)
(* a resource, and from the draining on less and less can still open one.  *)

Held(q) == {q[i] : i \in 1..Len(q)}
Building == {"select", "caches", "stores", "registries", "retrievers", "plugins", "check", "assemble", "built", "failed"}
Starting == {"opening", "listing", "recovered", "broken"}
Ending == {"drain workflow", "drain turn", "drain run", "closing", "unclean"}
DeployStages == Building \cup Starting \cup {"serving", "over"} \cup Ending
PhaseAt ==
  [s \in DeployStages |->
     IF s \in Building THEN "created" ELSE IF s \in Starting THEN "starting"
     ELSE IF s = "serving" THEN "ready" ELSE IF s = "over" THEN "stopped" ELSE "draining"]

DeployTypes ==
  /\ settings \in Deployments /\ stage \in DeployStages /\ lifePhase = PhaseAt[stage]
  /\ resources \in Seq(Handles) /\ openNow \subseteq Held(resources)
  /\ DOMAIN backing = DOMAIN settings.backend
  /\ \A k \in DOMAIN backing : backing[k] \in Held(resources) \cup {"process", "none"}
  /\ work \subseteq {"run", "turn", "workflow"} /\ recovered \subseteq {"runs", "turns", "workflows"}
  /\ sweeping \in {"off", "idle", "busy"} /\ overdue \in {"none", "run", "turn"}
  /\ toClose \in 0..Len(resources) /\ (stage = "select" => resources = <<>>)
  /\ report.at \in {"no", "probing", "late"}

\* A client for each backend that is selected, and then one for each store.
BuiltInv ==
  /\ stage \notin {"select", "failed"} =>
       /\ "postgres" \in Selected(settings) => "database" \in Held(resources)
       /\ "redis" \in Selected(settings) => "redis" \in Held(resources)
  /\ stage \notin {"select", "caches", "stores", "failed"} => \A k \in DOMAIN backing : backing[k] # "none"

\* A sweep has passed the tasks that are not left to it.
Passed(n) == {SweepTasks[i] : i \in 1..n}
TaskNames == {SweepTasks[i] : i \in 1..6}
SweepInv ==
  /\ stage # "serving" => sweeping = "off"
  /\ stage \in Building \cup Starting => sweepDone = {} /\ sweepErrors = {}
  /\ sweeping = "busy" =>
       /\ sweepLeft \in Seq(TaskNames) /\ Len(sweepLeft) <= 6
       /\ \A i \in 1..Len(sweepLeft) : sweepLeft[i] = SweepTasks[6 - Len(sweepLeft) + i]
       /\ sweepDone \cup sweepErrors = Passed(6 - Len(sweepLeft))
  /\ SweepReachesAll
  /\ sweeping # "off" /\ "pending_turns" \in sweepDone => overdue # "turn"

\* Of the work that may still open a pool less is left, and then of the resources.
EndInv ==
  /\ stage \in {"drain workflow", "drain turn", "drain run"} => toClose = Len(resources)
  /\ stage = "drain turn" => "workflow" \notin work
  /\ stage = "drain run" => {"workflow", "turn"} \cap work = {}
  /\ stage \in {"closing", "over"} =>
       work = {} /\ (report.at = "no" => \A r \in openNow : \E i \in 1..toClose : resources[i] = r)
  /\ stage = "over" => toClose = 0

\* What is not known by its name is a tool of a server that is still to be listed, or degraded.
NamesInv ==
  settings.strict =>
    /\ stage \in {"assemble", "built", "opening", "listing", "recovered", "serving"} =>
         settings.uses \subseteq names \cup Deferred(settings)
    /\ stage \in {"listing", "recovered", "serving"} =>
         \A s \in settings.mcp : s.name \in listed => settings.uses \cap s.tools \subseteq names
    /\ stage \in {"select", "caches", "stores", "registries", "retrievers", "plugins", "check", "assemble", "built",
                  "opening"} => listed = {}
    /\ stage \in {"recovered", "serving"} => \A s \in settings.mcp : Listed(s)

ReportInv == ReportHonest /\ (stage \in Building \ {"built"} => ~report.ready)

DeployInv == DeployTypes /\ BuiltInv /\ SweepInv /\ EndInv /\ NamesInv /\ ReportInv

\* The deployments are what the assumption says.
LEMMA DeploymentIs ==
  ASSUME NEW d \in Deployments
  PROVE  /\ \A k \in DOMAIN d.backend : d.backend[k] \in {"memory", "postgres", "redis", "s3"}
         /\ {"artifact", "token_revocation"} \subseteq DOMAIN d.backend
         /\ \A k \in DOMAIN d.backend : d.backend[k] = "s3" => k = "artifact"
         /\ \A s, other \in d.mcp : s.name = other.name => s = other
         /\ {"database", "redis", "cache_redis", "artifacts", "http", "provider_client", "mcp"} \subseteq Handles
         /\ IsFiniteSet(d.toolkits) /\ {t.name : t \in d.toolkits} \subseteq Handles
         /\ d.adapter \in Handles \cup {"none"}
BY DeploymentAssumption, Zenon DEF DeploymentAssumption

\* More resources are put behind those that are there.
LEMMA HeldMore ==
  ASSUME NEW S, NEW q \in Seq(S), NEW r \in Seq(S)
  PROVE  q \o r \in Seq(S) /\ Held(q \o r) = Held(q) \cup Held(r) /\ Len(q \o r) = Len(q) + Len(r)
<1>1. q \o r \in Seq(S) /\ Len(q \o r) = Len(q) + Len(r) /\ Len(q) \in Nat /\ Len(r) \in Nat
      /\ \A i \in 1..(Len(q) + Len(r)) : (q \o r)[i] = IF i <= Len(q) THEN q[i] ELSE r[i - Len(q)]
  BY ConcatProperties, LenProperties
<1>2. ASSUME NEW x \in Held(q \o r) PROVE x \in Held(q) \cup Held(r)
  <2>1. PICK i \in 1..(Len(q) + Len(r)) : x = (q \o r)[i] BY <1>1, <1>2 DEF Held
  <2>2. CASE i <= Len(q) BY <1>1, <2>1, <2>2 DEF Held
  <2>3. CASE ~(i <= Len(q))
    <3>1. i - Len(q) \in 1..Len(r) /\ x = r[i - Len(q)] BY <1>1, <2>1, <2>3
    <3> QED BY <3>1 DEF Held
  <2> QED BY <2>2, <2>3
<1>3. ASSUME NEW x \in Held(q) PROVE x \in Held(q \o r)
  <2>1. PICK i \in 1..Len(q) : x = q[i] BY <1>3 DEF Held
  <2>2. i \in 1..(Len(q) + Len(r)) /\ (q \o r)[i] = x BY <1>1, <2>1
  <2> QED BY <1>1, <2>2 DEF Held
<1>4. ASSUME NEW x \in Held(r) PROVE x \in Held(q \o r)
  <2>1. PICK i \in 1..Len(r) : x = r[i] BY <1>4 DEF Held
  <2>2. i + Len(q) \in 1..(Len(q) + Len(r)) /\ ~(i + Len(q) <= Len(q)) /\ (i + Len(q)) - Len(q) = i BY <1>1, <2>1
  <2>3. (q \o r)[i + Len(q)] = x BY <1>1, <2>1, <2>2
  <2> QED BY <1>1, <2>2, <2>3 DEF Held
<1> QED BY <1>1, <1>2, <1>3, <1>4

LEMMA HeldOne == ASSUME NEW S, NEW x \in S PROVE <<x>> \in Seq(S) /\ Held(<<x>>) = {x}
<1>1. PICK q : q = <<x>> OBVIOUS
<1>2. Len(q) = 1 /\ q[1] = x BY <1>1
<1>3. q \in Seq(S) BY <1>1
<1>4. 1..1 = {1} OBVIOUS
<1>5. Held(q) = {q[i] : i \in {1}} BY <1>2, <1>4 DEF Held
<1> QED BY <1>1, <1>2, <1>3, <1>5
LEMMA HeldNone == ASSUME NEW S PROVE <<>> \in Seq(S) /\ Held(<<>>) = {} /\ Len(<<>>) = 0
BY DEF Held

\* The toolkits in some order.
LEMMA ToolkitsHeld ==
  ASSUME NEW d \in Deployments
  PROVE  SeqOfNames(d.toolkits) \in Seq(Handles)
<1> DEFINE T == d.toolkits
           N == {t.name : t \in T}
           n == Cardinality(T)
           Right(s) == {s[i] : i \in DOMAIN s} = N
<1>1. IsFiniteSet(T) /\ N \subseteq Handles BY DeploymentIs
<1>2. n \in Nat /\ ExistsBijection(1..n, T) BY <1>1, FS_CardinalityType, FS_Bijection
<1>3. PICK f : f \in Bijection(1..n, T) BY <1>2 DEF ExistsBijection
<1>4. f \in [1..n -> T] /\ \A t \in T : \E i \in 1..n : f[i] = t BY <1>3 DEF Bijection, Injection, Surjection
<1>5. PICK s : s = [i \in 1..n |-> f[i].name] OBVIOUS
<1>6. s \in [1..n -> N] BY <1>4, <1>5
<1>7. {s[i] : i \in DOMAIN s} = N
  <2>1. DOMAIN s = 1..n /\ \A i \in 1..n : s[i] = f[i].name BY <1>5
  <2>2. \A t \in T : \E i \in 1..n : s[i] = t.name BY <1>4, <2>1
  <2>3. \A i \in 1..n : s[i] \in N BY <1>4, <2>1
  <2> QED BY <2>1, <2>2, <2>3
<1>8. SeqOfNames(T) = CHOOSE q \in [1..n -> N] : Right(q) BY DEF SeqOfNames
<1>9. SeqOfNames(T) \in [1..n -> N]
  <2>1. \E q \in [1..n -> N] : Right(q) BY <1>6, <1>7
  <2> HIDE DEF N, Right, n
  <2>2. (CHOOSE q \in [1..n -> N] : Right(q)) \in [1..n -> N] BY <2>1, Zenon
  <2> QED BY <1>8, <2>2
<1>10. SeqOfNames(T) \in Seq(N) BY <1>2, <1>9
<1> HIDE DEF N
<1> QED BY <1>1, <1>10, SeqMonotonic

\* A build adds resources and takes none away.
LEMMA MoreResources ==
  ASSUME DeployTypes, NEW r \in Seq(Handles), resources' = resources \o r
  PROVE  /\ resources' \in Seq(Handles) /\ Held(resources') = Held(resources) \cup Held(r)
         /\ openNow \subseteq Held(resources') /\ toClose \in 0..Len(resources')
         /\ \A k \in DOMAIN backing : backing[k] \in Held(resources') \cup {"process", "none"}
<1>1. resources \in Seq(Handles) BY DEF DeployTypes
<1>2. resources' \in Seq(Handles) /\ Held(resources') = Held(resources) \cup Held(r)
      /\ Len(resources') = Len(resources) + Len(r)
  BY <1>1, HeldMore
<1>3. Len(resources) \in Nat /\ Len(r) \in Nat BY <1>1, LenProperties
<1>4. toClose \in 0..Len(resources') BY <1>2, <1>3 DEF DeployTypes
<1> QED BY <1>2, <1>4 DEF DeployTypes

\* The client of each backend that is selected.
LEMMA ClientsAre ==
  ASSUME NEW d \in Deployments
  PROVE  /\ Clients(d) \in Seq(Handles)
         /\ "postgres" \in Selected(d) => "database" \in Held(Clients(d))
         /\ "redis" \in Selected(d) => "redis" \in Held(Clients(d))
<1>1. PICK a : a = (IF "postgres" \in Selected(d) THEN <<"database">> ELSE <<>>) OBVIOUS
<1>2. PICK b : b = (IF "redis" \in Selected(d) THEN <<"redis">> ELSE <<>>) OBVIOUS
<1>3. "database" \in Handles /\ "redis" \in Handles BY DeploymentIs
<1>4. a \in Seq(Handles) /\ ("postgres" \in Selected(d) => "database" \in Held(a))
  BY <1>1, <1>3, HeldOne, HeldNone
<1>5. b \in Seq(Handles) /\ ("redis" \in Selected(d) => "redis" \in Held(b))
  BY <1>2, <1>3, HeldOne, HeldNone
<1>6. Clients(d) = a \o b BY <1>1, <1>2 DEF Clients
<1>7. Clients(d) \in Seq(Handles) /\ Held(Clients(d)) = Held(a) \cup Held(b) BY <1>4, <1>5, <1>6, HeldMore
<1> QED BY <1>4, <1>5, <1>7

\* A store has the client of its backend.
LEMMA ClientGiven ==
  ASSUME NEW d \in Deployments, NEW built \in Seq(Handles), NEW k \in DOMAIN d.backend,
         "postgres" \in Selected(d) => "database" \in Held(built),
         "redis" \in Selected(d) => "redis" \in Held(built),
         k = "token_revocation" => d.revocation
  PROVE  ClientOf(d.backend[k], built) \in Held(built) \cup {"process"} /\ ClientOf(d.backend[k], built) # "none"
<1>1. d.backend[k] \in {"memory", "postgres", "redis", "s3"} BY DeploymentIs
<1>2. d.backend[k] \in Selected(d) BY DEF Selected
<1>3. d.backend[k] = "s3" => "postgres" \in Selected(d)
  <2>1. d.backend[k] = "s3" => d.backend["artifact"] = "s3" BY DeploymentIs
  <2> QED BY <2>1 DEF Selected
<1>4. CASE d.backend[k] = "memory" BY <1>4 DEF ClientOf
<1>5. CASE d.backend[k] = "redis"
  <2>1. \E i \in 1..Len(built) : built[i] = "redis" BY <1>2, <1>5 DEF Held
  <2>2. ClientOf(d.backend[k], built) = "redis" BY <1>5, <2>1 DEF ClientOf
  <2> QED BY <1>2, <1>5, <2>2
<1>6. CASE d.backend[k] \in {"postgres", "s3"}
  <2>1. "database" \in Held(built) BY <1>2, <1>3, <1>6
  <2>2. \E i \in 1..Len(built) : built[i] = "database" BY <2>1 DEF Held
  <2>3. ClientOf(d.backend[k], built) = "database" BY <1>6, <2>2 DEF ClientOf
  <2> QED BY <2>1, <2>3
<1> QED BY <1>1, <1>4, <1>5, <1>6

\* A set of naturals that is not empty has a least element.
LEMMA LeastNatural ==
  ASSUME NEW T \in SUBSET Nat, T # {}
  PROVE  \E x \in T : \A y \in T : x <= y
<1> DEFINE R == {ss \in Nat \X Nat : ss[1] < ss[2]}
<1>1. IsWellFoundedOn(R, Nat) BY NatLessThanWellFounded, Zenon DEF OpToRel
<1>2. \A x, y \in Nat : x < y => <<x, y>> \in R OBVIOUS
<1> HIDE DEF R
<1>3. PICK x \in T : \A y \in T : ~(<<y, x>> \in R) BY <1>1, WFMin, Zenon
<1>4. ASSUME NEW y \in T PROVE x <= y
  <2>1. ~(y < x) BY <1>3, <1>2
  <2> QED BY <2>1
<1> QED BY <1>4

\* The pools are resources; what the sweep of the resources finds to start is one.
LEMMA PoolsHeld == DeployTypes => Pools(settings) \subseteq Held(resources)
<1> SUFFICES ASSUME DeployTypes, NEW r \in Pools(settings) PROVE r \in Held(resources) OBVIOUS
<1>1. PICK k \in DOMAIN settings.backend : r = backing[k] BY DEF Pools
<1>2. r \in {"database", "redis"} BY DEF Pools
<1> QED BY <1>1, <1>2 DEF DeployTypes

LEMMA StartIsHeld == ASSUME DeployTypes, ToStart # "none" PROVE ToStart \in Held(resources)
<1> DEFINE waiting == {i \in 1..Len(resources) :
                         resources[i] \in Startable(settings) \ openNow /\ resources[i] \notin degraded}
           First(i) == \A j \in waiting : i <= j
<1>1. ToStart = IF waiting = {} THEN "none" ELSE resources[CHOOSE i \in waiting : First(i)] BY DEF ToStart
<1>2. Len(resources) \in Nat BY LenProperties DEF DeployTypes
<1>3. waiting \in SUBSET Nat /\ waiting \subseteq 1..Len(resources) BY <1>2
<1>4. waiting # {} BY <1>1
<1>5. \E i \in waiting : First(i) BY <1>3, <1>4, LeastNatural
<1> HIDE DEF waiting, First
<1>6. (CHOOSE i \in waiting : First(i)) \in waiting BY <1>5, Zenon
<1>7. PICK i \in 1..Len(resources) : ToStart = resources[i] BY <1>1, <1>3, <1>4, <1>6
<1> QED BY <1>7 DEF Held

\* The tasks of a sweep, in their order.
LEMMA TasksAre ==
  /\ SweepTasks \in Seq(TaskNames) /\ Len(SweepTasks) = 6 /\ Passed(0) = {} /\ Passed(6) = TaskNames
  /\ {SweepTasks[i] : i \in 1..Len(SweepTasks)} = TaskNames
  /\ SweepTasks[1] = "paused_runs" /\ SweepTasks[2] = "pending_turns"
  /\ \A i \in 1..6 : (SweepTasks[i] = "pending_turns" => i = 2) /\ (SweepTasks[i] = "paused_runs" => i = 1)
  /\ \A n \in 0..5 : Passed(n + 1) = Passed(n) \cup {SweepTasks[n + 1]}
<1>1. Len(SweepTasks) = 6 /\ DOMAIN SweepTasks = 1..6 BY DEF SweepTasks
<1>2. /\ SweepTasks[1] = "paused_runs" /\ SweepTasks[2] = "pending_turns" /\ SweepTasks[3] = "paused_workflows"
      /\ SweepTasks[4] = "artifacts" /\ SweepTasks[5] = "learned_memory" /\ SweepTasks[6] = "retention"
  BY DEF SweepTasks
<1>3. \A i \in 1..6 : (SweepTasks[i] = "pending_turns" => i = 2) /\ (SweepTasks[i] = "paused_runs" => i = 1)
  <2>1. \A i \in 1..6 : i \in {1, 2, 3, 4, 5, 6} OBVIOUS
  <2> QED BY <1>2, <2>1
<1>4. \A i \in 1..6 : SweepTasks[i] \in TaskNames BY DEF TaskNames
<1>5. SweepTasks \in Seq(TaskNames)
  <2>1. SweepTasks = [i \in 1..6 |-> SweepTasks[i]] BY <1>1 DEF SweepTasks
  <2>2. SweepTasks \in [1..6 -> TaskNames] BY <1>4, <2>1
  <2>3. 6 \in Nat OBVIOUS
  <2> QED BY <2>2, <2>3, SeqDef
<1>6. Passed(0) = {} /\ Passed(6) = TaskNames BY DEF Passed, TaskNames
<1>7. \A n \in 0..5 : Passed(n + 1) = Passed(n) \cup {SweepTasks[n + 1]}
  <2> SUFFICES ASSUME NEW n \in 0..5 PROVE Passed(n + 1) = Passed(n) \cup {SweepTasks[n + 1]} OBVIOUS
  <2>1. 1..(n + 1) = (1..n) \cup {n + 1} OBVIOUS
  <2> QED BY <2>1 DEF Passed
<1> QED BY <1>1, <1>2, <1>3, <1>5, <1>6, <1>7 DEF TaskNames

\* The database and the Redis that a store selects.
LEMMA HonestStays ==
  ASSUME ReportHonest, report' = report \/ ~report'.ready, UNCHANGED builtVars, degraded \subseteq degraded'
  PROVE  ReportHonest'
<1>1. CASE ~report'.ready BY <1>1 DEF ReportHonest
<1>2. CASE report' = report
  <2>1. settings' = settings /\ backing' = backing /\ resources' = resources BY DEF builtVars
  <2>2. /\ StoresDeclared(settings)' = StoresDeclared(settings) /\ Declared(settings)' = Declared(settings)
        /\ Entries(settings) \subseteq Entries(settings)'
        /\ \A n : Needs(settings, n)' = Needs(settings, n) /\ ResourceOf(settings, n)' = ResourceOf(settings, n)
        /\ \A n : Exempt(n)' = Exempt(n)
    BY <2>1 DEF StoresDeclared, Declared, Entries, Uncovered, Probed, Needs, ResourceOf, Exempt
  <2> QED BY <1>2, <2>1, <2>2 DEF ReportHonest
<1> QED BY <1>1, <1>2

LEMMA BuildClientsKeeps == ASSUME DeployInv, BuildClients PROVE DeployInv'
<1> USE DEF DeployInv, builtVars, startVars, sweepVars, DeployTypes
<1>1. settings \in Deployments /\ resources = <<>> BY DEF BuildClients
<1>2. PICK q : q = Clients(settings) OBVIOUS
<1>3. q \in Seq(Handles) /\ Len(q) \in Nat /\ ("postgres" \in Selected(settings) => "database" \in Held(q))
      /\ ("redis" \in Selected(settings) => "redis" \in Held(q))
  BY <1>1, <1>2, ClientsAre, LenProperties
<1>4. Held(<<>>) = {} /\ Len(<<>>) = 0 BY HeldNone
<1>5. openNow = {} /\ toClose = 0 /\ (\A k \in DOMAIN backing : backing[k] \in {"process", "none"})
  BY <1>1, <1>4
<1>6. resources' \in {q, resources} /\ (stage' # "failed" => resources' = q) BY <1>2 DEF BuildClients
<1>7. resources' \in Seq(Handles) /\ Len(resources') \in Nat
  <2>1. <<>> \in Seq(Handles) BY HeldNone
  <2>2. resources' = q \/ resources' = <<>> BY <1>1, <1>6
  <2> QED BY <1>3, <2>1, <2>2, LenProperties
<1>8. /\ openNow' = {} /\ toClose' \in 0..Len(resources') /\ stage' \in {"caches", "failed"}
      /\ DOMAIN backing' = DOMAIN settings'.backend /\ \A k \in DOMAIN backing' : backing'[k] \in {"process", "none"}
      /\ UNCHANGED <<settings, lifePhase, work, recovered, sweepVars>> /\ stage = "select"
  BY <1>5, <1>7 DEF BuildClients
<1>9. DeployTypes' BY <1>7, <1>8 DEF BuildClients, PhaseAt, DeployStages, Building, Starting, Ending
<1>10. BuiltInv' BY <1>3, <1>6 DEF BuildClients, BuiltInv
<1>11. SweepInv' BY DEF BuildClients, SweepInv, SweepReachesAll, Building, Starting
<1>12. EndInv' BY DEF BuildClients, EndInv
<1>13. NamesInv' BY DEF BuildClients, NamesInv, Listed
<1>14. ReportInv' BY DEF BuildClients, ReportInv, ReportHonest, Building
<1> QED BY <1>9, <1>10, <1>11, <1>12, <1>13, <1>14

\* The cache's client.
LEMMA BuildCacheKeeps == ASSUME DeployInv, BuildCache PROVE DeployInv'
<1> USE DEF DeployInv, builtVars, startVars, sweepVars, DeployTypes
<1>1. settings \in Deployments /\ resources \in Seq(Handles) OBVIOUS
<1>2. PICK r \in Seq(Handles) : resources' = resources \o r
  <2>1. "cache_redis" \in Handles BY <1>1, DeploymentIs
  <2>2. <<"cache_redis">> \in Seq(Handles) BY <2>1, HeldOne
  <2>3. CacheClient(settings, resources) \in Seq(Handles) BY <2>2, HeldNone DEF CacheClient
  <2> QED BY <2>3 DEF BuildCache
<1>3. /\ resources' \in Seq(Handles) /\ Held(resources') = Held(resources) \cup Held(r)
      /\ openNow \subseteq Held(resources') /\ toClose \in 0..Len(resources')
      /\ \A k \in DOMAIN backing : backing[k] \in Held(resources') \cup {"process", "none"}
  BY <1>2, MoreResources
<1>4. DeployTypes' BY <1>2, <1>3 DEF BuildCache, PhaseAt, DeployStages, Building, Starting, Ending
<1>5. BuiltInv' BY <1>3 DEF BuildCache, BuiltInv
<1>6. SweepInv' BY DEF BuildCache, SweepInv, SweepReachesAll, Building, Starting
<1>7. EndInv' BY DEF BuildCache, EndInv
<1>8. NamesInv' BY DEF BuildCache, NamesInv, Listed
<1>9. ReportInv' BY DEF BuildCache, ReportInv, ReportHonest, Building
<1> QED BY <1>4, <1>5, <1>6, <1>7, <1>8, <1>9

\* Each store gets the client of its backend.
LEMMA BuildStoresKeeps == ASSUME DeployInv, BuildStores PROVE DeployInv'
<1> USE DEF DeployInv, builtVars, startVars, sweepVars, DeployTypes
<1>1. settings \in Deployments /\ resources \in Seq(Handles) OBVIOUS
<1>2. PICK r \in Seq(Handles) : resources' = resources \o r
  <2>1. "artifacts" \in Handles /\ "http" \in Handles BY <1>1, DeploymentIs
  <2>2. PICK a : a = (IF settings.backend["artifact"] = "s3" THEN <<"artifacts">> ELSE <<>>) OBVIOUS
  <2>3. a \in Seq(Handles) /\ <<"http">> \in Seq(Handles) BY <2>1, <2>2, HeldOne, HeldNone
  <2>4. a \o <<"http">> \in Seq(Handles) BY <2>3, HeldMore
  <2>5. resources' = resources \o a \o <<"http">> BY <2>2 DEF BuildStores
  <2>6. (resources \o a) \o <<"http">> = resources \o (a \o <<"http">>) BY <1>1, <2>3, ConcatAssociative
  <2> QED BY <2>4, <2>5, <2>6
<1>3. /\ resources' \in Seq(Handles) /\ Held(resources') = Held(resources) \cup Held(r)
      /\ openNow \subseteq Held(resources') /\ toClose \in 0..Len(resources')
      /\ \A k \in DOMAIN backing : backing[k] \in Held(resources') \cup {"process", "none"}
  BY <1>2, MoreResources
<1>4. DOMAIN backing' = DOMAIN settings.backend BY DEF BuildStores
<1>5. ASSUME NEW k \in DOMAIN backing'
      PROVE  backing'[k] \in Held(resources) \cup {"process"} /\ backing'[k] # "none"
  <2>1. k \in DOMAIN settings.backend BY <1>4, <1>5
  <2>2. backing'[k] = IF k = "token_revocation" /\ ~settings.revocation THEN "process"
                      ELSE ClientOf(settings.backend[k], resources)
    BY <2>1 DEF BuildStores
  <2>3. CASE k = "token_revocation" /\ ~settings.revocation BY <2>2, <2>3
  <2>4. CASE ~(k = "token_revocation" /\ ~settings.revocation)
    <3>1. /\ "postgres" \in Selected(settings) => "database" \in Held(resources)
          /\ "redis" \in Selected(settings) => "redis" \in Held(resources)
      BY DEF BuildStores, BuiltInv
    <3>2. k = "token_revocation" => settings.revocation BY <2>4
    <3>3. /\ ClientOf(settings.backend[k], resources) \in Held(resources) \cup {"process"}
          /\ ClientOf(settings.backend[k], resources) # "none"
      BY <1>1, <2>1, <3>1, <3>2, ClientGiven
    <3> QED BY <2>2, <2>4, <3>3
  <2> QED BY <2>3, <2>4
<1>6. DeployTypes' BY <1>1, <1>3, <1>4, <1>5 DEF BuildStores, PhaseAt, DeployStages, Building, Starting, Ending
<1>7. BuiltInv' BY <1>3, <1>5 DEF BuildStores, BuiltInv
<1>8. SweepInv' BY DEF BuildStores, SweepInv, SweepReachesAll, Building, Starting
<1>9. EndInv' BY DEF BuildStores, EndInv
<1>10. NamesInv' BY DEF BuildStores, NamesInv, Listed
<1>11. ReportInv' BY DEF BuildStores, ReportInv, ReportHonest, Building
<1> QED BY <1>6, <1>7, <1>8, <1>9, <1>10, <1>11

\* The providers' names and clients.
LEMMA BuildProvidersKeeps == ASSUME DeployInv, BuildProviders PROVE DeployInv'
<1> USE DEF DeployInv, builtVars, startVars, sweepVars, DeployTypes
<1>1. settings \in Deployments /\ resources \in Seq(Handles) OBVIOUS
<1>2. PICK r \in Seq(Handles) : resources' = resources \o r
  <2>1. "provider_client" \in Handles BY <1>1, DeploymentIs
  <2>2. (IF settings.outbound THEN <<"provider_client">> ELSE <<>>) \in {<<>>, <<"provider_client">>} OBVIOUS
  <2>3. (IF settings.outbound THEN <<"provider_client">> ELSE <<>>) \in Seq(Handles) BY <2>1, <2>2, HeldOne, HeldNone
  <2> QED BY <2>3 DEF BuildProviders
<1>3. /\ resources' \in Seq(Handles) /\ Held(resources') = Held(resources) \cup Held(r)
      /\ openNow \subseteq Held(resources') /\ toClose \in 0..Len(resources')
      /\ \A k \in DOMAIN backing : backing[k] \in Held(resources') \cup {"process", "none"}
  BY <1>2, MoreResources
<1>4. DeployTypes' BY <1>2, <1>3 DEF BuildProviders, PhaseAt, DeployStages, Building, Starting, Ending
<1>5. BuiltInv' BY <1>3 DEF BuildProviders, BuiltInv
<1>6. SweepInv' BY DEF BuildProviders, SweepInv, SweepReachesAll, Building, Starting
<1>7. EndInv' BY DEF BuildProviders, EndInv
<1>8. NamesInv' BY DEF BuildProviders, NamesInv, Listed
<1>9. ReportInv' BY DEF BuildProviders, ReportInv, ReportHonest, Building
<1> QED BY <1>4, <1>5, <1>6, <1>7, <1>8, <1>9

\* The retrievers' names.
LEMMA BuildRetrieversKeeps == ASSUME DeployInv, BuildRetrievers PROVE DeployInv'
<1> USE DEF DeployInv, builtVars, startVars, sweepVars, DeployTypes
<1>1. DeployTypes' BY DEF BuildRetrievers, PhaseAt, DeployStages, Building, Starting, Ending
<1>2. BuiltInv' BY DEF BuildRetrievers, BuiltInv
<1>3. SweepInv' BY DEF BuildRetrievers, SweepInv, SweepReachesAll, Building, Starting
<1>4. EndInv' BY DEF BuildRetrievers, EndInv
<1>5. NamesInv' BY DEF BuildRetrievers, NamesInv, Listed
<1>6. ReportInv' BY DEF BuildRetrievers, ReportInv, ReportHonest, Building
<1> QED BY <1>1, <1>2, <1>3, <1>4, <1>5, <1>6

\* What the plugins register.
LEMMA BuildPluginsKeeps == ASSUME DeployInv, BuildPlugins PROVE DeployInv'
<1> USE DEF DeployInv, builtVars, startVars, sweepVars, DeployTypes
<1>1. settings \in Deployments /\ resources \in Seq(Handles) OBVIOUS
<1>2. PICK r \in Seq(Handles) : resources' = resources \o r
  <2>1. "mcp" \in Handles BY <1>1, DeploymentIs
  <2>2. PICK a : a = (IF settings.mcp # {} THEN <<"mcp">> ELSE <<>>) OBVIOUS
  <2>3. PICK b : b = SeqOfNames(settings.toolkits) OBVIOUS
  <2>4. a \in Seq(Handles) /\ b \in Seq(Handles) BY <1>1, <2>1, <2>2, <2>3, HeldOne, HeldNone, ToolkitsHeld
  <2>5. a \o b \in Seq(Handles) BY <2>4, HeldMore
  <2>6. resources' = resources \o a \o b BY <2>2, <2>3 DEF BuildPlugins
  <2>7. (resources \o a) \o b = resources \o (a \o b) BY <1>1, <2>4, ConcatAssociative
  <2> QED BY <2>5, <2>6, <2>7
<1>3. /\ resources' \in Seq(Handles) /\ Held(resources') = Held(resources) \cup Held(r)
      /\ openNow \subseteq Held(resources') /\ toClose \in 0..Len(resources')
      /\ \A k \in DOMAIN backing : backing[k] \in Held(resources') \cup {"process", "none"}
  BY <1>2, MoreResources
<1>4. DeployTypes' BY <1>2, <1>3 DEF BuildPlugins, PhaseAt, DeployStages, Building, Starting, Ending
<1>5. BuiltInv' BY <1>3 DEF BuildPlugins, BuiltInv
<1>6. SweepInv' BY DEF BuildPlugins, SweepInv, SweepReachesAll, Building, Starting
<1>7. EndInv' BY DEF BuildPlugins, EndInv
<1>8. NamesInv' BY DEF BuildPlugins, NamesInv, Listed
<1>9. ReportInv' BY DEF BuildPlugins, ReportInv, ReportHonest, Building
<1> QED BY <1>4, <1>5, <1>6, <1>7, <1>8, <1>9

\* A strict check lets no unknown name pass.
LEMMA CheckComponentsKeeps == ASSUME DeployInv, CheckComponents PROVE DeployInv'
<1> USE DEF DeployInv, builtVars, startVars, sweepVars, DeployTypes
<1>1. DeployTypes' BY DEF CheckComponents, PhaseAt, DeployStages, Building, Starting, Ending
<1>2. BuiltInv' BY DEF CheckComponents, BuiltInv
<1>3. SweepInv' BY DEF CheckComponents, SweepInv, SweepReachesAll, Building, Starting
<1>4. EndInv' BY DEF CheckComponents, EndInv
<1>5. NamesInv' BY DEF CheckComponents, NamesInv, Listed, UnknownNames
<1>6. ReportInv' BY DEF CheckComponents, ReportInv, ReportHonest, Building
<1> QED BY <1>1, <1>2, <1>3, <1>4, <1>5, <1>6

\* The adapter becomes the last resource.
LEMMA AssembleKeeps == ASSUME DeployInv, Assemble PROVE DeployInv'
<1> USE DEF DeployInv, builtVars, startVars, sweepVars, DeployTypes
<1>1. settings \in Deployments /\ resources \in Seq(Handles) OBVIOUS
<1>2. PICK r \in Seq(Handles) : resources' = resources \o r
  <2>1. settings.adapter \in Handles \cup {"none"} BY <1>1, DeploymentIs
  <2>2. CASE settings.adapter = "none" \/ \E i \in 1..Len(resources) : resources[i] = settings.adapter
    <3>1. resources' = resources \o <<>> BY <2>2 DEF Assemble
    <3> QED BY <3>1, HeldNone
  <2>3. CASE ~(settings.adapter = "none" \/ \E i \in 1..Len(resources) : resources[i] = settings.adapter)
    <3>1. resources' = resources \o <<settings.adapter>> /\ settings.adapter \in Handles BY <2>1, <2>3 DEF Assemble
    <3> QED BY <3>1, HeldOne
  <2> QED BY <2>2, <2>3
<1>3. /\ resources' \in Seq(Handles) /\ Held(resources') = Held(resources) \cup Held(r)
      /\ openNow \subseteq Held(resources') /\ toClose \in 0..Len(resources')
      /\ \A k \in DOMAIN backing : backing[k] \in Held(resources') \cup {"process", "none"}
  BY <1>2, MoreResources
<1>4. DeployTypes' BY <1>2, <1>3 DEF Assemble, PhaseAt, DeployStages, Building, Starting, Ending
<1>5. BuiltInv' BY <1>3 DEF Assemble, BuiltInv
<1>6. SweepInv' BY DEF Assemble, SweepInv, SweepReachesAll, Building, Starting
<1>7. EndInv' BY DEF Assemble, EndInv
<1>8. NamesInv' BY DEF Assemble, NamesInv, Listed
<1>9. ReportInv' BY DEF Assemble, ReportInv, ReportHonest, Building
<1> QED BY <1>4, <1>5, <1>6, <1>7, <1>8, <1>9

\* The start begins.
LEMMA StartContainerKeeps == ASSUME DeployInv, StartContainer PROVE DeployInv'
<1> USE DEF DeployInv, builtVars, startVars, sweepVars, DeployTypes
<1>1. DeployTypes' BY DEF StartContainer, PhaseAt, DeployStages, Building, Starting, Ending
<1>2. BuiltInv' BY DEF StartContainer, BuiltInv
<1>3. SweepInv' BY DEF StartContainer, SweepInv, SweepReachesAll, Building, Starting
<1>4. EndInv' BY DEF StartContainer, EndInv
<1>5. NamesInv' BY DEF StartContainer, NamesInv, Listed
<1>6. ReportInv' BY HonestStays DEF StartContainer, ReportInv, Building
<1> QED BY <1>1, <1>2, <1>3, <1>4, <1>5, <1>6

\* What opens is a resource.
LEMMA OpenResourceKeeps == ASSUME DeployInv, OpenResource PROVE DeployInv'
<1> USE DEF DeployInv, builtVars, startVars, sweepVars, DeployTypes
<1>1. openNow' \subseteq Held(resources)
  <2>1. CASE ToStart = "none" BY <2>1 DEF OpenResource
  <2>2. CASE ToStart # "none"
    <3>1. ToStart \in Held(resources) BY <2>2, StartIsHeld
    <3>2. openNow' \in {openNow, openNow \cup {ToStart}} BY <2>2 DEF OpenResource
    <3> QED BY <3>1, <3>2
  <2> QED BY <2>1, <2>2
<1>2. stage' \in {"opening", "listing", "broken"} /\ stage = "opening" /\ degraded \subseteq degraded'
  BY DEF OpenResource
<1>3. DeployTypes' BY <1>1, <1>2 DEF OpenResource, PhaseAt, DeployStages, Building, Starting, Ending
<1>4. BuiltInv' BY <1>2 DEF OpenResource, BuiltInv
<1>5. SweepInv' BY <1>2 DEF OpenResource, SweepInv, SweepReachesAll, Building, Starting
<1>6. EndInv' BY <1>2 DEF OpenResource, EndInv
<1>7. NamesInv' BY <1>2 DEF OpenResource, NamesInv, Listed
<1>8. ReportInv' BY <1>2, HonestStays DEF OpenResource, ReportInv, Building
<1> QED BY <1>3, <1>4, <1>5, <1>6, <1>7, <1>8

\* A listing that passes the strict check knows the names under its prefix.
LEMMA ListServerKeeps == ASSUME DeployInv, ListServer PROVE DeployInv'
<1> USE DEF DeployInv, builtVars, startVars, sweepVars, DeployTypes
<1>1. stage = "listing" /\ stage' \in {"listing", "broken"} /\ names \subseteq names' BY DEF ListServer
<1>2. DeployTypes' BY <1>1 DEF ListServer, PhaseAt, DeployStages, Building, Starting, Ending
<1>3. BuiltInv' BY <1>1 DEF ListServer, BuiltInv
<1>4. SweepInv' BY <1>1 DEF ListServer, SweepInv, SweepReachesAll, Building, Starting
<1>5. EndInv' BY <1>1 DEF ListServer, EndInv
<1>6. NamesInv'
  <2>1. settings' = settings BY DEF ListServer
  <2> SUFFICES ASSUME settings.strict, stage' = "listing" PROVE NamesInv'
    <3>1. ~(settings.strict /\ stage' = "listing") => NamesInv' BY <1>1, <2>1 DEF NamesInv
    <3> QED BY <3>1
  <2>2. settings.uses \subseteq names' \cup Deferred(settings) BY <1>1 DEF NamesInv
  <2>3. ASSUME NEW x \in settings.mcp, x.name \in listed' PROVE settings.uses \cap x.tools \subseteq names'
    <3>1. CASE x.name \in listed BY <1>1, <3>1 DEF NamesInv
    <3>2. CASE x.name \notin listed
      <4>1. PICK s \in settings.mcp : \E offered \in SUBSET s.tools :
              /\ names' = names \cup offered /\ listed' = listed \cup {s.name}
              /\ stage' = IF UnknownTools(settings, s, offered) # {} /\ settings.strict THEN "broken" ELSE "listing"
        BY <2>3, <3>2 DEF ListServer
      <4>2. PICK offered \in SUBSET s.tools :
              /\ names' = names \cup offered /\ listed' = listed \cup {s.name}
              /\ stage' = IF UnknownTools(settings, s, offered) # {} /\ settings.strict THEN "broken" ELSE "listing"
        BY <4>1
      <4>3. x.name = s.name BY <2>3, <3>2, <4>2
      <4>4. x = s
        <5>1. settings \in Deployments OBVIOUS
        <5>2. \A a, b \in settings.mcp : a.name = b.name => a = b BY <5>1, DeploymentIs
        <5> QED BY <2>3, <4>1, <4>3, <5>2
      <4>5. UnknownTools(settings, s, offered) = {} BY <4>2
      <4> QED BY <4>2, <4>4, <4>5 DEF UnknownTools
    <3> QED BY <3>1, <3>2
  <2> QED BY <2>1, <2>2, <2>3 DEF NamesInv
<1>7. ReportInv' BY <1>1, HonestStays DEF ListServer, ReportInv, Building
<1> QED BY <1>2, <1>3, <1>4, <1>5, <1>6, <1>7

\* The work that was interrupted starts again.
LEMMA RecoverWorkKeeps == ASSUME DeployInv, RecoverWork PROVE DeployInv'
<1> USE DEF DeployInv, builtVars, startVars, sweepVars, DeployTypes
<1>1. Pools(settings) \subseteq Held(resources) BY PoolsHeld
<1>2. openNow' \subseteq Held(resources) BY <1>1 DEF RecoverWork

<1>3. /\ stage = "listing" /\ stage' = "recovered" /\ recovered' \subseteq {"runs", "turns", "workflows"}
      /\ work' \subseteq {"run", "turn", "workflow"} /\ degraded \subseteq degraded'
      /\ UNCHANGED <<builtVars, sweepVars, lifePhase, names, listed, toClose, report>>
  BY DEF RecoverWork
<1>4. DeployTypes' BY <1>2, <1>3 DEF RecoverWork, PhaseAt, DeployStages, Building, Starting, Ending
<1>5. BuiltInv' BY <1>3 DEF RecoverWork, BuiltInv
<1>6. SweepInv' BY <1>3 DEF RecoverWork, SweepInv, SweepReachesAll, Building, Starting
<1>7. EndInv' BY <1>3 DEF RecoverWork, EndInv
<1>8. NamesInv' BY <1>3 DEF RecoverWork, NamesInv, Listed
<1>9. ReportInv' BY <1>3, HonestStays DEF RecoverWork, ReportInv, Building
<1> QED BY <1>4, <1>5, <1>6, <1>7, <1>8, <1>9

\* The start is over.
LEMMA BecomeReadyKeeps == ASSUME DeployInv, BecomeReady PROVE DeployInv'
<1> USE DEF DeployInv, builtVars, startVars, sweepVars, DeployTypes
<1>1. DeployTypes' BY DEF BecomeReady, PhaseAt, DeployStages, Building, Starting, Ending
<1>2. BuiltInv' BY DEF BecomeReady, BuiltInv
<1>3. SweepInv' BY DEF BecomeReady, SweepInv, SweepReachesAll, Building, Starting
<1>4. EndInv' BY DEF BecomeReady, EndInv
<1>5. NamesInv' BY DEF BecomeReady, NamesInv, Listed
<1>6. ReportInv' BY HonestStays DEF BecomeReady, ReportInv, Building
<1> QED BY <1>1, <1>2, <1>3, <1>4, <1>5, <1>6

\* Work starts, and may open a pool again.
LEMMA StartWorkKeeps == ASSUME DeployInv, StartWork PROVE DeployInv'
<1> USE DEF DeployInv, builtVars, startVars, sweepVars, DeployTypes
<1>1. Pools(settings) \subseteq Held(resources) BY PoolsHeld
<1>2. openNow' \subseteq Held(resources) BY <1>1 DEF StartWork

<1>3. /\ work' \subseteq {"run", "turn", "workflow"} /\ work \subseteq work'
      /\ stage # "serving" => work # {} /\ {"turn", "workflow"} \cap work # {} /\ work' = work \cup {"run"}
      /\ UNCHANGED <<builtVars, startVars, sweepVars, stage, lifePhase, toClose, report>>
  BY DEF StartWork
<1>4. DeployTypes' BY <1>2, <1>3 DEF StartWork, PhaseAt, DeployStages, Building, Starting, Ending
<1>5. BuiltInv' BY <1>3 DEF StartWork, BuiltInv
<1>6. SweepInv' BY <1>3 DEF StartWork, SweepInv, SweepReachesAll, Building, Starting
<1>7. EndInv' BY <1>3 DEF StartWork, EndInv
<1>8. NamesInv' BY <1>3 DEF StartWork, NamesInv, Listed
<1>9. ReportInv' BY <1>3, HonestStays DEF StartWork, ReportInv, Building
<1> QED BY <1>4, <1>5, <1>6, <1>7, <1>8, <1>9

\* Work under way opens a pool again.
LEMMA UseStoresKeeps == ASSUME DeployInv, UseStores PROVE DeployInv'
<1> USE DEF DeployInv, builtVars, startVars, sweepVars, DeployTypes
<1>1. Pools(settings) \subseteq Held(resources) BY PoolsHeld
<1>2. openNow' \subseteq Held(resources) BY <1>1 DEF UseStores

<1>3. /\ work # {} /\ work' \subseteq work
      /\ UNCHANGED <<builtVars, startVars, sweepVars, stage, lifePhase, toClose, report>>
  BY DEF UseStores
<1>4. DeployTypes' BY <1>2, <1>3 DEF UseStores, PhaseAt, DeployStages, Building, Starting, Ending
<1>5. BuiltInv' BY <1>3 DEF UseStores, BuiltInv
<1>6. SweepInv' BY <1>3 DEF UseStores, SweepInv, SweepReachesAll, Building, Starting
<1>7. EndInv' BY <1>3 DEF UseStores, EndInv
<1>8. NamesInv' BY <1>3 DEF UseStores, NamesInv, Listed
<1>9. ReportInv' BY <1>3, HonestStays DEF UseStores, ReportInv, Building
<1> QED BY <1>4, <1>5, <1>6, <1>7, <1>8, <1>9

\* A wait passes its deadline.
LEMMA PauseRunsOutKeeps == ASSUME DeployInv, PauseRunsOut PROVE DeployInv'
<1> USE DEF DeployInv, builtVars, startVars, sweepVars, DeployTypes
<1>1. DeployTypes' BY DEF PauseRunsOut, PhaseAt, DeployStages, Building, Starting, Ending
<1>2. BuiltInv' BY DEF PauseRunsOut, BuiltInv
<1>3. SweepInv' BY DEF PauseRunsOut, SweepInv, SweepReachesAll, Building, Starting
<1>4. EndInv' BY DEF PauseRunsOut, EndInv
<1>5. NamesInv' BY DEF PauseRunsOut, NamesInv, Listed
<1>6. ReportInv' BY HonestStays DEF PauseRunsOut, ReportInv, Building
<1> QED BY <1>1, <1>2, <1>3, <1>4, <1>5, <1>6

\* A sweep has all its tasks before it.
LEMMA BeginSweepKeeps == ASSUME DeployInv, BeginSweep PROVE DeployInv'
<1> USE DEF DeployInv, builtVars, startVars, sweepVars, DeployTypes
<1>1. stage = "serving" /\ sweeping' = "busy" /\ sweepLeft' = SweepTasks /\ sweepDone' = {} /\ sweepErrors' = {}
  BY DEF BeginSweep, SweepInv
<1>2. DeployTypes' BY DEF BeginSweep, PhaseAt, DeployStages, Building, Starting, Ending
<1>3. BuiltInv' BY DEF BeginSweep, BuiltInv
<1>4. SweepInv'
  <2>1. 6 - Len(SweepTasks) = 0 BY TasksAre
  <2>2. \A i \in 1..Len(sweepLeft') : sweepLeft'[i] = SweepTasks[6 - Len(sweepLeft') + i]
    <3>1. \A i \in 1..6 : 6 - 6 + i = i OBVIOUS
    <3> QED BY <1>1, <3>1, TasksAre
  <2>3. sweepLeft' \in Seq(TaskNames) /\ Len(sweepLeft') <= 6 /\ {} = Passed(6 - Len(sweepLeft')) BY <1>1, TasksAre
  <2>4. stage' = stage BY DEF BeginSweep
  <2>5. SweepReachesAll' BY <1>1 DEF SweepReachesAll
  <2> QED BY <1>1, <2>2, <2>3, <2>4, <2>5 DEF SweepInv, Building, Starting
<1>5. EndInv' BY DEF BeginSweep, EndInv
<1>6. NamesInv' BY DEF BeginSweep, NamesInv, Listed
<1>7. ReportInv' BY HonestStays DEF BeginSweep, ReportInv, Building
<1> QED BY <1>2, <1>3, <1>4, <1>5, <1>6, <1>7

\* A task is done or fails, and is not left.
LEMMA SweepTaskKeeps == ASSUME DeployInv, SweepTask PROVE DeployInv'
<1> USE DEF DeployInv, builtVars, startVars, sweepVars, DeployTypes
<1>1. Pools(settings) \subseteq Held(resources) BY PoolsHeld
<1>2. openNow' \subseteq Held(resources) BY <1>1 DEF SweepTask

<1>3. /\ sweeping = "busy" /\ stage = "serving" /\ sweepLeft # <<>> /\ sweepLeft' = Tail(sweepLeft)
      /\ sweepDone' \cup sweepErrors' = (sweepDone \cup sweepErrors) \cup {Head(sweepLeft)}
      /\ sweepDone' \in {sweepDone, sweepDone \cup {Head(sweepLeft)}}
      /\ UNCHANGED <<builtVars, startVars, stage, lifePhase, work, sweeping, toClose, report>>
  BY DEF SweepTask, AfterFailure, SweepInv
<1>4. /\ overdue' \in {"none", "run", "turn"}
      /\ overdue' = "turn" => overdue = "turn" \/ Head(sweepLeft) = "paused_runs"
      /\ "pending_turns" \in sweepDone' /\ "pending_turns" \notin sweepDone => overdue' # "turn"
  BY DEF SweepTask
<1>5. DeployTypes' BY <1>2, <1>3, <1>4 DEF SweepTask, PhaseAt, DeployStages, Building, Starting, Ending
<1>6. BuiltInv' BY <1>3 DEF SweepTask, BuiltInv
<1>7. SweepInv'
  <2> DEFINE m == Len(sweepLeft)
             n == 6 - m
  <2>1. /\ sweepLeft \in Seq(TaskNames) /\ m <= 6 /\ (\A i \in 1..m : sweepLeft[i] = SweepTasks[6 - m + i])
        /\ sweepDone \cup sweepErrors = Passed(6 - m)
        /\ ("pending_turns" \in sweepDone => overdue # "turn")
    BY <1>3 DEF SweepInv
  <2>2. m \in 1..6
    <3>1. m \in Nat BY <2>1, LenProperties
    <3>2. m # 0 BY <1>3, <2>1, EmptySeq
    <3> HIDE DEF m
    <3> QED BY <2>1, <3>1, <3>2
  <2>3. /\ Tail(sweepLeft) \in Seq(TaskNames) /\ Len(Tail(sweepLeft)) = m - 1
        /\ \A i \in 1..(m - 1) : Tail(sweepLeft)[i] = sweepLeft[i + 1]
    BY <1>3, <2>1, HeadTailProperties
  <2>4. Head(sweepLeft) = SweepTasks[n + 1]
    <3>1. Head(sweepLeft) = sweepLeft[1] BY <1>3, <2>1
    <3> HIDE DEF DeployTypes
    <3>2. 1 \in 1..m BY <2>2
    <3> QED BY <2>1, <3>1, <3>2
  <2>5. n \in 0..5 /\ 6 - Len(sweepLeft') = n + 1 BY <1>3, <2>2, <2>3
  <2>6. sweepDone' \cup sweepErrors' = Passed(6 - Len(sweepLeft'))
    <3>1. Passed(n + 1) = Passed(n) \cup {SweepTasks[n + 1]} BY <2>5, TasksAre
    <3> QED BY <1>3, <2>1, <2>4, <2>5, <3>1
  <2>7. ASSUME NEW i \in 1..Len(sweepLeft') PROVE sweepLeft'[i] = SweepTasks[6 - Len(sweepLeft') + i]
    <3>1. i \in 1..(m - 1) /\ i + 1 \in 1..m BY <1>3, <2>2, <2>3, <2>7
    <3>2. sweepLeft'[i] = SweepTasks[6 - m + (i + 1)] BY <1>3, <2>1, <2>3, <3>1
    <3>3. 6 - m + (i + 1) = 6 - Len(sweepLeft') + i BY <1>3, <2>2, <2>3, <3>1
    <3> QED BY <3>2, <3>3
  <2>8. ASSUME "pending_turns" \in sweepDone' PROVE overdue' # "turn"
    <3>1. CASE "pending_turns" \notin sweepDone BY <1>4, <2>8, <3>1
    <3>2. CASE "pending_turns" \in sweepDone
      <4>1. "pending_turns" \in Passed(n) BY <2>1, <3>2
      <4>2. PICK j \in 1..n : SweepTasks[j] = "pending_turns" BY <4>1 DEF Passed
      <4>3. j = 2 BY <2>5, <4>2, TasksAre
      <4>4. n + 1 \in 1..6 /\ n + 1 # 1 BY <2>5, <4>2, <4>3
      <4>5. Head(sweepLeft) # "paused_runs" BY <2>4, <4>4, TasksAre
      <4> QED BY <1>4, <2>1, <3>2, <4>5
    <3> QED BY <3>1, <3>2
  <2>9. sweepLeft' \in Seq(TaskNames) /\ Len(sweepLeft') <= 6
    <3>1. sweepLeft' = Tail(sweepLeft) BY <1>3
    <3>2. sweepLeft' \in Seq(TaskNames) /\ Len(sweepLeft') = m - 1 BY <2>3, <3>1
    <3> HIDE DEF m
    <3> QED BY <2>2, <3>2
  <2>10. SweepReachesAll' BY <1>3 DEF SweepReachesAll
  <2> HIDE DEF m, n
  <2> QED BY <1>3, <2>6, <2>7, <2>8, <2>9, <2>10 DEF SweepInv, Building, Starting
<1>8. EndInv' BY <1>3 DEF SweepTask, EndInv
<1>9. NamesInv' BY <1>3 DEF SweepTask, NamesInv, Listed
<1>10. ReportInv' BY <1>3, HonestStays DEF SweepTask, ReportInv, Building
<1> QED BY <1>5, <1>6, <1>7, <1>8, <1>9, <1>10

\* A sweep is over when nothing is left to it.
LEMMA EndSweepKeeps == ASSUME DeployInv, EndSweep PROVE DeployInv'
<1> USE DEF DeployInv, builtVars, startVars, sweepVars, DeployTypes
<1>1. /\ sweeping = "busy" /\ stage = "serving" /\ sweepLeft = <<>> /\ sweeping' = "idle"
      /\ UNCHANGED <<builtVars, startVars, stage, lifePhase, openNow, work, sweepLeft, sweepDone, sweepErrors, overdue,
                     toClose, report>>
  BY DEF EndSweep, SweepInv
<1>2. DeployTypes' BY <1>1 DEF EndSweep, PhaseAt, DeployStages, Building, Starting, Ending
<1>3. BuiltInv' BY <1>1 DEF EndSweep, BuiltInv
<1>4. SweepInv'
  <2>1. sweepDone \cup sweepErrors = Passed(6 - Len(sweepLeft)) /\ ("pending_turns" \in sweepDone => overdue # "turn")
    BY <1>1 DEF SweepInv
  <2>2. sweepDone \cup sweepErrors = TaskNames
    <3>1. 6 - Len(sweepLeft) = 6 BY <1>1, EmptySeq
    <3> QED BY <2>1, <3>1, TasksAre
  <2>3. SweepReachesAll' BY <1>1, <2>2, TasksAre DEF SweepReachesAll
  <2> QED BY <1>1, <2>1, <2>3 DEF SweepInv, Building, Starting
<1>5. EndInv' BY <1>1 DEF EndSweep, EndInv
<1>6. NamesInv' BY <1>1 DEF EndSweep, NamesInv, Listed
<1>7. ReportInv' BY <1>1, HonestStays DEF EndSweep, ReportInv, Building
<1> QED BY <1>2, <1>3, <1>4, <1>5, <1>6, <1>7

\* A report says ready only when nothing that is required is down.
LEMMA ReadinessReportKeeps == ASSUME DeployInv, ReadinessReport PROVE DeployInv'
<1>1. /\ stage \notin Building \ {"built"} /\ stage \notin {"closing", "over"}
      /\ UNCHANGED <<builtVars, startVars, sweepVars, stage, lifePhase, openNow, work, toClose>>
  BY DEF ReadinessReport, DeployInv, DeployTypes, PhaseAt, DeployStages, Building, Starting, Ending
<1>2. PICK down \in SUBSET (Probed \cup settings.providers) :
        report' = [at |-> "probing", ready |-> Failing(settings, down) = {}, down |-> down, degraded |-> degraded]
  BY DEF ReadinessReport, FewDown
<1>3. DeployTypes' BY <1>1, <1>2 DEF DeployInv, builtVars, startVars, sweepVars, DeployTypes
<1>4. BuiltInv' BY <1>1 DEF DeployInv, builtVars, BuiltInv
<1>5. SweepInv' BY <1>1 DEF DeployInv, sweepVars, SweepInv, SweepReachesAll
<1>6. EndInv' BY <1>1 DEF DeployInv, builtVars, EndInv
<1>7. NamesInv' BY <1>1 DEF DeployInv, builtVars, startVars, NamesInv, Listed
<1>8. ReportInv'
  <2>1. SUFFICES ASSUME Failing(settings, down) = {} PROVE ReportHonest'
    BY <1>1, <1>2 DEF ReportInv, ReportHonest
  <2>2. report'.down = down /\ report'.degraded = degraded BY <1>2
  <2>3. /\ settings' = settings /\ backing' = backing /\ resources' = resources /\ degraded' = degraded
    BY <1>1 DEF builtVars, startVars
  <2>4. \A n \in EntriesDown(settings, down) : ~IsRequired(settings, n, DefaultRequired(settings, n))
    BY <2>1 DEF Failing
  <2>5. ASSUME settings.requireDurable, NEW n \in StoresDeclared(settings) \cup Uncovered(settings),
               n \in EntriesDown(settings, down)
        PROVE  Exempt(n)
    <3>1. DefaultRequired(settings, n) BY <2>5 DEF DefaultRequired
    <3> QED BY <2>4, <2>5, <3>1 DEF IsRequired, Exempt
  <2>6. ASSUME settings.requireDurable, NEW n \in StoresDeclared(settings), Needs(settings, n) \cap down # {}
        PROVE  Exempt(n)
    <3>1. n \in EntriesDown(settings, down) BY <2>6 DEF EntriesDown, Declared
    <3> QED BY <2>5, <2>6, <3>1
  <2>7. ASSUME settings.requireDurable, NEW k \in DOMAIN backing, backing[k] \in down
        PROVE  \/ Exempt(backing[k])
               \/ \E n \in Declared(settings) : ResourceOf(settings, n) = backing[k] /\ Exempt(n)
    <3>1. CASE \E n \in Declared(settings) : ResourceOf(settings, n) = backing[k]
      <4>1. PICK n \in Declared(settings) : ResourceOf(settings, n) = backing[k] BY <3>1
      <4>2. backing[k] \in Needs(settings, n) \cap down BY <2>7, <4>1 DEF Needs
      <4>3. CASE n \in StoresDeclared(settings) BY <2>6, <2>7, <4>1, <4>2, <4>3
      <4>4. CASE n = "cache.redis" BY <4>1, <4>4 DEF Exempt
      <4> QED BY <4>1, <4>3, <4>4 DEF Declared
    <3>2. CASE ~\E n \in Declared(settings) : ResourceOf(settings, n) = backing[k]
      <4>1. backing[k] \in Handles \cup {"process", "none"}
        <5>1. Held(resources) \subseteq Handles BY ElementOfSeq DEF DeployInv, DeployTypes, Held
        <5> QED BY <5>1 DEF DeployInv, DeployTypes
      <4>2. backing[k] \in Probed BY <2>7, <4>1, DeploymentAssumption DEF DeployInv, DeployTypes
      <4>3. backing[k] \in Uncovered(settings) BY <3>2, <4>2 DEF Uncovered
      <4>4. backing[k] \in EntriesDown(settings, down) BY <2>7, <4>3 DEF EntriesDown
      <4> QED BY <2>5, <2>7, <4>3, <4>4
    <3> QED BY <3>1, <3>2
  <2>8. settings.requiredNames \subseteq Entries(settings) \ degraded
    <3>1. \A n \in settings.requiredNames : n \notin EntriesDown(settings, down) BY <2>4 DEF IsRequired
    <3> QED BY <3>1 DEF EntriesDown
  <2>9. /\ StoresDeclared(settings)' = StoresDeclared(settings) /\ Declared(settings)' = Declared(settings)
        /\ Entries(settings)' = Entries(settings)
        /\ \A n : Needs(settings, n)' = Needs(settings, n) /\ ResourceOf(settings, n)' = ResourceOf(settings, n)
        /\ \A n : Exempt(n)' = Exempt(n)
    BY <2>3 DEF StoresDeclared, Declared, Entries, Uncovered, Probed, Needs, ResourceOf, Exempt
  <2> QED BY <2>2, <2>3, <2>6, <2>7, <2>8, <2>9 DEF ReportHonest
<1> QED BY <1>3, <1>4, <1>5, <1>6, <1>7, <1>8 DEF DeployInv

\* What a probe opens while aclose is under way is marked as late.
LEMMA ProbesAnswerKeeps == ASSUME DeployInv, ProbesAnswer PROVE DeployInv'
<1>1. Pools(settings) \subseteq Held(resources) BY PoolsHeld DEF DeployInv
<1>2. /\ openNow' \subseteq openNow \cup Pools(settings) /\ report'.at \in {"no", "late"} /\ ~report'.ready
      /\ UNCHANGED <<builtVars, startVars, sweepVars, stage, lifePhase, work, toClose>>
  BY DEF ProbesAnswer, NoReport
<1>3. stage \in {"closing", "over"} => report'.at # "no"
  BY DEF ProbesAnswer, NoReport, DeployInv, DeployTypes, PhaseAt, DeployStages, Building, Starting, Ending
<1>4. DeployTypes' BY <1>1, <1>2 DEF DeployInv, builtVars, startVars, sweepVars, DeployTypes
<1>5. BuiltInv' BY <1>2 DEF DeployInv, builtVars, BuiltInv
<1>6. SweepInv' BY <1>2 DEF DeployInv, sweepVars, SweepInv, SweepReachesAll
<1>7. EndInv' BY <1>2, <1>3 DEF DeployInv, builtVars, EndInv
<1>8. NamesInv' BY <1>2 DEF DeployInv, builtVars, startVars, NamesInv, Listed
<1>9. ReportInv' BY <1>2, HonestStays DEF DeployInv, ReportInv, startVars
<1> QED BY <1>4, <1>5, <1>6, <1>7, <1>8, <1>9 DEF DeployInv

\* The draining begins; the maintenance has stopped.
LEMMA BeginCloseKeeps == ASSUME DeployInv, BeginClose PROVE DeployInv'
<1> USE DEF DeployInv, builtVars, startVars, sweepVars, DeployTypes
<1>1. resources \in Seq(Handles) /\ Len(resources) \in Nat BY LenProperties
<1>2. Len(resources) \in 0..Len(resources) BY <1>1
<1>3. DeployTypes' BY <1>2 DEF BeginClose, PhaseAt, DeployStages, Building, Starting, Ending
<1>4. BuiltInv' BY DEF BeginClose, BuiltInv
<1>5. SweepInv' BY DEF BeginClose, SweepInv, SweepReachesAll, Building, Starting
<1>6. EndInv' BY DEF BeginClose, EndInv
<1>7. NamesInv' BY DEF BeginClose, NamesInv, Listed
<1>8. ReportInv' BY HonestStays DEF BeginClose, ReportInv, Building
<1> QED BY <1>3, <1>4, <1>5, <1>6, <1>7, <1>8

\* Each kind of work ends, those that start runs before the runs.
LEMMA DrainWorkKeeps == ASSUME DeployInv, DrainWork PROVE DeployInv'
<1> USE DEF DeployInv, builtVars, startVars, sweepVars, DeployTypes
<1>1. Pools(settings) \subseteq Held(resources) BY PoolsHeld
<1>2. openNow' \subseteq Held(resources) BY <1>1 DEF DrainWork

<1>3. /\ \/ stage = "drain workflow" /\ stage' = "drain turn" /\ work' = work \ {"workflow"}
         \/ stage = "drain turn" /\ stage' = "drain run" /\ work' = work \ {"turn"}
         \/ stage = "drain run" /\ stage' = "closing" /\ work' = work \ {"run"}
      /\ UNCHANGED <<builtVars, startVars, sweepVars, lifePhase, toClose, report>>
  <2>1. PICK i \in 1..3 : /\ stage = <<"drain workflow", "drain turn", "drain run">>[i]
                          /\ work' = work \ {<<"workflow", "turn", "run">>[i]}
                          /\ stage' = <<"drain turn", "drain run", "closing">>[i]
    BY DEF DrainWork, DrainOrder
  <2>2. i = 1 \/ i = 2 \/ i = 3 OBVIOUS
  <2>3. UNCHANGED <<builtVars, startVars, sweepVars, lifePhase, toClose, report>> BY DEF DrainWork
  <2>4. CASE i = 1 BY <2>1, <2>3, <2>4
  <2>5. CASE i = 2 BY <2>1, <2>3, <2>5
  <2>6. CASE i = 3 BY <2>1, <2>3, <2>6
  <2> QED BY <2>2, <2>4, <2>5, <2>6
<1>4. DeployTypes' BY <1>2, <1>3 DEF DrainWork, PhaseAt, DeployStages, Building, Starting, Ending
<1>5. BuiltInv' BY <1>3 DEF DrainWork, BuiltInv
<1>6. SweepInv' BY <1>3 DEF DrainWork, SweepInv, SweepReachesAll, Building, Starting
<1>7. EndInv'
  <2>1. resources' = resources /\ toClose' = toClose BY <1>3
  <2>2. toClose' = Len(resources') BY <1>3, <2>1 DEF EndInv
  <2>3. stage' = "drain run" => {"workflow", "turn"} \cap work' = {} BY <1>3 DEF EndInv
  <2>4. stage' = "closing" => work' = {} BY <1>3 DEF EndInv
  <2>5. \A x \in openNow' : \E i \in 1..toClose' : resources'[i] = x BY <1>2, <2>1, <2>2 DEF Held
  <2>6. stage' \in {"drain turn", "drain run", "closing"} /\ (stage' = "drain turn" => "workflow" \notin work') BY <1>3
  <2> QED BY <2>2, <2>3, <2>4, <2>5, <2>6 DEF EndInv
<1>8. NamesInv' BY <1>3 DEF DrainWork, NamesInv, Listed
<1>9. ReportInv' BY <1>3, HonestStays DEF DrainWork, ReportInv, Building
<1> QED BY <1>4, <1>5, <1>6, <1>7, <1>8, <1>9

\* One resource after the other is closed, from the last.
LEMMA CloseResourcesKeeps == ASSUME DeployInv, CloseResources PROVE DeployInv'
<1> USE DEF DeployInv, builtVars, startVars, sweepVars, DeployTypes
<1>1. stage = "closing" /\ lifePhase = "draining" /\ toClose \in 0..Len(resources) /\ Len(resources) \in Nat
  BY LenProperties DEF CloseResources, PhaseAt, DeployStages, Building, Starting, Ending
<1>2. /\ stage' \in {"closing", "over", "unclean"} /\ openNow' \subseteq openNow /\ toClose' \in 0..Len(resources)
      /\ lifePhase' = (IF stage' = "over" THEN "stopped" ELSE "draining") /\ (stage' = "over" => toClose' = 0)
      /\ UNCHANGED <<builtVars, startVars, sweepVars, work, report>>
  BY <1>1 DEF CloseResources
<1>3. ASSUME stage' \in {"closing", "over"}, report.at = "no", NEW r \in openNow' PROVE \E i \in 1..toClose' : resources[i] = r
  <2>1. PICK i \in 1..toClose : resources[i] = r BY <1>1, <1>2, <1>3 DEF EndInv
  <2>2. toClose' = toClose \/ (toClose' = toClose - 1 /\ openNow' = openNow \ {resources[toClose]})
    BY <1>1, <1>3 DEF CloseResources
  <2>3. CASE toClose' = toClose BY <2>1, <2>3
  <2>4. CASE toClose' = toClose - 1 /\ openNow' = openNow \ {resources[toClose]}
    <3>1. i # toClose BY <1>3, <2>1, <2>4
    <3> QED BY <1>1, <2>1, <2>4, <3>1
  <2> QED BY <2>2, <2>3, <2>4
<1>4. DeployTypes' BY <1>1, <1>2 DEF CloseResources, PhaseAt, DeployStages, Building, Starting, Ending
<1>5. BuiltInv' BY <1>1, <1>2 DEF CloseResources, BuiltInv
<1>6. SweepInv' BY <1>1, <1>2 DEF CloseResources, SweepInv, SweepReachesAll, Building, Starting
<1>7. EndInv'
  <2>1. resources' = resources /\ work' = work /\ work = {} BY <1>1, <1>2 DEF EndInv
  <2>2. stage' \in {"closing", "over"} /\ report'.at = "no" => \A x \in openNow' : \E i \in 1..toClose' : resources'[i] = x
    BY <1>2, <1>3, <2>1
  <2> QED BY <1>2, <2>1, <2>2 DEF EndInv
<1>8. NamesInv' BY <1>1, <1>2 DEF CloseResources, NamesInv, Listed
<1>9. ReportInv' BY <1>1, <1>2, HonestStays DEF CloseResources, ReportInv, Building
<1> QED BY <1>4, <1>5, <1>6, <1>7, <1>8, <1>9

\* Every step of a deployment keeps what its stages have settled.
LEMMA DeployStep == ASSUME DeployInv, [DeployNext]_deployVars PROVE DeployInv'
<1>1. CASE UNCHANGED deployVars
  <2> USE <1>1 DEF deployVars, DeployInv
  <2>1. DeployTypes' BY DEF DeployTypes
  <2>2. BuiltInv' BY DEF BuiltInv
  <2>3. SweepInv' BY DEF SweepInv, SweepReachesAll
  <2>4. EndInv' BY DEF EndInv
  <2>5. NamesInv' BY DEF NamesInv, Listed
  <2>6. ReportInv' BY HonestStays DEF ReportInv, builtVars
  <2> QED BY <2>1, <2>2, <2>3, <2>4, <2>5, <2>6
<1>2. CASE DeployNext
  BY <1>2, BuildClientsKeeps, BuildCacheKeeps, BuildStoresKeeps, BuildProvidersKeeps, BuildRetrieversKeeps,
     BuildPluginsKeeps, CheckComponentsKeeps, AssembleKeeps, StartContainerKeeps, OpenResourceKeeps, ListServerKeeps,
     RecoverWorkKeeps, BecomeReadyKeeps, StartWorkKeeps, UseStoresKeeps, PauseRunsOutKeeps, BeginSweepKeeps,
     SweepTaskKeeps, EndSweepKeeps, ReadinessReportKeeps, ProbesAnswerKeeps, BeginCloseKeeps, DrainWorkKeeps, CloseResourcesKeeps
     DEF DeployNext
<1> QED BY <1>1, <1>2

LEMMA DeployBegins == DeployInit => DeployInv
<1> SUFFICES ASSUME DeployInit PROVE DeployInv OBVIOUS
<1>1. DeployTypes
  <2>1. resources \in Seq(Handles) /\ Held(resources) = {} /\ Len(resources) = 0 BY HeldNone DEF DeployInit
  <2>2. DOMAIN backing = DOMAIN settings.backend /\ \A k \in DOMAIN backing : backing[k] = "none" BY DEF DeployInit
  <2> QED BY <2>1, <2>2 DEF DeployInit, DeployTypes, NoReport, PhaseAt, DeployStages, Building, Starting, Ending
<1>2. BuiltInv BY DEF DeployInit, BuiltInv
<1>3. SweepInv BY DEF DeployInit, SweepInv, SweepReachesAll
<1>4. EndInv BY DEF DeployInit, EndInv
<1>5. NamesInv BY DEF DeployInit, NamesInv
<1>6. ReportInv BY DEF DeployInit, ReportInv, ReportHonest, NoReport
<1> QED BY <1>1, <1>2, <1>3, <1>4, <1>5, <1>6 DEF DeployInv

\* What the stages have settled is what a deployment promises.
LEMMA DeployInvSafe == DeployInv => DeploySafe
<1> SUFFICES ASSUME DeployInv PROVE DeploySafe OBVIOUS
<1>1. resources \in Seq(Handles) /\ Held(resources) \subseteq Handles /\ \A i \in 1..Len(resources) : resources[i] \in Handles
  <2>1. resources \in Seq(Handles) BY DEF DeployInv, DeployTypes
  <2>2. \A i \in 1..Len(resources) : resources[i] \in Handles BY <2>1, ElementOfSeq
  <2> QED BY <2>1, <2>2 DEF Held
<1>2. DeployTypeOK
  BY <1>1 DEF DeployInv, DeployTypes, DeployTypeOK, LifePhases, PhaseAt, DeployStages
<1>3. StoresBacked
  <2> SUFFICES ASSUME lifePhase \in {"starting", "ready"}, NEW k \in DOMAIN backing
               PROVE  /\ backing[k] # "none"
                      /\ backing[k] = "process" \/ \E i \in 1..Len(resources) : resources[i] = backing[k]
    BY DEF StoresBacked
  <2>1. stage \in Starting \cup {"serving"}
    BY DEF DeployInv, DeployTypes, PhaseAt, DeployStages, Building, Starting, Ending
  <2>2. backing[k] # "none" BY <2>1 DEF DeployInv, BuiltInv, Starting
  <2>3. backing[k] \in Held(resources) \cup {"process"} BY <2>2 DEF DeployInv, DeployTypes
  <2> QED BY <2>2, <2>3 DEF Held
<1>4. NothingLeftOpen
  <2> SUFFICES ASSUME lifePhase = "stopped", report.at = "no" \/ work # {} PROVE openNow = {} /\ work = {}
    BY DEF NothingLeftOpen
  <2>1. stage = "over" BY DEF DeployInv, DeployTypes, PhaseAt, DeployStages, Building, Starting, Ending
  <2>2. work = {} /\ toClose = 0 /\ (report.at = "no" => \A r \in openNow : \E i \in 1..toClose : resources[i] = r)
    BY <2>1 DEF DeployInv, EndInv
  <2> QED BY <2>2
<1>5. SweepReachesAll /\ TurnsFollowRuns BY DEF DeployInv, SweepInv, TurnsFollowRuns
<1>6. ReportHonest BY DEF DeployInv, ReportInv
<1>7. NamesKnown
  <2> SUFFICES ASSUME lifePhase = "ready", settings.strict, NEW x \in settings.uses, x \notin names
               PROVE  x \in UNION {s.tools : s \in {y \in settings.mcp : y.name \in degraded}}
    BY DEF NamesKnown
  <2>1. stage = "serving" BY DEF DeployInv, DeployTypes, PhaseAt, DeployStages, Building, Starting, Ending
  <2>2. PICK s \in settings.mcp : x \in s.tools BY <2>1 DEF DeployInv, NamesInv, Deferred
  <2>3. s.name \in degraded \cup listed BY <2>1 DEF DeployInv, NamesInv, Listed
  <2>4. s.name \notin listed BY <2>1, <2>2 DEF DeployInv, NamesInv
  <2> QED BY <2>2, <2>3, <2>4
<1> QED BY <1>2, <1>3, <1>4, <1>5, <1>6, <1>7 DEF DeploySafe

\* A deployment is built with what its stores need, knows its tools, reports itself honestly, reaches every task
\* of a sweep and leaves nothing open (orchestration/container.py, readiness.py, maintenance.py).
THEOREM DeploymentIsSafe == DeploySpec => []DeploySafe
<1>1. DeploySpec => []DeployInv BY DeployBegins, DeployStep, PTL DEF DeploySpec
<1> QED BY <1>1, DeployInvSafe, PTL


-----------------------------------------------------------------------------
(* Plugins: a reference keeps its verdict once it has one, nothing is      *)
(* imported before the last verdict, and what an imported plugin has       *)
(* registered stays its own.                                               *)

Passing == IF signing = "required" THEN {"signed"} ELSE {"signed", "unsigned"}
AllPass == \A n \in References : IsTrusted(n) /\ verified[n].outcome \in Passing
PartsOf(m) == Registers[m[1]][m[2]]

PluginTypes ==
  /\ signing \in {"off", "optional", "required"}
  /\ content \in [Packages -> PluginContents]
  /\ signature \in [Packages -> signings \cup {NoSignature}]
  /\ verified \in [References -> [outcome : {"unchecked", "unsigned", "signed", "refused"},
                                  by : signings \cup {NoSignature}]]
  /\ loader \in [at : {"down", "verify", "load", "register", "up", "failed"}, next : 1..Len(DomainPlugins),
                 part : Nat \ {0}, imported : SUBSET (References \X PluginContents)]

VerdictInv ==
  /\ SignedForIt
  /\ \A n \in References : verified[n].outcome \in Passing \cup {"unchecked", "refused"}
  /\ loader.at = "down" => loader = LoaderDown
  /\ loader.at = "verify" =>
       /\ loader.imported = {} /\ \A n \in References : IsTrusted(n)
       /\ \A i \in 1..Len(DomainPlugins) : i < loader.next => verified[DomainPlugins[i]].outcome \in Passing
  /\ loader.at \in {"load", "register", "up"} \/ loader.imported # {} => AllPass

\* The plugins are imported in their order, each once.
ImportInv ==
  /\ \A m, o \in loader.imported : m[1] = o[1] => m = o
  /\ loader.at \in {"load", "register", "up"} =>
       \A i \in 1..Len(DomainPlugins) :
         (\E c \in PluginContents : <<DomainPlugins[i], c>> \in loader.imported)
           <=> (i < loader.next \/ (loader.at # "load" /\ i = loader.next))
  /\ loader.at = "up" => loader.next = Len(DomainPlugins)

\* What is registered is registered by who declared it.
OwnersInv ==
  /\ \A c \in RuntimeComponents : c \in DOMAIN owners /\ owners[c] = "runtime"
  /\ loader.at \in {"load", "register", "up"} =>
       \A m \in loader.imported : \A i \in 1..Len(PartsOf(m)) :
         (loader.at = "register" /\ m[1] = DomainPlugins[loader.next] => i < loader.part)
           => PartsOf(m)[i] \in DOMAIN owners /\ owners[PartsOf(m)[i]] = m[1]

PluginInv == PluginTypes /\ VerdictInv /\ ImportInv /\ OwnersInv

\* The constants are what the assumption says.
LEMMA PluginsAre ==
  /\ Len(DomainPlugins) \in Nat \ {0} /\ References = {DomainPlugins[i] : i \in 1..Len(DomainPlugins)}
  /\ \A n \in References : PackageOf[n] \in Packages
  /\ \A i, j \in 1..Len(DomainPlugins) : DomainPlugins[i] = DomainPlugins[j] => i = j
  /\ \A n \in References : \A c \in PluginContents : Registers[n][c] \in Seq(STRING)
  /\ PluginContents # {}
<1>1. DOMAIN DomainPlugins = 1..Len(DomainPlugins) BY PluginConstants DEF PluginConstants
<1> QED BY <1>1, PluginConstants DEF PluginConstants, References, Packages

\* The plugin under way is one of the references.
LEMMA NextIs == ASSUME PluginTypes PROVE loader.next \in 1..Len(DomainPlugins) /\ DomainPlugins[loader.next] \in References
BY PluginsAre DEF PluginTypes

\* Packages change under a start, which keeps what it has verified and imported.
LEMMA EditsKeep ==
  ASSUME PluginInv, UNCHANGED <<signing, loader, verified, owners>>, signings \subseteq signings',
         content' \in [Packages -> PluginContents], signature' \in [Packages -> signings' \cup {NoSignature}]
  PROVE  PluginInv'
<1>1. PluginTypes'
  <2>1. \A n \in References : verified[n].by \in signings' \cup {NoSignature} BY DEF PluginInv, PluginTypes
  <2>2. verified' \in [References -> [outcome : {"unchecked", "unsigned", "signed", "refused"},
                                      by : signings' \cup {NoSignature}]]
    <3>1. signings \cup {NoSignature} \subseteq signings' \cup {NoSignature} OBVIOUS
    <3>2. verified' = verified OBVIOUS
    <3> QED BY <3>1, <3>2 DEF PluginInv, PluginTypes
  <2> QED BY <2>2 DEF PluginInv, PluginTypes
<1>2. VerdictInv' BY DEF PluginInv, VerdictInv, SignedForIt, Passing, AllPass, IsTrusted
<1>3. ImportInv' BY DEF PluginInv, ImportInv
<1>4. OwnersInv' BY DEF PluginInv, OwnersInv, PartsOf
<1> QED BY <1>1, <1>2, <1>3, <1>4 DEF PluginInv

LEMMA EditPackageKeeps == ASSUME PluginInv, NEW p \in Packages, EditPackage(p) PROVE PluginInv'
<1>1. PICK c \in PluginContents : content' = [content EXCEPT ![p] = c] BY DEF EditPackage
<1>2. content' \in [Packages -> PluginContents] BY <1>1 DEF PluginInv, PluginTypes
<1>3. UNCHANGED <<signing, loader, verified, owners, signature, signings>> BY DEF EditPackage, Editing
<1>4. signature' \in [Packages -> signings' \cup {NoSignature}] BY <1>3 DEF PluginInv, PluginTypes
<1> QED BY <1>2, <1>3, <1>4, EditsKeep

LEMMA CopyPackageKeeps == ASSUME PluginInv, NEW p \in Packages, NEW q \in Packages, CopyPackage(p, q) PROVE PluginInv'
<1>1. content' = [content EXCEPT ![q] = content[p]] /\ signature' = [signature EXCEPT ![q] = signature[p]]
  BY DEF CopyPackage
<1>2. UNCHANGED <<signing, loader, verified, owners, signings>> BY DEF CopyPackage, Editing
<1>3. content' \in [Packages -> PluginContents] BY <1>1 DEF PluginInv, PluginTypes
<1>4. signature' \in [Packages -> signings' \cup {NoSignature}] BY <1>1, <1>2 DEF PluginInv, PluginTypes
<1> QED BY <1>2, <1>3, <1>4, EditsKeep

LEMMA SignPackageKeeps == ASSUME PluginInv, NEW p \in Packages, NEW s \in Signers, SignPackage(p, s) PROVE PluginInv'
<1>1. PICK d : signature' = [signature EXCEPT ![p] = d] /\ signings' = signings \cup {d} BY DEF SignPackage
<1>2. UNCHANGED <<signing, loader, verified, owners, content>> BY DEF SignPackage, Editing
<1>3. content' \in [Packages -> PluginContents] BY <1>2 DEF PluginInv, PluginTypes
<1>4. signature' \in [Packages -> signings' \cup {NoSignature}] BY <1>1 DEF PluginInv, PluginTypes
<1> QED BY <1>1, <1>2, <1>3, <1>4, EditsKeep

\* A verdict says signed only of a signature that was made for this package by a key of its publisher.
LEMMA VerdictIs ==
  ASSUME PluginTypes, NEW p \in Packages
  PROVE  /\ VerifyModule(p) \in Passing \cup {"refused"}
         /\ VerifyModule(p) = "signed" =>
              /\ signature[p] \in signings /\ signature[p].package = p
              /\ signature[p].key \in PublisherKeys[signature[p].publisher]
<1>1. signature[p] \in signings \cup {NoSignature} BY DEF PluginTypes
<1>2. VerifyModule(p) \in Passing \cup {"refused"} BY DEF VerifyModule, Passing
<1>3. VerifyModule(p) = "signed" =>
        signature[p] # NoSignature /\ DocumentMatches(signature[p], p)
        /\ signature[p].key \in PublisherKeys[signature[p].publisher]
  BY DEF VerifyModule
<1> QED BY <1>1, <1>2, <1>3 DEF DocumentMatches

\* A verdict is given once, and kept.
LEMMA VerifiedIs ==
  ASSUME PluginTypes, VerdictInv, NEW n \in References, verified' = Verified(n), UnchangedPackages
  PROVE  /\ verified' \in [References -> [outcome : {"unchecked", "unsigned", "signed", "refused"},
                                          by : signings \cup {NoSignature}]]
         /\ SignedForIt' /\ Passing' = Passing
         /\ \A m \in References : m # n => verified'[m] = verified[m]
         /\ verified'[n].outcome \in Passing \cup {"refused"}
         /\ verified[n].outcome \in Passing => verified'[n].outcome \in Passing
<1> DEFINE V == [outcome : {"unchecked", "unsigned", "signed", "refused"}, by : signings \cup {NoSignature}]
<1>1. verified \in [References -> V] BY DEF PluginTypes
<1>2. signings' = signings /\ signing' = signing /\ Passing' = Passing BY DEF UnchangedPackages, Passing
<1>3. CASE ~SigningEnabled
  <2>1. verified' = [verified EXCEPT ![n].outcome = "unsigned"] BY <1>3 DEF Verified
  <2>2. \A m \in References : m # n => verified'[m] = verified[m] BY <1>1, <2>1
  <2>3. verified'[n].outcome = "unsigned" /\ verified'[n].by = verified[n].by BY <1>1, <2>1
  <2>4. verified' \in [References -> V] BY <1>1, <2>1
  <2>5. SignedForIt' BY <1>2, <2>2, <2>3 DEF VerdictInv, SignedForIt
  <2>6. "unsigned" \in Passing BY <1>3 DEF SigningEnabled, Passing
  <2> QED BY <1>2, <2>2, <2>3, <2>4, <2>5, <2>6
<1>4. CASE SigningEnabled /\ verified[n].outcome # "unchecked"
  <2>1. verified' = verified BY <1>4 DEF Verified
  <2>2. SignedForIt' BY <1>2, <2>1 DEF VerdictInv, SignedForIt
  <2> QED BY <1>1, <1>2, <1>4, <2>1, <2>2 DEF VerdictInv
<1>5. CASE SigningEnabled /\ verified[n].outcome = "unchecked"
  <2>1. PICK o : o = VerifyModule(PackageOf[n]) OBVIOUS
  <2>2. PICK d : d = signature[PackageOf[n]] OBVIOUS
  <2>3. PackageOf[n] \in Packages BY PluginsAre
  <2>4. /\ o \in Passing \cup {"refused"}
        /\ o = "signed" => d \in signings /\ d.package = PackageOf[n] /\ d.key \in PublisherKeys[d.publisher]
    BY <2>1, <2>2, <2>3, VerdictIs
  <2>5. d \in signings \cup {NoSignature} BY <2>2, <2>3 DEF PluginTypes
  <2>6. verified' = [verified EXCEPT ![n] = [outcome |-> o, by |-> d]] BY <1>5, <2>1, <2>2 DEF Verified
  <2>7. \A m \in References : m # n => verified'[m] = verified[m] BY <1>1, <2>6
  <2>8. verified'[n].outcome = o /\ verified'[n].by = d BY <1>1, <2>6
  <2>9. o \in {"unsigned", "signed", "refused"} BY <2>4 DEF Passing
  <2>10. verified' \in [References -> V] BY <1>1, <2>5, <2>6, <2>9
  <2>11. SignedForIt' BY <1>2, <2>4, <2>7, <2>8 DEF VerdictInv, SignedForIt
  <2>12. verified[n].outcome \notin Passing BY <1>5 DEF Passing
  <2> QED BY <1>2, <2>4, <2>7, <2>8, <2>10, <2>11, <2>12
<1> QED BY <1>3, <1>4, <1>5

\* A start has no verdict yet.
LEMMA UncheckedIs ==
  ASSUME PluginTypes, verified' = [n \in References |-> Unchecked], UnchangedPackages
  PROVE  /\ verified' \in [References -> [outcome : {"unchecked", "unsigned", "signed", "refused"},
                                          by : signings' \cup {NoSignature}]]
         /\ SignedForIt' /\ \A n \in References : verified'[n].outcome \in Passing' \cup {"unchecked", "refused"}
<1>1. \A n \in References : verified'[n] = Unchecked /\ verified'[n].outcome = "unchecked" BY DEF Unchecked
<1>2. Unchecked \in [outcome : {"unchecked", "unsigned", "signed", "refused"}, by : signings' \cup {NoSignature}]
  BY DEF Unchecked
<1>3. SignedForIt' BY <1>1 DEF SignedForIt
<1> QED BY <1>1, <1>2, <1>3

LEMMA AuthorizeNamesKeeps == ASSUME PluginInv, AuthorizeNames PROVE PluginInv'
<1>1. loader = LoaderDown /\ UnchangedPackages /\ owners' = owners /\ verified' = [n \in References |-> Unchecked]
  BY DEF AuthorizeNames, PluginInv, VerdictInv
<1>2. /\ verified' \in [References -> [outcome : {"unchecked", "unsigned", "signed", "refused"},
                                       by : signings' \cup {NoSignature}]]
      /\ SignedForIt' /\ \A n \in References : verified'[n].outcome \in Passing' \cup {"unchecked", "refused"}
  BY <1>1, UncheckedIs DEF PluginInv
<1>3. PICK a \in {"verify", "failed"} :
        loader' = [at |-> a, next |-> 1, part |-> 1, imported |-> {}] /\ (a = "verify" => \A n \in References : IsTrusted(n))
  BY <1>1 DEF AuthorizeNames, LoaderFails, LoaderDown
<1>4. loader'.at = a /\ loader'.next = 1 /\ loader'.part = 1 /\ loader'.imported = {} BY <1>3
<1>5. PluginTypes'
  <2>1. 1 \in 1..Len(DomainPlugins) /\ 1 \in Nat \ {0} BY PluginsAre
  <2>2. loader' \in [at : {"down", "verify", "load", "register", "up", "failed"}, next : 1..Len(DomainPlugins),
                     part : Nat \ {0}, imported : SUBSET (References \X PluginContents)]
    BY <1>3, <2>1
  <2> QED BY <1>1, <1>2, <2>2 DEF PluginInv, PluginTypes, UnchangedPackages
<1>6. VerdictInv' BY <1>2, <1>3, <1>4 DEF VerdictInv, IsTrusted
<1>7. ImportInv' BY <1>3, <1>4 DEF ImportInv
<1>8. OwnersInv' BY <1>1, <1>3, <1>4 DEF PluginInv, OwnersInv
<1> QED BY <1>5, <1>6, <1>7, <1>8 DEF PluginInv

LEMMA AuthorizeSignatureKeeps == ASSUME PluginInv, AuthorizeSignature PROVE PluginInv'
<1>1. PICK k : k = loader.next OBVIOUS
<1>2. PICK n : n = DomainPlugins[k] OBVIOUS
<1>3. k \in 1..Len(DomainPlugins) /\ n \in References /\ Len(DomainPlugins) \in Nat \ {0}
  BY <1>1, <1>2, NextIs, PluginsAre DEF PluginInv
<1>4. loader.at = "verify" /\ UnchangedPackages /\ owners' = owners /\ verified' = Verified(n)
  BY <1>1, <1>2 DEF AuthorizeSignature
<1>5. loader' = IF verified'[n].outcome = "refused" THEN [loader EXCEPT !.at = "failed"] ELSE NextToVerify(k)
  BY <1>1, <1>2, <1>4 DEF AuthorizeSignature, LoaderFails
<1>6. /\ verified' \in [References -> [outcome : {"unchecked", "unsigned", "signed", "refused"},
                                       by : signings \cup {NoSignature}]]
      /\ SignedForIt' /\ Passing' = Passing
      /\ \A m \in References : m # n => verified'[m] = verified[m]
      /\ verified'[n].outcome \in Passing \cup {"refused"}
  BY <1>3, <1>4, VerifiedIs DEF PluginInv
<1>7. loader \in [at : {"down", "verify", "load", "register", "up", "failed"}, next : 1..Len(DomainPlugins),
                  part : Nat \ {0}, imported : SUBSET (References \X PluginContents)]
  BY DEF PluginInv, PluginTypes
<1>8. /\ loader'.at \in {"failed", "verify", "load"} /\ loader'.imported = {} /\ loader'.part = loader.part
      /\ loader'.at = "verify" => loader'.next = k + 1 /\ k < Len(DomainPlugins)
      /\ loader'.at = "load" => loader'.next = 1 /\ k = Len(DomainPlugins)
      /\ loader'.at # "failed" => verified'[n].outcome \in Passing
      /\ loader' \in [at : {"down", "verify", "load", "register", "up", "failed"}, next : 1..Len(DomainPlugins),
                      part : Nat \ {0}, imported : SUBSET (References \X PluginContents)]
  <2>1. loader.imported = {} BY <1>4 DEF PluginInv, VerdictInv
  <2>2. CASE verified'[n].outcome = "refused" BY <1>3, <1>5, <1>7, <2>1, <2>2
  <2>3. CASE verified'[n].outcome # "refused" /\ k < Len(DomainPlugins)
    <3>1. loader' = [loader EXCEPT !.next = k + 1] BY <1>5, <2>3 DEF NextToVerify
    <3>2. k + 1 \in 1..Len(DomainPlugins) BY <1>3, <2>3
    <3>3. loader'.at = "verify" /\ loader'.next = k + 1 /\ loader'.imported = {} /\ loader'.part = loader.part
      BY <1>4, <1>7, <2>1, <3>1
    <3> QED BY <1>6, <1>7, <2>3, <3>1, <3>2, <3>3
  <2>4. CASE verified'[n].outcome # "refused" /\ ~(k < Len(DomainPlugins))
    <3>1. loader' = [loader EXCEPT !.at = "load", !.next = 1] BY <1>5, <2>4 DEF NextToVerify
    <3>2. k = Len(DomainPlugins) /\ 1 \in 1..Len(DomainPlugins) BY <1>3, <2>4
    <3>3. loader'.at = "load" /\ loader'.next = 1 /\ loader'.imported = {} /\ loader'.part = loader.part
      BY <1>7, <2>1, <3>1
    <3> QED BY <1>6, <1>7, <2>4, <3>1, <3>2, <3>3
  <2> QED BY <2>2, <2>3, <2>4
<1>9. PluginTypes' BY <1>4, <1>6, <1>8 DEF PluginInv, PluginTypes, UnchangedPackages
<1>10. VerdictInv'
  <2>1. \A m \in References : IsTrusted(m) BY <1>4 DEF PluginInv, VerdictInv
  <2>2. \A m \in References : verified'[m].outcome \in Passing \cup {"unchecked", "refused"}
    BY <1>6 DEF PluginInv, VerdictInv
  <2>3. ASSUME loader'.at # "failed", NEW i \in 1..Len(DomainPlugins), i <= k
        PROVE  verified'[DomainPlugins[i]].outcome \in Passing
    <3>1. CASE i = k BY <1>2, <1>8, <2>3, <3>1
    <3>2. CASE i # k
      <4>1. i < loader.next BY <1>1, <1>3, <2>3, <3>2
      <4>2. verified[DomainPlugins[i]].outcome \in Passing BY <1>4, <2>3, <4>1 DEF PluginInv, VerdictInv
      <4>3. DomainPlugins[i] # n /\ DomainPlugins[i] \in References BY <1>2, <1>3, <2>3, <3>2, PluginsAre
      <4> QED BY <1>6, <4>2, <4>3
    <3> QED BY <3>1, <3>2
  <2>4. loader'.at = "load" => AllPass'
    <3> SUFFICES ASSUME loader'.at = "load", NEW m \in References PROVE verified'[m].outcome \in Passing'
      BY <2>1 DEF AllPass, IsTrusted
    <3>1. PICK i \in 1..Len(DomainPlugins) : m = DomainPlugins[i] BY PluginsAre
    <3>2. i <= k BY <1>3, <1>8, <3>1
    <3> QED BY <1>6, <2>3, <3>1, <3>2
  <2>5. loader'.at = "verify" =>
          \A i \in 1..Len(DomainPlugins) : i < loader'.next => verified'[DomainPlugins[i]].outcome \in Passing'
    <3> SUFFICES ASSUME loader'.at = "verify", NEW i \in 1..Len(DomainPlugins), i < loader'.next
                 PROVE  verified'[DomainPlugins[i]].outcome \in Passing'
      OBVIOUS
    <3>1. i <= k BY <1>3, <1>8
    <3> QED BY <1>6, <1>8, <2>3, <3>1
  <2> QED BY <1>6, <1>8, <2>1, <2>2, <2>4, <2>5 DEF VerdictInv, IsTrusted
<1>11. ImportInv'
  <2>1. \A i \in 1..Len(DomainPlugins) : ~(i < 1) OBVIOUS
  <2> QED BY <1>8, <2>1 DEF ImportInv
<1>12. OwnersInv' BY <1>4, <1>8 DEF PluginInv, OwnersInv
<1> QED BY <1>9, <1>10, <1>11, <1>12 DEF PluginInv

LEMMA ImportPluginKeeps == ASSUME PluginInv, ImportPlugin PROVE PluginInv'
<1>1. PICK k : k = loader.next OBVIOUS
<1>2. PICK n : n = DomainPlugins[k] OBVIOUS
<1>3. k \in 1..Len(DomainPlugins) /\ n \in References /\ Len(DomainPlugins) \in Nat \ {0}
  BY <1>1, <1>2, NextIs, PluginsAre DEF PluginInv
<1>4. loader.at = "load" /\ UnchangedPackages /\ owners' = owners /\ verified' = Verified(n)
  BY <1>1, <1>2 DEF ImportPlugin
<1>5. /\ verified' \in [References -> [outcome : {"unchecked", "unsigned", "signed", "refused"},
                                       by : signings \cup {NoSignature}]]
      /\ SignedForIt' /\ Passing' = Passing
      /\ \A m \in References : m # n => verified'[m] = verified[m]
      /\ verified[n].outcome \in Passing => verified'[n].outcome \in Passing
  BY <1>3, <1>4, VerifiedIs DEF PluginInv
<1>6. AllPass /\ AllPass'
  <2>1. AllPass BY <1>4 DEF PluginInv, VerdictInv
  <2> QED BY <1>3, <1>5, <2>1 DEF AllPass, IsTrusted
<1>7. verified'[n].outcome # "refused" BY <1>3, <1>6 DEF AllPass, Passing
<1>8. PackageOf[n] \in Packages BY <1>3, PluginsAre
<1>9. PICK c : c = content[PackageOf[n]] OBVIOUS
<1>10. c \in PluginContents BY <1>8, <1>9 DEF PluginInv, PluginTypes
<1>11. PICK a \in {"register", "failed"} :
         loader' = [loader EXCEPT !.imported = loader.imported \cup {<<n, c>>}, !.part = 1, !.at = a]
  BY <1>1, <1>2, <1>4, <1>7, <1>9 DEF ImportPlugin
<1>12. loader \in [at : {"down", "verify", "load", "register", "up", "failed"}, next : 1..Len(DomainPlugins),
                   part : Nat \ {0}, imported : SUBSET (References \X PluginContents)]
  BY DEF PluginInv, PluginTypes
<1>13. loader'.at = a /\ loader'.next = k /\ loader'.part = 1 /\ loader'.imported = loader.imported \cup {<<n, c>>}
  BY <1>1, <1>11, <1>12
<1>14. PluginTypes'
  <2>1. loader.imported \cup {<<n, c>>} \in SUBSET (References \X PluginContents) BY <1>3, <1>10, <1>12
  <2>2. loader' \in [at : {"down", "verify", "load", "register", "up", "failed"}, next : 1..Len(DomainPlugins),
                     part : Nat \ {0}, imported : SUBSET (References \X PluginContents)]
    <3>1. PICK I : I = loader.imported \cup {<<n, c>>} OBVIOUS
    <3>2. loader' = [loader EXCEPT !.imported = I, !.part = 1, !.at = a] BY <1>11, <3>1
    <3>3. I \in SUBSET (References \X PluginContents) BY <2>1, <3>1
    <3>4. a \in {"down", "verify", "load", "register", "up", "failed"} /\ 1 \in Nat \ {0} BY <1>11
    <3> QED BY ONLY <1>12, <3>2, <3>3, <3>4
  <2> QED BY <1>4, <1>5, <2>2 DEF PluginInv, PluginTypes, UnchangedPackages
<1>15. VerdictInv'
  <2>1. \A m \in References : verified'[m].outcome \in Passing' \cup {"unchecked", "refused"} BY <1>6 DEF AllPass
  <2>2. loader'.at \notin {"down", "verify"} BY <1>13
  <2> QED BY <1>5, <1>6, <2>1, <2>2 DEF VerdictInv
<1>16. \A e \in PluginContents : <<n, e>> \notin loader.imported
  BY <1>1, <1>2, <1>3, <1>4 DEF PluginInv, ImportInv
<1>17. \A m \in loader.imported : m[1] # n
  <2> SUFFICES ASSUME NEW m \in loader.imported, m[1] = n PROVE FALSE OBVIOUS
  <2>1. m \in References \X PluginContents BY <1>12
  <2>2. m = <<n, m[2]>> /\ m[2] \in PluginContents BY <2>1
  <2> QED BY <1>16, <2>2
<1>18. ImportInv'
  <2>1. \A m, o \in loader'.imported : m[1] = o[1] => m = o
    <3> SUFFICES ASSUME NEW m \in loader'.imported, NEW o \in loader'.imported, m[1] = o[1] PROVE m = o OBVIOUS
    <3>1. <<n, c>>[1] = n OBVIOUS
    <3>2. CASE m \in loader.imported /\ o \in loader.imported BY <3>2 DEF PluginInv, ImportInv
    <3>3. CASE m = <<n, c>> /\ o = <<n, c>> BY <3>3
    <3>4. CASE m \in loader.imported /\ o = <<n, c>> BY <1>17, <3>1, <3>4
    <3>5. CASE m = <<n, c>> /\ o \in loader.imported BY <1>17, <3>1, <3>5
    <3> QED BY <1>13, <3>2, <3>3, <3>4, <3>5
  <2>2. ASSUME NEW i \in 1..Len(DomainPlugins)
        PROVE  (\E e \in PluginContents : <<DomainPlugins[i], e>> \in loader'.imported) <=> (i < k \/ i = k)
    <3>1. (\E e \in PluginContents : <<DomainPlugins[i], e>> \in loader.imported) <=> i < k
      BY <1>1, <1>4, <2>2 DEF PluginInv, ImportInv
    <3>2. CASE i = k BY <1>2, <1>10, <1>13, <3>2
    <3>3. CASE i # k
      <4>1. DomainPlugins[i] # n BY <1>2, <1>3, <2>2, <3>3, PluginsAre
      <4>2. \A e : <<DomainPlugins[i], e>> \in loader'.imported <=> <<DomainPlugins[i], e>> \in loader.imported
        BY <1>13, <4>1
      <4> QED BY <3>1, <3>3, <4>2
    <3> QED BY <3>2, <3>3
  <2> QED BY <1>13, <2>1, <2>2 DEF ImportInv
<1>19. OwnersInv'
  <2>1. \A x \in RuntimeComponents : x \in DOMAIN owners' /\ owners'[x] = "runtime" BY <1>4 DEF PluginInv, OwnersInv
  <2>2. ASSUME loader'.at = "register", NEW m \in loader'.imported, NEW i \in 1..Len(PartsOf(m)),
               m[1] = DomainPlugins[loader'.next] => i < loader'.part
        PROVE  PartsOf(m)[i] \in DOMAIN owners' /\ owners'[PartsOf(m)[i]] = m[1]
    <3>1. m # <<n, c>>
      <4> SUFFICES ASSUME m = <<n, c>> PROVE FALSE OBVIOUS
      <4>1. m[1] = n OBVIOUS
      <4>2. i < 1 BY <1>2, <1>13, <2>2, <4>1
      <4> QED BY <4>2
    <3>2. m \in loader.imported BY <1>13, <2>2, <3>1
    <3> QED BY <1>4, <2>2, <3>2 DEF PluginInv, OwnersInv
  <2> QED BY <1>11, <1>13, <2>1, <2>2 DEF OwnersInv, PartsOf
<1> QED BY <1>14, <1>15, <1>18, <1>19 DEF PluginInv

LEMMA RegisterComponentKeeps == ASSUME PluginInv, RegisterComponent PROVE PluginInv'
<1>1. PICK k : k = loader.next OBVIOUS
<1>2. PICK n : n = DomainPlugins[k] OBVIOUS
<1>3. k \in 1..Len(DomainPlugins) /\ n \in References /\ Len(DomainPlugins) \in Nat \ {0}
  BY <1>1, <1>2, NextIs, PluginsAre DEF PluginInv
<1>4. loader.at = "register" /\ UnchangedPackages /\ verified' = verified BY DEF RegisterComponent
<1>5. loader \in [at : {"down", "verify", "load", "register", "up", "failed"}, next : 1..Len(DomainPlugins),
                  part : Nat \ {0}, imported : SUBSET (References \X PluginContents)]
  BY DEF PluginInv, PluginTypes
<1>6. \E c \in PluginContents : <<n, c>> \in loader.imported
  BY <1>1, <1>2, <1>3, <1>4 DEF PluginInv, ImportInv
<1>7. PICK e : e = CHOOSE c \in PluginContents : <<n, c>> \in loader.imported OBVIOUS
<1>8. e \in PluginContents /\ <<n, e>> \in loader.imported BY <1>6, <1>7, Zenon
<1>9. PICK q : q = Registers[n][e] OBVIOUS
<1>10. q \in Seq(STRING) /\ Len(q) \in Nat BY <1>3, <1>8, <1>9, PluginsAre, LenProperties
<1>11. \A m \in loader.imported : m[1] = n => m = <<n, e>> /\ PartsOf(m) = q
  <2>1. <<n, e>>[1] = n /\ <<n, e>>[2] = e OBVIOUS
  <2>2. \A m \in loader.imported : m[1] = n => m = <<n, e>> BY <1>8, <2>1 DEF PluginInv, ImportInv
  <2> QED BY <1>9, <2>1, <2>2 DEF PartsOf
<1>12. IF loader.part > Len(q)
       THEN /\ loader' = IF k < Len(DomainPlugins) THEN [loader EXCEPT !.next = k + 1, !.at = "load"]
                         ELSE [loader EXCEPT !.at = "up"]
            /\ UNCHANGED owners
       ELSE IF Taken(q[loader.part]) THEN LoaderFails /\ UNCHANGED owners
       ELSE /\ owners' = RecordSource(q[loader.part], n)
            /\ loader' = [loader EXCEPT !.part = loader.part + 1]
  BY <1>1, <1>2, <1>7, <1>9 DEF RegisterComponent
<1>13. AllPass /\ AllPass' /\ SignedForIt' /\ \A m \in References : verified'[m].outcome \in Passing' \cup {"unchecked", "refused"}
  <2>1. AllPass BY <1>4 DEF PluginInv, VerdictInv
  <2>2. signings' = signings /\ signing' = signing BY <1>4 DEF UnchangedPackages
  <2> QED BY <1>4, <2>1, <2>2 DEF PluginInv, VerdictInv, SignedForIt, AllPass, Passing, IsTrusted
<1>14. CASE loader.part > Len(q) /\ k < Len(DomainPlugins)
  <2>1. loader' = [loader EXCEPT !.next = k + 1, !.at = "load"] /\ owners' = owners BY <1>12, <1>14
  <2>2. loader'.at = "load" /\ loader'.next = k + 1 /\ loader'.imported = loader.imported BY <1>5, <2>1
  <2>3. PluginTypes'
    <3>1. k + 1 \in 1..Len(DomainPlugins) BY <1>3, <1>14
    <3>2. loader' \in [at : {"down", "verify", "load", "register", "up", "failed"}, next : 1..Len(DomainPlugins),
                       part : Nat \ {0}, imported : SUBSET (References \X PluginContents)]
      BY <1>5, <2>1, <3>1
    <3> QED BY <1>4, <3>2 DEF PluginInv, PluginTypes, UnchangedPackages
  <2>4. VerdictInv' BY <1>13, <2>2 DEF VerdictInv
  <2>5. ImportInv'
    <3>1. \A i \in 1..Len(DomainPlugins) :
            (\E c \in PluginContents : <<DomainPlugins[i], c>> \in loader.imported) <=> (i < k \/ i = k)
      BY <1>1, <1>4 DEF PluginInv, ImportInv
    <3>2. \A i \in 1..Len(DomainPlugins) : (i < k \/ i = k) <=> i < k + 1 BY <1>3
    <3> QED BY <2>2, <3>1, <3>2 DEF PluginInv, ImportInv
  <2>6. OwnersInv'
    <3>1. ASSUME NEW m \in loader.imported, NEW i \in 1..Len(PartsOf(m))
          PROVE  PartsOf(m)[i] \in DOMAIN owners /\ owners[PartsOf(m)[i]] = m[1]
      <4>1. m[1] = n => i < loader.part
        <5> SUFFICES ASSUME m[1] = n PROVE i < loader.part OBVIOUS
        <5>1. i \in 1..Len(q) BY <1>11, <3>1
        <5> QED BY <1>5, <1>10, <1>14, <5>1
      <4> QED BY <1>1, <1>2, <1>4, <3>1, <4>1 DEF PluginInv, OwnersInv
    <3> QED BY <2>1, <2>2, <3>1 DEF PluginInv, OwnersInv, PartsOf
  <2> QED BY <2>3, <2>4, <2>5, <2>6 DEF PluginInv
<1>15. CASE loader.part > Len(q) /\ ~(k < Len(DomainPlugins))
  <2>1. loader' = [loader EXCEPT !.at = "up"] /\ owners' = owners BY <1>12, <1>15
  <2>2. loader'.at = "up" /\ loader'.next = k /\ loader'.imported = loader.imported BY <1>1, <1>5, <2>1
  <2>3. PluginTypes'
    <3>2. loader' \in [at : {"down", "verify", "load", "register", "up", "failed"}, next : 1..Len(DomainPlugins),
                       part : Nat \ {0}, imported : SUBSET (References \X PluginContents)]
      BY <1>5, <2>1
    <3> QED BY <1>4, <3>2 DEF PluginInv, PluginTypes, UnchangedPackages
  <2>4. VerdictInv' BY <1>13, <2>2 DEF VerdictInv
  <2>5. ImportInv'
    <3>1. \A i \in 1..Len(DomainPlugins) :
            (\E c \in PluginContents : <<DomainPlugins[i], c>> \in loader.imported) <=> (i < k \/ i = k)
      BY <1>1, <1>4 DEF PluginInv, ImportInv
    <3>2. k = Len(DomainPlugins) BY <1>3, <1>15
    <3> QED BY <2>2, <3>1, <3>2 DEF PluginInv, ImportInv
  <2>6. OwnersInv'
    <3>1. ASSUME NEW m \in loader.imported, NEW i \in 1..Len(PartsOf(m))
          PROVE  PartsOf(m)[i] \in DOMAIN owners /\ owners[PartsOf(m)[i]] = m[1]
      <4>1. m[1] = n => i < loader.part
        <5> SUFFICES ASSUME m[1] = n PROVE i < loader.part OBVIOUS
        <5>1. i \in 1..Len(q) BY <1>11, <3>1
        <5> QED BY <1>5, <1>10, <1>15, <5>1
      <4> QED BY <1>1, <1>2, <1>4, <3>1, <4>1 DEF PluginInv, OwnersInv
    <3> QED BY <2>1, <2>2, <3>1 DEF PluginInv, OwnersInv, PartsOf
  <2> QED BY <2>3, <2>4, <2>5, <2>6 DEF PluginInv
<1>16. CASE ~(loader.part > Len(q)) /\ Taken(q[loader.part])
  <2>1. loader' = [loader EXCEPT !.at = "failed"] /\ owners' = owners BY <1>12, <1>16 DEF LoaderFails
  <2>2. loader'.at = "failed" /\ loader'.next = k /\ loader'.imported = loader.imported BY <1>1, <1>5, <2>1
  <2>3. PluginTypes'
    <3>2. loader' \in [at : {"down", "verify", "load", "register", "up", "failed"}, next : 1..Len(DomainPlugins),
                       part : Nat \ {0}, imported : SUBSET (References \X PluginContents)]
      BY <1>5, <2>1
    <3> QED BY <1>4, <3>2 DEF PluginInv, PluginTypes, UnchangedPackages
  <2>4. VerdictInv' BY <1>13, <2>2 DEF VerdictInv
  <2>5. ImportInv' BY <2>2 DEF PluginInv, ImportInv
  <2>6. OwnersInv' BY <2>1, <2>2 DEF PluginInv, OwnersInv
  <2> QED BY <2>3, <2>4, <2>5, <2>6 DEF PluginInv
<1>17. CASE ~(loader.part > Len(q)) /\ ~Taken(q[loader.part])
  <2>1. PICK c : c = q[loader.part] OBVIOUS
  <2>2. /\ owners' = [x \in DOMAIN owners \cup {c} |-> IF x = c THEN n ELSE owners[x]]
        /\ loader' = [loader EXCEPT !.part = loader.part + 1] /\ c \notin DOMAIN owners
    BY <1>12, <1>17, <2>1 DEF RecordSource, Taken
  <2>3. /\ loader'.at = "register" /\ loader'.next = k /\ loader'.part = loader.part + 1
        /\ loader'.imported = loader.imported
    BY <1>1, <1>4, <1>5, <2>2
  <2>4. PluginTypes'
    <3>1. loader.part + 1 \in Nat \ {0} BY <1>5
    <3>2. loader' \in [at : {"down", "verify", "load", "register", "up", "failed"}, next : 1..Len(DomainPlugins),
                       part : Nat \ {0}, imported : SUBSET (References \X PluginContents)]
      BY <1>5, <2>2, <3>1
    <3> QED BY <1>4, <3>2 DEF PluginInv, PluginTypes, UnchangedPackages
  <2>5. VerdictInv' BY <1>13, <2>3 DEF VerdictInv
  <2>6. ImportInv'
    <3>1. loader.at = "register" /\ loader.next = loader'.next BY <1>1, <1>4, <2>3
    <3> QED BY <2>3, <3>1 DEF PluginInv, ImportInv
  <2>7. /\ DOMAIN owners' = DOMAIN owners \cup {c} /\ owners'[c] = n
        /\ \A x \in DOMAIN owners : x \in DOMAIN owners' /\ owners'[x] = owners[x]
    BY <2>2
  <2>8. OwnersInv'
    <3>1. \A x \in RuntimeComponents : x \in DOMAIN owners' /\ owners'[x] = "runtime"
      BY <2>7 DEF PluginInv, OwnersInv
    <3>2. ASSUME NEW m \in loader.imported, NEW i \in 1..Len(PartsOf(m)), m[1] = n => i < loader.part + 1
          PROVE  PartsOf(m)[i] \in DOMAIN owners' /\ owners'[PartsOf(m)[i]] = m[1]
      <4>1. CASE m[1] = n /\ i = loader.part BY <1>11, <2>1, <2>7, <3>2, <4>1
      <4>2. CASE ~(m[1] = n /\ i = loader.part)
        <5>1. m[1] = n => i < loader.part BY <1>5, <3>2, <4>2
        <5>2. PartsOf(m)[i] \in DOMAIN owners /\ owners[PartsOf(m)[i]] = m[1]
          BY <1>1, <1>2, <1>4, <3>2, <5>1 DEF PluginInv, OwnersInv
        <5> QED BY <2>7, <5>2
      <4> QED BY <4>1, <4>2
    <3>3. \A m : PartsOf(m)' = PartsOf(m) BY DEF PartsOf
    <3>4. ASSUME NEW m \in loader'.imported, NEW i \in 1..Len(PartsOf(m)),
                 m[1] = DomainPlugins[loader'.next] => i < loader'.part
          PROVE  PartsOf(m)[i] \in DOMAIN owners' /\ owners'[PartsOf(m)[i]] = m[1]
      BY <1>2, <2>3, <3>2, <3>4
    <3> QED BY <2>3, <3>1, <3>4 DEF OwnersInv, PartsOf
  <2> QED BY <2>4, <2>5, <2>6, <2>8 DEF PluginInv
<1> QED BY <1>14, <1>15, <1>16, <1>17

LEMMA LoaderStarts ==
  ASSUME loader' = LoaderDown, owners' = [c \in RuntimeComponents |-> "runtime"]
  PROVE  /\ loader' \in [at : {"down", "verify", "load", "register", "up", "failed"}, next : 1..Len(DomainPlugins),
                         part : Nat \ {0}, imported : SUBSET (References \X PluginContents)]
         /\ loader'.at = "down" /\ loader'.imported = {} /\ ImportInv' /\ OwnersInv'
<1>1. loader'.at = "down" /\ loader'.imported = {} BY DEF LoaderDown
<1>2. 1 \in 1..Len(DomainPlugins) BY PluginsAre
<1>3. loader' \in [at : {"down", "verify", "load", "register", "up", "failed"}, next : 1..Len(DomainPlugins),
                   part : Nat \ {0}, imported : SUBSET (References \X PluginContents)]
  BY <1>2 DEF LoaderDown
<1> QED BY <1>1, <1>3 DEF ImportInv, OwnersInv

LEMMA RestartLoaderKeeps == ASSUME PluginInv, RestartLoader PROVE PluginInv'
<1>1. /\ loader' = LoaderDown /\ owners' = [c \in RuntimeComponents |-> "runtime"] /\ UnchangedPackages
      /\ verified' = [n \in References |-> Unchecked]
  BY DEF RestartLoader
<1>2. /\ verified' \in [References -> [outcome : {"unchecked", "unsigned", "signed", "refused"},
                                       by : signings' \cup {NoSignature}]]
      /\ SignedForIt' /\ \A n \in References : verified'[n].outcome \in Passing' \cup {"unchecked", "refused"}
  BY <1>1, UncheckedIs DEF PluginInv
<1>3. PluginTypes' BY <1>1, <1>2, LoaderStarts DEF PluginInv, PluginTypes, UnchangedPackages
<1>4. loader'.at = "down" /\ loader'.imported = {} BY <1>1, LoaderStarts
<1>5. VerdictInv' BY <1>1, <1>2, <1>4 DEF VerdictInv
<1> QED BY <1>1, <1>3, <1>5, LoaderStarts DEF PluginInv

LEMMA PluginStep == ASSUME PluginInv, [PluginNext]_pluginVars PROVE PluginInv'
<1>1. CASE UNCHANGED pluginVars
  <2>1. UNCHANGED <<signing, loader, verified, owners, content, signature, signings>> BY <1>1 DEF pluginVars
  <2> QED BY <2>1, EditsKeep DEF PluginInv, PluginTypes
<1>2. CASE PluginNext
  BY <1>2, EditPackageKeeps, SignPackageKeeps, CopyPackageKeeps, AuthorizeNamesKeeps, AuthorizeSignatureKeeps,
     ImportPluginKeeps, RegisterComponentKeeps, RestartLoaderKeeps DEF PluginNext
<1> QED BY <1>1, <1>2

LEMMA PluginBegins == PluginInit => PluginInv
<1> SUFFICES ASSUME PluginInit PROVE PluginInv OBVIOUS
<1>1. PluginTypes
  <2>1. PluginContents # {} /\ 1 \in 1..Len(DomainPlugins) BY PluginsAre
  <2>2. (CHOOSE c \in PluginContents : TRUE) \in PluginContents BY <2>1, Zenon
  <2>3. content \in [Packages -> PluginContents] BY <2>2 DEF PluginInit
  <2>4. loader \in [at : {"down", "verify", "load", "register", "up", "failed"}, next : 1..Len(DomainPlugins),
                    part : Nat \ {0}, imported : SUBSET (References \X PluginContents)]
    BY <2>1 DEF PluginInit, LoaderDown
  <2> QED BY <2>3, <2>4 DEF PluginInit, PluginTypes, Unchecked
<1>2. loader.at = "down" /\ loader.imported = {} /\ loader = LoaderDown BY DEF PluginInit, LoaderDown
<1>3. \A n \in References : verified[n].outcome = "unchecked" BY DEF PluginInit, Unchecked
<1>4. VerdictInv BY <1>2, <1>3 DEF VerdictInv, SignedForIt
<1>5. ImportInv /\ OwnersInv BY <1>2 DEF PluginInit, ImportInv, OwnersInv
<1> QED BY <1>1, <1>4, <1>5 DEF PluginInv

LEMMA PluginInvSafe == PluginInv => PluginSafe
<1> SUFFICES ASSUME PluginInv PROVE PluginSafe OBVIOUS
<1>1. PluginTypeOK BY DEF PluginInv, PluginTypes, PluginTypeOK
<1>2. WholeSetFirst
  <2>1. loader.imported # {} => AllPass BY DEF PluginInv, VerdictInv
  <2> QED BY <2>1 DEF WholeSetFirst, AllPass, Passing
<1>3. SignedForIt BY DEF PluginInv, VerdictInv
<1>4. UpIsComplete
  <2> SUFFICES ASSUME loader.at = "up" PROVE UpIsComplete BY DEF UpIsComplete
  <2>1. loader.next = Len(DomainPlugins) /\ Len(DomainPlugins) \in Nat BY PluginsAre DEF PluginInv, ImportInv
  <2>2. ASSUME NEW n \in References PROVE \E c \in PluginContents : <<n, c>> \in loader.imported
    <3>1. PICK i \in 1..Len(DomainPlugins) : n = DomainPlugins[i] BY PluginsAre
    <3>2. i < loader.next \/ i = loader.next BY <2>1, <3>1
    <3> QED BY <3>1, <3>2 DEF PluginInv, ImportInv
  <2>3. \A c \in RuntimeComponents : owners[c] = "runtime" BY DEF PluginInv, OwnersInv
  <2>4. ASSUME NEW m \in loader.imported, NEW i \in DOMAIN Registers[m[1]][m[2]]
        PROVE  owners[Registers[m[1]][m[2]][i]] = m[1]
    <3>1. m \in References \X PluginContents BY DEF PluginInv, PluginTypes
    <3>2. Registers[m[1]][m[2]] \in Seq(STRING) BY <3>1, PluginsAre
    <3>3. i \in 1..Len(PartsOf(m)) BY <2>4, <3>2, LenProperties DEF PartsOf
    <3> QED BY <3>3 DEF PluginInv, OwnersInv, PartsOf
  <2> QED BY <2>2, <2>3, <2>4 DEF UpIsComplete
<1> QED BY <1>1, <1>2, <1>3, <1>4 DEF PluginSafe

\* Nothing of a set of plugins is imported before the whole set has passed, and each component a Runtime has is
\* its own or of the plugin that declared it (plugins/sdk.py, signing.py, registration.py).
THEOREM PluginsAreSafe == PluginSpec => []PluginSafe
<1>1. PluginSpec => []PluginInv BY PluginBegins, PluginStep, PTL DEF PluginSpec
<1> QED BY <1>1, PluginInvSafe, PTL

\* A host is its container and its plugins, which share no state (orchestration/container.py, plugins/).
THEOREM HostIsSafe == HostSpec => []HostSafe
BY DeploymentIsSafe, PluginsAreSafe, PTL DEF HostSpec, HostSafe

-----------------------------------------------------------------------------
(* ToolCatalog.                                                            *)

ListingTypes ==
  /\ BuiltInTools \subseteq DOMAIN registry /\ listedServers \subseteq Servers
  /\ DOMAIN lister = Listers
  /\ \A l \in Listers : /\ DOMAIN lister[l] = {"at", "server"}
                        /\ lister[l].at = "asking" => lister[l].server \in Servers
ListingInv == ListingTypes /\ ListedIsWhole /\ ReadsTrusted

HttpTypes == DOMAIN page = DOMAIN NoHttpPage /\ page.pages \in 0..MaxPages /\ page.collected \in Seq(Nat)
\* The page to ask for next is the declared one unless an answer linked to another, and none is asked for past
\* the limit; the pages collected so far are increasing.
HttpInv ==
  /\ HttpTypes
  /\ page.at \in {"ask", "wait"} => page.pages < MaxPages
  /\ page.url = HomeOrigin \/ (page.kind = "link_header" /\ page.pages > 0)
  /\ page.at = "wait" /\ page.caller => page.url = HomeOrigin
  /\ \A i \in DOMAIN page.collected : page.collected[i] <= page.pages
  /\ \A i, j \in DOMAIN page.collected : i < j => page.collected[i] < page.collected[j]
  /\ CredentialStays

\* Only the call that holds the lock opens a client, and only when there is none.
KitInv ==
  /\ DOMAIN kcall = KitCalls
  /\ kit \in [client : Nat, holder : KitCalls \cup {"free"}, open : SUBSET (Nat \ {0}), made : Nat]
  /\ kit.client \in {0} \cup kit.open /\ kit.open \subseteq {kit.client}
  /\ kit.holder # "free" => kit.client = 0
  /\ \A c \in KitCalls : kcall[c] = "opening" => kit.holder = c

\* What was read is the file up to the offset; a listing keeps its place in every directory it is in.
ScanFrames == [dir : DOMAIN DirTree, next : Nat \ {0}]
ScanEntries == (DOMAIN DirTree) \X STRING
DirEntries == [name : STRING, inside : BOOLEAN, dir : BOOLEAN]
FilesInv ==
  /\ reads \in [at : {"reading", "end", "not_text"}, offset : Nat, got : Nat, truncated : BOOLEAN]
  /\ reads.offset <= FileSize /\ reads.got = reads.offset
  /\ reads.at = "end" => reads.offset = FileSize
  /\ DOMAIN scan = DOMAIN NoScan /\ scan.stack \in Seq(ScanFrames) /\ scan.entries \in Seq(ScanEntries)
  /\ scan.at = "scanning" => scan.stack # <<>>
  /\ Len(scan.entries) <= MaxDirEntries

CatalogInv == ListingInv /\ HttpInv /\ KitInv /\ FilesInv

\* The first clash is a place of the list no earlier place clashes before, or the end of the list.
LEMMA FirstTakenIs ==
  ASSUME NEW s \in Servers, NEW known
  PROVE  /\ \A i \in Offered(s) : i < FirstTaken(s, known) => i \notin Clashing(s, known)
         /\ FirstTaken(s, known) > Len(ServerTools[s]) => Clashing(s, known) = {}
         /\ \A i \in Offered(s) : i \in 1..Len(ServerTools[s])
<1>1. ServerTools[s] \in Seq([name : STRING, hints : SUBSET STRING]) BY CatalogAssumption DEF Servers
<1>2. DOMAIN ServerTools[s] = 1..Len(ServerTools[s]) /\ Len(ServerTools[s]) \in Nat BY <1>1, LenProperties
<1>3. \A i \in Offered(s) : i \in 1..Len(ServerTools[s]) BY <1>2 DEF Offered
<1>4. CASE Clashing(s, known) = {} BY <1>3, <1>4
<1>5. CASE Clashing(s, known) # {}
  <2>1. Clashing(s, known) \subseteq 1..Len(ServerTools[s]) BY <1>3 DEF Clashing
  <2>2. \E i \in Clashing(s, known) : \A j \in Clashing(s, known) : i <= j BY <1>2, <1>5, <2>1, LeastNatural
  <2>3. FirstTaken(s, known) = CHOOSE i \in Clashing(s, known) : \A j \in Clashing(s, known) : i <= j
    BY <1>5 DEF FirstTaken
  <2>4. FirstTaken(s, known) \in Clashing(s, known) /\ \A j \in Clashing(s, known) : FirstTaken(s, known) <= j
    BY <2>2, <2>3, Zenon
  <2>5. FirstTaken(s, known) \in 1..Len(ServerTools[s]) BY <2>1, <2>4
  <2> QED BY <1>2, <1>3, <2>1, <2>4, <2>5
<1> QED BY <1>4, <1>5

\* Tools added up to the first clash leave every name its tool and have the server's own, each with its effect.
LEMMA AddedKeeps ==
  ASSUME NEW tools, NEW s \in Servers
  PROVE  LET cut == FirstTaken(s, DOMAIN tools)
             new == Added(tools, s, cut)
         IN  /\ DOMAIN tools \subseteq DOMAIN new
             /\ \A n \in DOMAIN tools : new[n] = tools[n]
             /\ \A n \in DOMAIN new \ DOMAIN tools :
                   \E i \in Offered(s) : NameAt(s, i) = n /\ new[n] = ToolOf(s, ServerTools[s][i])
             /\ \A i \in Offered(s) : i < cut =>
                   NameAt(s, i) \in DOMAIN new /\ NameAt(s, i) \notin DOMAIN tools /\ new[NameAt(s, i)].owner = s
<1> DEFINE cut == FirstTaken(s, DOMAIN tools)
           before == {i \in Offered(s) : i < cut}
           added == {NameAt(s, i) : i \in before}
           new == Added(tools, s, cut)
           place(n) == CHOOSE i \in before : NameAt(s, i) = n
<1>1. new = [n \in DOMAIN tools \cup added |->
               IF n \in added THEN ToolOf(s, ServerTools[s][place(n)]) ELSE tools[n]]
  BY Zenon DEF Added
<1>2. \A i \in before : NameAt(s, i) \notin DOMAIN tools BY FirstTakenIs DEF Clashing
<1>3. \A n \in added : place(n) \in before /\ NameAt(s, place(n)) = n OBVIOUS
<1> HIDE DEF new, added, place, cut
<1>4. DOMAIN new = DOMAIN tools \cup added BY <1>1
<1>5. \A n \in DOMAIN tools : n \notin added BY <1>2 DEF added
<1>6. \A n \in DOMAIN tools : new[n] = tools[n] BY <1>1, <1>5
<1>7. \A n \in added : new[n] = ToolOf(s, ServerTools[s][place(n)]) BY <1>1
<1>8. \A i \in before : NameAt(s, i) \in added BY DEF added
<1>9. \A n \in added : new[n].owner = s
  <2>1. \A tool : ToolOf(s, tool).owner = s BY DEF ToolOf
  <2> QED BY <1>7, <2>1, Zenon
<1> QED BY <1>2, <1>3, <1>4, <1>6, <1>7, <1>8, <1>9 DEF new, cut

\* What is added is a read only on a trusted word.
LEMMA AddedTrusted ==
  ASSUME NEW s \in Servers, NEW i \in Offered(s), ToolOf(s, ServerTools[s][i]).effect = "read"
  PROVE  \/ ToolOf(s, ServerTools[s][i]).owner \in TrustedServers \cup {"core"}
         \/ \E t \in DOMAIN OperatorPolicy : NormalName[t] = NameAt(s, i) /\ OperatorPolicy[t] = "read"
BY DEF ToolOf, Effect, NameAt

LEMMA DiscoverKeeps == ASSUME ListingInv, NEW l \in Listers, DiscoverTools(l) PROVE ListingInv' /\ NamesKept
<1> DEFINE s == lister[l].server
           cut == FirstTaken(s, DOMAIN discovered)
<1>1. s \in Servers BY DEF ListingInv, ListingTypes, DiscoverTools
<1>2. /\ discovered' = Added(discovered, s, cut)
      /\ listedServers' = Marked(s, cut)
      /\ registry' = IF cut > Len(ServerTools[s]) THEN Registered(s) ELSE registry
      /\ lister' = [lister EXCEPT ![l].at = "done"]
  BY DEF DiscoverTools
<1>3. NamesKept
  BY <1>1, <1>2, AddedKeeps DEF NamesKept, Registered
<1>4. ListingTypes'
  <2>1. BuiltInTools \subseteq DOMAIN registry' BY <1>3 DEF NamesKept, ListingInv, ListingTypes
  <2>2. listedServers' \subseteq Servers BY <1>1, <1>2 DEF Marked, ListingInv, ListingTypes
  <2> QED BY <1>2, <2>1, <2>2 DEF ListingInv, ListingTypes, Servers
<1>5. ListedIsWhole'
  <2> SUFFICES ASSUME NEW r \in listedServers', NEW i \in Offered(r)
               PROVE  NameAt(r, i) \in DOMAIN discovered' /\ discovered'[NameAt(r, i)].owner = r
    BY DEF ListedIsWhole, Offered, NameAt
  <2>1. CASE r \in listedServers
    <3>1. NameAt(r, i) \in DOMAIN discovered /\ discovered[NameAt(r, i)].owner = r
      BY <2>1 DEF ListingInv, ListedIsWhole
    <3> QED BY <1>1, <1>2, <3>1, AddedKeeps
  <2>2. CASE r \notin listedServers
    <3>1. r = s /\ cut > Len(ServerTools[s]) BY <1>2, <2>2 DEF Marked
    <3>2. i \in 1..Len(ServerTools[s]) BY <1>1, <3>1, FirstTakenIs
    <3>3. Clashing(s, DOMAIN discovered) = {} BY <1>1, <3>1, FirstTakenIs
    <3>4. cut = Len(ServerTools[s]) + 1 BY <3>3 DEF FirstTaken
    <3>5. i < cut BY <3>2, <3>4
    <3> QED BY <1>1, <1>2, <3>1, <3>5, AddedKeeps
  <2> QED BY <2>1, <2>2
<1>6. ReadsTrusted'
  <2> SUFFICES ASSUME NEW n \in DOMAIN registry', registry'[n].effect = "read"
               PROVE  \/ registry'[n].owner \in TrustedServers \cup {"core"}
                      \/ \E t \in DOMAIN OperatorPolicy : NormalName[t] = n /\ OperatorPolicy[t] = "read"
    BY DEF ReadsTrusted
  <2>1. CASE n \in DOMAIN registry
    <3>1. registry'[n] = registry[n] BY <1>3, <2>1 DEF NamesKept
    <3> QED BY <2>1, <3>1 DEF ListingInv, ReadsTrusted
  <2>2. CASE n \notin DOMAIN registry
    <3>1. registry' = Registered(s) BY <1>2, <2>2
    <3>2. PICK i \in Offered(s) : NameAt(s, i) = n /\ registry'[n] = ToolOf(s, ServerTools[s][i])
      BY <1>1, <2>2, <3>1, AddedKeeps DEF Registered
    <3> QED BY <1>1, <3>2, AddedTrusted
  <2> QED BY <2>1, <2>2
<1> QED BY <1>3, <1>4, <1>5, <1>6 DEF ListingInv

LEMMA ListingKeeps == ASSUME ListingInv, ListingNext PROVE ListingInv' /\ NamesKept
<1>1. ASSUME UNCHANGED <<registry, discovered, listedServers>>, ListingTypes' PROVE ListingInv' /\ NamesKept
  BY <1>1 DEF ListingInv, ListedIsWhole, ReadsTrusted, NamesKept, Offered, NameAt
<1>2. ASSUME NEW l \in Listers, ListingFails(l) PROVE ListingInv' /\ NamesKept
  BY <1>1, <1>2 DEF ListingFails, ListingInv, ListingTypes, Servers
<1>3. ASSUME NEW l \in Listers, CallbackOver(l) PROVE ListingInv' /\ NamesKept
  BY <1>1, <1>3 DEF CallbackOver, ListingInv, ListingTypes, Servers
<1>4. ASSUME NEW l \in Listers, NEW s \in Servers, EnsureTools(l, s) PROVE ListingInv' /\ NamesKept
  BY <1>1, <1>4 DEF EnsureTools, ListingInv, ListingTypes, Servers
<1> QED BY <1>2, <1>3, <1>4, DiscoverKeeps DEF ListingNext

\* A page's number is past those collected.
LEMMA PageAnswerKeeps ==
  ASSUME HttpInv, NEW success \in BOOLEAN, NEW items \in BOOLEAN, NEW linked \in BOOLEAN,
         NEW size \in PageSizes, NEW next \in Origins, PageAnswer(success, size, items, linked, next)
  PROVE  HttpInv'
<1>1. page.at = "wait" /\ page.pages \in 0..MaxPages - 1 /\ MaxPages \in Nat
  BY CatalogAssumption DEF HttpInv, HttpTypes, PageAnswer
<1>2. page.collected \in Seq(Nat) /\ PageNumber(page) = page.pages + 1 /\ page.pages + 1 \in Nat
  BY <1>1 DEF HttpInv, HttpTypes, PageNumber
<1> DEFINE more == IF page.kind = "link_header" THEN linked ELSE page.kind = "page_param" /\ items
           longer == Append(page.collected, PageNumber(page))
<1>9. ASSUME NEW i \in DOMAIN page.collected
      PROVE  page.collected[i] \in Nat /\ page.collected[i] <= page.pages /\ page.collected[i] <= page.pages + 1
  <2>1. page.collected[i] \in Nat BY <1>2, ElementOfSeq, LenProperties
  <2>2. page.collected[i] <= page.pages BY DEF HttpInv
  <2> QED BY <1>1, <2>1, <2>2
<1>10. HttpTypes /\ DOMAIN page = {"at", "caller", "kind", "url", "pages", "bytes", "collected", "sentTo", "ok"}
  BY DEF HttpInv, HttpTypes, NoHttpPage
<1>3. longer \in Seq(Nat) /\ (\A i \in DOMAIN longer : longer[i] <= page.pages + 1)
      /\ (\A i, j \in DOMAIN longer : i < j => longer[i] < longer[j])
  <2>1. /\ longer \in Seq(Nat) /\ DOMAIN longer = 1..Len(page.collected) + 1 /\ Len(page.collected) \in Nat
        /\ \A i \in 1..Len(page.collected) : longer[i] = page.collected[i]
        /\ longer[Len(page.collected) + 1] = page.pages + 1
        /\ DOMAIN page.collected = 1..Len(page.collected)
    BY <1>2, AppendProperties, LenProperties
  <2>2. \A i \in 1..Len(page.collected) : page.collected[i] \in Nat /\ page.collected[i] <= page.pages
    BY <1>9, <2>1
  <2>3. \A i \in DOMAIN longer : longer[i] \in Nat /\ longer[i] <= page.pages + 1
    BY <1>1, <2>1, <2>2
  <2>4. ASSUME NEW i \in DOMAIN longer, NEW j \in DOMAIN longer, i < j PROVE longer[i] < longer[j]
    <3>1. i \in 1..Len(page.collected) BY <2>1, <2>4
    <3>2. CASE j = Len(page.collected) + 1 BY <1>1, <2>1, <2>2, <3>1, <3>2
    <3>3. CASE j \in 1..Len(page.collected) BY <2>1, <2>4, <3>1, <3>3 DEF HttpInv
    <3> QED BY <2>1, <3>2, <3>3
  <2> QED BY <2>1, <2>3, <2>4
<1> DEFINE got == IF items THEN longer ELSE page.collected
<1>4. got \in Seq(Nat) /\ (\A i \in DOMAIN got : got[i] <= page.pages + 1)
      /\ (\A i, j \in DOMAIN got : i < j => got[i] < got[j])
  <2> QED BY <1>2, <1>3, <1>9 DEF HttpInv
<1> HIDE DEF longer
<1>5. CASE page.bytes + size > MaxResultBytes
  <2>1. page' = [page EXCEPT !.at = "too_large"] BY <1>5 DEF PageAnswer
  <2> QED BY <2>1 DEF HttpInv, HttpTypes, CredentialStays
<1>6. CASE ~(page.bytes + size > MaxResultBytes) /\ ~success
  <2>1. page' = [page EXCEPT !.pages = @ + 1, !.bytes = @ + size, !.at = "done", !.ok = FALSE, !.collected = <<>>]
    BY <1>1, <1>6, <1>10, CatalogAssumption DEF PageAnswer, HttpTypes
  <2>2. HttpTypes' BY <1>1, <1>10, <2>1 DEF HttpTypes, NoHttpPage
  <2> QED BY <1>1, <1>10, <2>1, <2>2 DEF HttpInv, HttpTypes, CredentialStays
<1>7. CASE ~(page.bytes + size > MaxResultBytes) /\ success /\ page.kind = "none"
  <2>1. page' = [page EXCEPT !.pages = @ + 1, !.bytes = @ + size, !.at = "done", !.ok = TRUE]
    BY <1>1, <1>7, <1>10, CatalogAssumption DEF PageAnswer, HttpTypes
  <2>2. HttpTypes' BY <1>1, <1>10, <2>1 DEF HttpTypes, NoHttpPage
  <2>3. /\ page'.at = "done" /\ page'.url = page.url /\ page'.kind = page.kind /\ page'.pages = page.pages + 1
        /\ page'.collected = page.collected /\ page'.caller = page.caller /\ page'.sentTo = page.sentTo
    BY <1>10, <2>1 DEF HttpTypes
  <2> QED BY <1>1, <1>9, <2>2, <2>3 DEF HttpInv, HttpTypes, CredentialStays
<1>8. CASE ~(page.bytes + size > MaxResultBytes) /\ success /\ page.kind # "none"
  <2> DEFINE where == IF page.kind = "link_header" /\ more THEN next ELSE page.url
             on == more /\ page.pages + 1 < MaxPages
  <2>1. /\ page' = [page EXCEPT !.pages = @ + 1, !.bytes = @ + size, !.collected = got, !.url = where,
                                !.at = IF on THEN "ask" ELSE "done", !.ok = ~more \/ page.pages + 1 >= MaxPages]
    BY <1>1, <1>8, <1>10, CatalogAssumption DEF PageAnswer, HttpTypes, longer
  <2>2. /\ page'.pages = page.pages + 1 /\ page'.bytes = page.bytes + size /\ page'.collected = got
        /\ page'.url = where /\ page'.at = (IF on THEN "ask" ELSE "done") /\ page'.caller = page.caller
        /\ page'.kind = page.kind /\ page'.sentTo = page.sentTo
    BY <1>10, <2>1 DEF HttpTypes
  <2>3. where = HomeOrigin \/ page.kind = "link_header" BY DEF HttpInv
  <2> HIDE DEF where, got, more
  <2>5. HttpTypes' BY <1>1, <1>4, <1>10, <2>1 DEF HttpTypes, NoHttpPage
  <2>6. /\ page'.at \in {"ask", "wait"} => page'.pages < MaxPages
        /\ page'.url = HomeOrigin \/ (page'.kind = "link_header" /\ page'.pages > 0)
        /\ ~(page'.at = "wait")
    BY <1>1, <2>2, <2>3
  <2>7. (\A i \in DOMAIN page'.collected : page'.collected[i] <= page'.pages)
        /\ \A i, j \in DOMAIN page'.collected : i < j => page'.collected[i] < page'.collected[j]
    BY <1>4, <2>2
  <2>8. CredentialStays' BY <2>2 DEF HttpInv, HttpTypes, CredentialStays
  <2> QED BY <2>5, <2>6, <2>7, <2>8 DEF HttpInv
<1> QED BY <1>1, <1>5, <1>6, <1>7, <1>8, CatalogAssumption

LEMMA EmptyPage ==
  ASSUME page'.pages = 0, page'.url = HomeOrigin, page'.collected = <<>>, page'.sentTo = {}, page'.at # "wait",
         DOMAIN page' = DOMAIN NoHttpPage
  PROVE  HttpInv'
<1>1. 0 \in 0..MaxPages /\ 0 < MaxPages BY CatalogAssumption
<1>2. <<>> \in Seq(Nat) /\ DOMAIN <<>> = {} OBVIOUS
<1>3. HttpTypes' BY <1>1, <1>2 DEF HttpTypes, NoHttpPage
<1> QED BY <1>1, <1>2, <1>3 DEF HttpInv, CredentialStays

LEMMA HttpKeeps == ASSUME HttpInv, HttpNext PROVE HttpInv'
<1>1. ASSUME page' = NoHttpPage PROVE HttpInv'
  <2>1. /\ NoHttpPage.pages = 0 /\ NoHttpPage.url = HomeOrigin /\ NoHttpPage.collected = <<>>
        /\ NoHttpPage.sentTo = {} /\ NoHttpPage.at # "wait"
    BY DEF NoHttpPage
  <2> QED BY <1>1, <2>1, EmptyPage
<1>2. ASSUME NEW caller \in BOOLEAN, NEW kind \in {"none", "link_header", "page_param"}, HttpCall(caller, kind)
      PROVE  HttpInv'
  <2>1. page' = [NoHttpPage EXCEPT !.at = "ask", !.caller = caller, !.kind = kind] BY <1>2 DEF HttpCall
  <2>2. /\ page'.pages = 0 /\ page'.url = HomeOrigin /\ page'.collected = <<>> /\ page'.sentTo = {}
        /\ page'.at = "ask" /\ DOMAIN page' = DOMAIN NoHttpPage
    BY <2>1 DEF NoHttpPage
  <2> QED BY <2>2, EmptyPage
<1>3. ASSUME AskPage PROVE HttpInv'
  <2>1. CASE page' = [page EXCEPT !.at = "refused"] BY <2>1 DEF HttpInv, HttpTypes, CredentialStays
  <2>2. CASE page' = [page EXCEPT !.at = "wait", !.sentTo = @ \cup {page.url}] /\
             ~(page.caller /\ page.pages > 0 /\ page.kind = "link_header" /\ ~SameOrigin(page.url, HomeOrigin))
    <3>1. page.at = "ask" BY <1>3 DEF AskPage
    <3>2. page.caller => page.url = HomeOrigin BY <2>2 DEF HttpInv, SameOrigin
    <3> QED BY <2>2, <3>1, <3>2 DEF HttpInv, HttpTypes, CredentialStays
  <2> QED BY <1>3, <2>1, <2>2 DEF AskPage
<1> QED BY <1>1, <1>2, <1>3, PageAnswerKeeps DEF HttpNext, HttpOver

LEMMA KitKeeps == ASSUME KitInv, KitNext PROVE KitInv'
<1>1. ASSUME NEW c \in KitCalls, KitClient(c) PROVE KitInv'
  BY <1>1, CatalogAssumption DEF KitClient, KitFree, KitInv
<1>2. ASSUME NEW c \in KitCalls, KitCallOver(c) PROVE KitInv'
  BY <1>2 DEF KitCallOver, KitInv
<1>3. ASSUME KitClose PROVE KitInv'
  BY <1>3 DEF KitClose, KitFree, KitInv
<1>4. ASSUME NEW c \in KitCalls, NEW works \in BOOLEAN, KitOpened(c, works) PROVE KitInv'
  <2>1. kit.holder = c /\ kit.client = 0 /\ kit.open = {} /\ c # "free" BY <1>4, CatalogAssumption DEF KitOpened, KitInv
  <2>2. \A o \in KitCalls : kcall[o] = "opening" => o = c BY <2>1 DEF KitInv
  <2>3. \A o \in KitCalls : kcall'[o] # "opening" BY <1>4, <2>2 DEF KitOpened, KitInv
  <2>4. DOMAIN kcall' = KitCalls BY <1>4 DEF KitOpened, KitInv
  <2>5. CASE works
    <3>1. kit' = [client |-> kit.made + 1, holder |-> "free", open |-> {kit.made + 1}, made |-> kit.made + 1]
      BY <1>4, <2>1, <2>5 DEF KitOpened
    <3>2. kit.made \in Nat BY DEF KitInv
    <3> QED BY <2>3, <2>4, <3>1, <3>2 DEF KitInv
  <2>6. CASE ~works
    <3>1. kit' = [kit EXCEPT !.holder = "free"] BY <1>4, <2>6 DEF KitOpened
    <3> QED BY <2>1, <2>3, <2>4, <3>1 DEF KitInv
  <2> QED BY <2>5, <2>6
<1> QED BY <1>1, <1>2, <1>3, <1>4 DEF KitNext

\* A file has a size, where its last character ends.
LEMMA FileSizeIs == FileSize \in Nat /\ \A n \in TextFile : n <= FileSize
<1>1. \E n \in TextFile : \A m \in TextFile : m <= n BY CatalogAssumption
<1>2. FileSize \in TextFile /\ \A n \in TextFile : n <= FileSize BY <1>1, Zenon DEF FileSize
<1> QED BY <1>2, CatalogAssumption

LEMMA WindowKeeps == ASSUME FilesInv, NEW n \in 1..ReadBytes, ReadWindow(n) PROVE FilesInv'
<1> DEFINE have == IF reads.offset >= FileSize THEN 0 ELSE FileSize - reads.offset
           count == IF n < have THEN n ELSE have
           cut == Truncated(reads.offset, count)
<1>1. n \in Nat /\ ReadBytes \in Nat BY CatalogAssumption
<1>2. reads.offset \in Nat /\ FileSize \in Nat /\ reads.offset <= FileSize BY FileSizeIs DEF FilesInv
<1>3. have = FileSize - reads.offset /\ have \in Nat BY <1>2
<1>4. count \in Nat /\ reads.offset + count <= FileSize BY <1>1, <1>2, <1>3
<1>5. ~cut => reads.offset + count = FileSize BY <1>2, <1>4 DEF Truncated
<1>6. cut \in BOOLEAN BY DEF Truncated
<1>7. UNCHANGED scan BY DEF ReadWindow
<1>8. CASE reads' = [reads EXCEPT !.at = "not_text"] BY <1>7, <1>8 DEF FilesInv, FileSize
<1>9. CASE reads' = [at |-> IF cut THEN "reading" ELSE "end", offset |-> reads.offset + count,
                     got |-> reads.got + count, truncated |-> cut]
  <2> HIDE DEF count, cut
  <2>1. reads.got = reads.offset BY DEF FilesInv
  <2>2. /\ reads'.offset = reads.offset + count /\ reads'.got = reads'.offset
        /\ reads'.at = (IF cut THEN "reading" ELSE "end")
    BY <1>9, <2>1
  <2>3. reads' \in [at : {"reading", "end", "not_text"}, offset : Nat, got : Nat, truncated : BOOLEAN]
    BY <1>2, <1>4, <1>6, <1>9, <2>1
  <2>4. reads'.offset <= FileSize /\ (reads'.at = "end" => reads'.offset = FileSize) BY <1>4, <1>5, <2>2
  <2> QED BY <1>7, <2>2, <2>3, <2>4 DEF FilesInv, FileSize
<1> QED BY <1>8, <1>9 DEF ReadWindow

LEMMA ScanKeeps == ASSUME FilesInv, ScanEntry PROVE FilesInv'
<1> DEFINE f == scan.stack[Len(scan.stack)]
           below == SubSeq(scan.stack, 1, Len(scan.stack) - 1)
           here == DirTree[f.dir]
<1>1. scan.stack \in Seq(ScanFrames) /\ scan.stack # <<>> /\ UNCHANGED reads BY DEF FilesInv, ScanEntry
<1>2. Len(scan.stack) \in Nat \ {0} /\ f \in ScanFrames BY <1>1, ElementOfSeq, EmptySeq, LenProperties
<1>3. below \in Seq(ScanFrames) BY <1>1, <1>2, SubSeqProperties
<1>4. f.dir \in DOMAIN DirTree /\ f.next \in Nat \ {0} /\ here \in Seq(DirEntries) /\ Len(here) \in Nat
      /\ DOMAIN here = 1..Len(here)
  <2>1. f.dir \in DOMAIN DirTree /\ f.next \in Nat \ {0} BY <1>2 DEF ScanFrames
  <2>2. here \in Seq(DirEntries) BY <2>1, CatalogAssumption DEF DirEntries
  <2> QED BY <2>1, <2>2, LenProperties
<1>5. ASSUME scan'.at = "scanning" => scan'.stack # <<>>,
             DOMAIN scan' = DOMAIN NoScan, scan'.stack \in Seq(ScanFrames), scan'.entries \in Seq(ScanEntries),
             Len(scan'.entries) <= MaxDirEntries
      PROVE  FilesInv'
  BY <1>1, <1>5 DEF FilesInv, FileSize
<1>6. CASE f.next > Len(here)
  <2>1. scan' = [scan EXCEPT !.stack = below, !.at = IF below = <<>> THEN "done" ELSE "scanning"]
    BY <1>6 DEF ScanEntry
  <2> HIDE DEF below, f, here
  <2> QED BY <1>3, <1>5, <2>1 DEF FilesInv, NoScan
<1>7. CASE f.next <= Len(here) /\ ListingFull
  <2>1. scan' = [scan EXCEPT !.truncated = TRUE, !.at = "done", !.stack = <<>>]
    BY <1>2, <1>4, <1>7 DEF ScanEntry
  <2> HIDE DEF below, f, here
  <2> QED BY <1>5, <2>1 DEF FilesInv, NoScan
<1>8. CASE f.next <= Len(here) /\ ~ListingFull
  <2> DEFINE e == here[f.next]
             after == Append(below, [f EXCEPT !.next = @ + 1])
             deeper == e.inside /\ e.dir /\ scan.recursive /\ Len(scan.stack) < MaxDirDepth
             told == IF e.inside THEN Append(scan.entries, <<f.dir, e.name>>) ELSE scan.entries
             stack == IF deeper THEN Append(after, [dir |-> e.name, next |-> 1]) ELSE after
  <2>1. scan' = [scan EXCEPT !.entries = told, !.stack = stack]
    BY <1>2, <1>4, <1>8 DEF ScanEntry
  <2>11. f.next \in 1..Len(here) BY <1>4, <1>8
  <2>2. e \in DirEntries /\ f.next \in DOMAIN here BY <1>4, <2>11, ElementOfSeq
  <2>3. [f EXCEPT !.next = @ + 1] \in ScanFrames BY <1>2 DEF ScanFrames
  <2>4. after \in Seq(ScanFrames) /\ after # <<>> BY <1>3, <2>3, AppendProperties
  <2>5. deeper => e.name \in DOMAIN DirTree BY <1>4, <2>2, CatalogAssumption
  <2>6. deeper => [dir |-> e.name, next |-> 1] \in ScanFrames BY <2>5 DEF ScanFrames
  <2> HIDE DEF after, e, deeper
  <2>7. stack \in Seq(ScanFrames) /\ stack # <<>> BY <2>4, <2>6, AppendProperties
  <2>8. <<f.dir, e.name>> \in ScanEntries BY <1>4, <2>2 DEF ScanEntries, DirEntries
  <2>9. scan.entries \in Seq(ScanEntries) /\ Len(scan.entries) \in Nat
        /\ Len(scan.entries) < MaxDirEntries
    BY <1>8, CatalogAssumption DEF FilesInv, ListingFull
  <2>10. told \in Seq(ScanEntries) /\ Len(told) <= MaxDirEntries
    BY <2>8, <2>9, AppendProperties, CatalogAssumption
  <2> HIDE DEF told, stack, f, here, below
  <2> QED BY <1>5, <2>1, <2>7, <2>10 DEF FilesInv, NoScan
<1> QED BY <1>2, <1>4, <1>6, <1>7, <1>8

LEMMA FilesKeep == ASSUME FilesInv, FilesNext PROVE FilesInv'
<1>1. ASSUME NEW d \in DOMAIN DirTree, NEW recursive \in BOOLEAN, StartScan(d, recursive) PROVE FilesInv'
  <2>1. scan' = [at |-> "scanning", recursive |-> recursive, stack |-> <<[dir |-> d, next |-> 1]>>,
                 entries |-> <<>>, truncated |-> FALSE]
    BY <1>1 DEF StartScan, NoScan
  <2>2. UNCHANGED reads BY <1>1 DEF StartScan
  <2>3. <<[dir |-> d, next |-> 1]>> \in Seq(ScanFrames) /\ <<[dir |-> d, next |-> 1]>> # <<>> BY DEF ScanFrames
  <2>4. <<>> \in Seq(ScanEntries) /\ Len(<<>>) <= MaxDirEntries BY CatalogAssumption
  <2> QED BY <2>1, <2>2, <2>3, <2>4 DEF FilesInv, FileSize, NoScan
<1> QED BY <1>1, WindowKeeps, ScanKeeps DEF FilesNext

LEMMA CatalogBegins == CatalogInit => CatalogInv
<1> SUFFICES ASSUME CatalogInit PROVE CatalogInv OBVIOUS
<1>1. ListingInv BY DEF CatalogInit, ListingInv, ListingTypes, ListedIsWhole, ReadsTrusted
<1>2. HttpInv
  <2>1. page = NoHttpPage BY Zenon DEF CatalogInit
  <2>2. 0 \in 0..MaxPages BY CatalogAssumption
  <2>3. <<>> \in Seq(Nat) /\ DOMAIN <<>> = {} OBVIOUS
  <2>4. HttpTypes BY <2>1, <2>2, <2>3 DEF HttpTypes, NoHttpPage
  <2> QED BY <2>1, <2>3, <2>4 DEF HttpInv, NoHttpPage, CredentialStays
<1>3. KitInv BY DEF CatalogInit, KitInv
<1>4. FilesInv
  <2>1. 0 <= FileSize BY FileSizeIs
  <2>3. scan = NoScan /\ reads = [at |-> "reading", offset |-> 0, got |-> 0, truncated |-> TRUE] BY Zenon DEF CatalogInit
  <2>2. <<>> \in Seq(ScanFrames) /\ <<>> \in Seq(ScanEntries) /\ Len(<<>>) <= MaxDirEntries BY CatalogAssumption
  <2> QED BY <2>1, <2>2, <2>3 DEF FilesInv, NoScan
<1> QED BY <1>1, <1>2, <1>3, <1>4 DEF CatalogInv

LEMMA CatalogStep == ASSUME CatalogInv, [CatalogNext]_catalogVars PROVE CatalogInv' /\ [NamesKept]_registry
<1>1. ASSUME UNCHANGED listingVars PROVE ListingInv' /\ UNCHANGED registry
  BY <1>1 DEF CatalogInv, ListingInv, ListingTypes, ListedIsWhole, ReadsTrusted, listingVars, Offered, NameAt, Servers
<1>2. ASSUME UNCHANGED page PROVE HttpInv' BY <1>2 DEF CatalogInv, HttpInv, HttpTypes, CredentialStays
<1>3. ASSUME UNCHANGED <<kit, kcall>> PROVE KitInv' BY <1>3 DEF CatalogInv, KitInv
<1>4. ASSUME UNCHANGED <<reads, scan>> PROVE FilesInv' BY <1>4 DEF CatalogInv, FilesInv, FileSize
<1>5. CASE UNCHANGED catalogVars
  BY <1>1, <1>2, <1>3, <1>4, <1>5 DEF catalogVars, listingVars, CatalogInv
<1>6. CASE ListingNext
  <2>1. UNCHANGED <<page, kit, kcall, reads, scan>>
    BY <1>6 DEF ListingNext, DiscoverTools, ListingFails, CallbackOver, EnsureTools
  <2> QED BY <1>2, <1>3, <1>4, <1>6, <2>1, ListingKeeps DEF CatalogInv
<1>7. CASE HttpNext
  <2>1. UNCHANGED <<listingVars, kit, kcall, reads, scan>>
    BY <1>7 DEF HttpNext, HttpCall, PageAnswer, AskPage, HttpOver
  <2> QED BY <1>1, <1>3, <1>4, <1>7, <2>1, HttpKeeps DEF CatalogInv
<1>8. CASE KitNext
  <2>1. UNCHANGED <<listingVars, page, reads, scan>>
    BY <1>8 DEF KitNext, KitClient, KitOpened, KitCallOver, KitClose
  <2> QED BY <1>1, <1>2, <1>4, <1>8, <2>1, KitKeeps DEF CatalogInv
<1>9. CASE FilesNext
  <2>1. UNCHANGED <<listingVars, page, kit, kcall>>
    BY <1>9 DEF FilesNext, ReadWindow, StartScan, ScanEntry
  <2> QED BY <1>1, <1>2, <1>3, <1>9, <2>1, FilesKeep DEF CatalogInv
<1> QED BY <1>5, <1>6, <1>7, <1>8, <1>9 DEF CatalogNext

LEMMA CatalogInvSafe ==
  CatalogInv => /\ CatalogTypeOK /\ ListedIsWhole /\ ReadsTrusted /\ CredentialStays /\ PagesInOrder
                /\ OneClient /\ ReadToTheEnd
<1> SUFFICES ASSUME CatalogInv PROVE /\ CatalogTypeOK /\ ListedIsWhole /\ ReadsTrusted /\ CredentialStays
                                     /\ PagesInOrder /\ OneClient /\ ReadToTheEnd
  OBVIOUS
<1>1. CatalogTypeOK BY DEF CatalogInv, CatalogTypeOK, ListingInv, ListingTypes, HttpInv, HttpTypes, KitInv, FilesInv
<1>2. ListedIsWhole /\ ReadsTrusted BY DEF CatalogInv, ListingInv
<1>3. CredentialStays /\ PagesInOrder BY DEF CatalogInv, HttpInv, PagesInOrder
<1>4. OneClient /\ ReadToTheEnd BY DEF CatalogInv, KitInv, FilesInv, OneClient, ReadToTheEnd
<1> QED BY <1>1, <1>2, <1>3, <1>4

\* No listing replaces a tool under its name, a server that counts as listed has all its tools, a credential stays
\* at its origin, a toolkit has one client and a file is read to its end (tools/, mcp/client.py).
THEOREM CatalogIsSafe == CatalogSpec => CatalogSafe
<1>1. CatalogSpec => []CatalogInv BY CatalogBegins, CatalogStep, PTL DEF CatalogSpec
<1>2. CatalogSpec => [][NamesKept]_registry
  <2>1. CatalogInv /\ [CatalogNext]_catalogVars => [NamesKept]_registry BY CatalogStep
  <2> QED BY <1>1, <2>1, PTL DEF CatalogSpec
<1> QED BY <1>1, <1>2, CatalogInvSafe, PTL DEF CatalogSafe
=============================================================================
