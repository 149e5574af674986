------------------------------ MODULE Outbound ------------------------------
(***************************************************************************)
(* Outbound HTTP: the clients of security/network.py and the deployment's  *)
(* egress proxy and TLS identities (security/outbound.py).                 *)
(*                                                                         *)
(* A request names a host.  A guarded client resolves it, refuses it       *)
(* unless every address is public, and connects to the addresses it        *)
(* resolved, one after the other; meanwhile the name may resolve to        *)
(* something else.  With an egress proxy the target is checked and the     *)
(* proxy makes the connection.  TLS may pin the certificate of a host.     *)
(* Connections are kept and used again; a response may redirect.           *)
(*                                                                         *)
(* Names are strings with the domains above them given as a constant; of   *)
(* an address only matters whether it is public.  Certificate chains,      *)
(* credentials and time limits are left out.                               *)
(***************************************************************************)
EXTENDS Naturals, FiniteSets, Sequences

CONSTANTS
  NetRequests,
  Hosts,
  DomainsOf,     \* [Hosts \cup {Proxy} -> the sequence of its domains, the name itself first]
  LiteralOf,     \* [the hosts that are address literals -> the address]
  Addresses,
  PublicAddresses,
  Proxy,         \* the name, and the address, of the egress proxy
  AllowedHosts,  \* the client's allowlist; {}: every host
  NoProxy,       \* domains reached directly
  Remotes,       \* [domain -> [exact, pins]], network.remotes; pins {}: none
  Certificates,
  MaxHops,       \* bound: redirects followed
  MaxChanges     \* bound: changes of the DNS

ASSUME NetConstants ==
  /\ Hosts # {} /\ LiteralOf \in [DOMAIN LiteralOf -> Addresses] /\ DOMAIN LiteralOf \subseteq Hosts
  /\ PublicAddresses \subseteq Addresses /\ MaxHops \in Nat
  /\ Proxy \notin Hosts \cup Addresses

VARIABLES
  netConfig,   \* [guarded, proxied, resolves, private]: the client and its deployment
  dns,         \* [Hosts -> the addresses it has now], external
  dnsChanges,
  netReq,      \* [NetRequests -> the request]
  connections  \* the pool: open connections

netVars == <<netConfig, dns, dnsChanges, netReq, connections>>

-----------------------------------------------------------------------------
AnyHost == CHOOSE h \in Hosts : TRUE
\* A request that has connected to nothing yet.
RequestTo(host, tls, stage, hops) ==
  [at |-> stage, host |-> host, tls |-> tls, hops |-> hops,
   found |-> {}, left |-> {}, peer |-> "none", cert |-> "none", via |-> "none"]

NetInit ==
  /\ netConfig \in [guarded : BOOLEAN, proxied : BOOLEAN, resolves : BOOLEAN, private : BOOLEAN]
  /\ netConfig.resolves => netConfig.proxied
  /\ dns \in [Hosts -> {{a} : a \in PublicAddresses}]
  /\ \A h, g \in Hosts : dns[h] = dns[g]
  /\ dnsChanges = 0
  /\ netReq = [r \in NetRequests |-> RequestTo(AnyHost, FALSE, "new", 0)]
  /\ connections = {}

\* check_host_allowlist, EgressProxy.bypasses: the name or a domain above it is listed.
Matches(host, domains) == \E i \in DOMAIN DomainsOf[host] : DomainsOf[host][i] \in domains
HostAllowed(host) == AllowedHosts = {} \/ Matches(host, AllowedHosts)
Bypasses(host) == ~netConfig.proxied \/ Matches(host, NoProxy)

\* is_ip_allowed.
AddressesAllowed(addresses) == netConfig.private \/ addresses \subseteq PublicAddresses

\* resolve_and_validate_addresses: an address literal is its own answer; one address that is not
\* allowed refuses the host.
Resolved(host) == IF host \in DOMAIN LiteralOf THEN {LiteralOf[host]} ELSE dns[host]
Vetted(host, addresses) == HostAllowed(host) /\ addresses # {} /\ AddressesAllowed(addresses)

NetAt(r, stage) == netReq' = [netReq EXCEPT ![r].at = stage]
RefuseRequest(r) == NetAt(r, "refused")

-----------------------------------------------------------------------------
\* normalize_and_validate_url: an http or https URL with a host and no credentials.
UrlAccepted(web, host) == web /\ Vetted(host, Resolved(host))

\* validate_outbound_url, which a caller may ask first: only the scheme, the allowlist and the
\* addresses of that moment.
ValidateUrl(r) ==
  /\ netReq[r].at = "new"
  /\ \E h \in Hosts, tls \in BOOLEAN, web \in BOOLEAN :
       netReq' = [netReq EXCEPT ![r] =
         RequestTo(h, tls, IF UrlAccepted(web, h) THEN "ready" ELSE "refused", 0)]
  /\ UNCHANGED <<netConfig, dns, dnsChanges, connections>>

SendRequest(r) ==
  /\ netReq[r].at = "new"
  /\ \E h \in Hosts, tls \in BOOLEAN :
       netReq' = [netReq EXCEPT ![r] = RequestTo(h, tls, "ready", 0)]
  /\ UNCHANGED <<netConfig, dns, dnsChanges, connections>>

\* The target of a proxied request: resolved and vetted, or, where the deployment cannot resolve,
\* the allowlist and an address literal.
TargetVetted(host) ==
  IF netConfig.resolves THEN Vetted(host, Resolved(host))
  ELSE HostAllowed(host) /\ (host \in DOMAIN LiteralOf => AddressesAllowed({LiteralOf[host]}))

\* _ProxyNetworkBackend: the proxied pool connects to the proxy and nowhere else.
ProxyAddresses == {Proxy}

Route(r) ==
  LET host == netReq[r].host IN
  /\ netReq[r].at = "ready"
  /\ IF Bypasses(host) THEN netReq' = [netReq EXCEPT ![r] = [@ EXCEPT !.at = "direct", !.via = "direct"]]
     ELSE IF netConfig.guarded /\ ~TargetVetted(host) THEN RefuseRequest(r)
     ELSE netReq' = [netReq EXCEPT ![r] = [@ EXCEPT !.at = "opening", !.via = "proxy",
                                                    !.found = ProxyAddresses, !.left = ProxyAddresses]]
  /\ UNCHANGED <<netConfig, dns, dnsChanges, connections>>

\* An open connection to the same origin is used without another look.
Reuse(r) ==
  /\ netReq[r].at \in {"direct", "opening"}
  /\ \E c \in connections :
       /\ c.host = netReq[r].host /\ c.tls = netReq[r].tls /\ c.via = netReq[r].via
       /\ netReq' = [netReq EXCEPT ![r] = [@ EXCEPT !.at = "sent", !.peer = c.peer, !.cert = c.cert]]
  /\ UNCHANGED <<netConfig, dns, dnsChanges, connections>>

\* SafeNetworkBackend.connect_tcp resolves once; an unguarded client leaves it to the system.
Resolve(r) ==
  LET found == Resolved(netReq[r].host) IN
  /\ netReq[r].at = "direct"
  /\ IF netConfig.guarded /\ ~Vetted(netReq[r].host, found) THEN RefuseRequest(r)
     ELSE netReq' = [netReq EXCEPT ![r] = [@ EXCEPT !.at = "opening", !.found = found, !.left = found]]
  /\ UNCHANGED <<netConfig, dns, dnsChanges, connections>>

\* Mutant: the connection is opened by name, which is resolved again.
CandidatesByName(r) == IF netReq[r].via = "proxy" THEN {Proxy} ELSE Resolved(netReq[r].host)

\* The addresses left to try are those that were resolved and vetted.
Candidates(r) == netReq[r].left

OpenAddress(r) ==
  /\ netReq[r].at = "opening"
  /\ \E a \in Candidates(r) :
       \/ netReq' = [netReq EXCEPT ![r] = [@ EXCEPT !.at = "connected", !.peer = a]]
       \/ netReq' = [netReq EXCEPT ![r] = [@ EXCEPT !.left = netReq[r].left \ {a},
                            !.at = IF netReq[r].left \ {a} = {} THEN "unreachable" ELSE "opening"]]
  /\ UNCHANGED <<netConfig, dns, dnsChanges, connections>>

\* remote_for: an exact entry, else the wildcard with the longest domain; a wildcard does not
\* match its own domain.
RemoteFor(name) ==
  LET listed == {i \in DOMAIN DomainsOf[name] :
                   /\ DomainsOf[name][i] \in DOMAIN Remotes
                   /\ Remotes[DomainsOf[name][i]].exact = (i = 1)}
  IN IF listed = {} THEN {} ELSE Remotes[DomainsOf[name][CHOOSE i \in listed : \A j \in listed : i <= j]].pins

\* _instrument_tls: the name of the host the request is for, inside the proxy's tunnel too.
ServerName(r) == netReq[r].host

\* Plain requests are sent as they are; TLS needs a certificate, and one of the pins if the host
\* has any. A mismatch ends the request: the other addresses are not tried.
StartTls(r) ==
  LET pins == RemoteFor(ServerName(r))
      open(cert) == /\ netReq' = [netReq EXCEPT ![r] = [@ EXCEPT !.at = "sent", !.cert = cert]]
                    /\ connections' = connections \cup
                         {[host |-> netReq[r].host, tls |-> netReq[r].tls, via |-> netReq[r].via,
                           peer |-> netReq[r].peer, cert |-> cert]}
  IN /\ netReq[r].at = "connected"
     /\ IF ~netReq[r].tls THEN open("none")
        ELSE \E cert \in Certificates :
               IF pins = {} \/ cert \in pins THEN open(cert) ELSE RefuseRequest(r) /\ UNCHANGED connections
     /\ UNCHANGED <<netConfig, dns, dnsChanges>>

\* A redirect is a request of its own to the same transport.
Redirect(r) ==
  /\ netReq[r].at = "sent" /\ netReq[r].hops < MaxHops
  /\ \E h \in Hosts, tls \in BOOLEAN :
       netReq' = [netReq EXCEPT ![r] = RequestTo(h, tls, "ready", netReq[r].hops + 1)]
  /\ UNCHANGED <<netConfig, dns, dnsChanges, connections>>

\* External: the records of a name change.
DnsChanges ==
  /\ dnsChanges < MaxChanges
  /\ dnsChanges' = dnsChanges + 1
  /\ \E h \in Hosts \ DOMAIN LiteralOf, found \in SUBSET Addresses : dns' = [dns EXCEPT ![h] = found]
  /\ UNCHANGED <<netConfig, netReq, connections>>

NetNext ==
  \/ \E r \in NetRequests : \/ ValidateUrl(r) \/ SendRequest(r) \/ Route(r) \/ Reuse(r) \/ Resolve(r)
                            \/ OpenAddress(r) \/ StartTls(r) \/ Redirect(r)
  \/ DnsChanges
NetSpec == NetInit /\ [][NetNext]_netVars

-----------------------------------------------------------------------------
\* The types of the requests and the pool.
NetTypeOK ==
  /\ \A r \in NetRequests :
       /\ netReq[r].at \in {"new", "ready", "direct", "opening", "connected", "sent", "refused", "unreachable"}
       /\ netReq[r].found \subseteq Addresses \cup {Proxy} /\ netReq[r].left \subseteq netReq[r].found
  /\ \A c \in connections : c.peer \in Addresses \cup {Proxy}

\* A guarded client talks only to what its rules allow, however the DNS changes between a check
\* and a connection, on a redirect and on a connection used again: an allowed host, at a public
\* address unless private networks are allowed, or through the proxy, directly only where the
\* proxy is bypassed (SafeNetworkBackend, SafeAsyncTransport).
PeersVetted ==
  netConfig.guarded =>
    \A r \in NetRequests : netReq[r].at \in {"connected", "sent"} =>
      /\ HostAllowed(netReq[r].host)
      /\ IF Bypasses(netReq[r].host)
         THEN netConfig.private \/ netReq[r].peer \in PublicAddresses
         ELSE netReq[r].peer = Proxy

\* Nothing is sent over TLS to a host with pinned certificates unless the peer showed one of them,
\* directly, through the proxy's tunnel or on a connection used again (_instrument_tls).
PinsHold ==
  \A r \in NetRequests : netReq[r].at = "sent" /\ netReq[r].tls /\ RemoteFor(netReq[r].host) # {} =>
    netReq[r].cert \in RemoteFor(netReq[r].host)

\* A request reaches only hosts and addresses its rules allow, and pinned hosts only with their
\* certificates, over redirects, changing names and connections used again.
NetSafe == NetTypeOK /\ PeersVetted /\ PinsHold
=============================================================================
