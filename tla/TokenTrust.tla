----------------------------- MODULE TokenTrust ------------------------------
(***************************************************************************)
(* Who may use the HTTP API: bearer tokens and the keys of their issuer    *)
(* (auth/oidc.py, auth/jwks.py), revocation (auth/revocation.py), and the  *)
(* audit of failures (auth/audit.py).                                      *)
(*                                                                         *)
(* Requests run at the same time and give way at every await: for the lock *)
(* of the key cache, for the issuer's answer and for the revocation store. *)
(***************************************************************************)
EXTENDS Integers, Sequences, FiniteSets

CONSTANTS HttpRequests,     \* requests under way at once
          Tokens, TokenOf,  \* [token -> [kid, alg, iat, exp, jti, sub, scopes]], jti "" where it has none
          TrustUntil,      \* moments in a behaviour
          KeyTtl, MinInterval,      \* of the key cache
          AuditLimit, AuditWindow,  \* failure records in a window
          MaxRevocations,   \* entries of the revocation store
          MaxRevokes,       \* revocations in a behaviour
          Nobody

ASSUME TrustAssumption ==
    /\ AuditLimit \in Nat /\ AuditWindow \in Nat /\ MinInterval \in Nat
    /\ MaxRevocations \in Nat /\ TrustUntil \in Nat /\ Nobody \notin HttpRequests
    /\ \A t \in Tokens : TokenOf[t].iat \in Nat

VARIABLES moment,
          jwks,       \* [keys, fetched, attempt, lock]; a moment is -1 where there is none
          published,  \* external: the keys the issuer serves
          attempts,   \* not in the code: the moments keys were asked for
          revoked,    \* [jti -> the moment the entry ends], only of entries
          cutoffs,    \* [sub -> the moment] of the subjects revoked
          promised,   \* not in the code: the latest end asked for a jti, the latest cutoff for a sub
          req,        \* a request
          auditor,    \* [start, count, suppressed]
          records,    \* not in the code: [failures, written, reported]
          revokes     \* not in the code: how many revocations were asked for
trustVars == <<moment, jwks, published, attempts, revoked, cutoffs, promised, req, auditor, records, revokes>>

NoMoment == -1
Jtis == {TokenOf[t].jti : t \in Tokens} \ {""}
Subjects == {TokenOf[t].sub : t \in Tokens}
Kids == {TokenOf[t].kid : t \in Tokens}
Maximum(S) == CHOOSE x \in S : \A y \in S : y <= x
Minimum(S) == CHOOSE x \in S : \A y \in S : x <= y
Resting == [at |-> "idle", token |-> Nobody, since |-> NoMoment]
TrustInit ==
    /\ moment = 0
    /\ jwks = [keys |-> {}, fetched |-> NoMoment, attempt |-> NoMoment, lock |-> Nobody]
    /\ published \in SUBSET Kids /\ attempts = <<>>
    /\ revoked = [j \in {} |-> 0] /\ cutoffs = [s \in {} |-> 0]
    /\ promised = [x \in ({"jti"} \X Jtis) \cup ({"sub"} \X Subjects) |-> NoMoment]
    /\ req = [r \in HttpRequests |-> Resting]
    /\ auditor = [start |-> NoMoment, count |-> 0, suppressed |-> 0]
    /\ records = [failures |-> 0, written |-> 0, reported |-> 0]
    /\ revokes = 0

TrustTypeOK ==
    /\ moment \in 0..TrustUntil /\ jwks.keys \subseteq Kids /\ jwks.lock \in HttpRequests \cup {Nobody}
    /\ DOMAIN revoked \subseteq Jtis /\ Cardinality(DOMAIN revoked) <= MaxRevocations
    /\ auditor.count \in 0..AuditLimit

-----------------------------------------------------------------------------
(* The audit of a failure: a record, or a count that the first failure of
   the next window reports. *)
NewWindow(a) == a.start = NoMoment \/ moment - a.start >= AuditWindow
Reported(a) == IF NewWindow(a) THEN a.suppressed ELSE 0

AuditFailure(a) ==
    LET b == IF NewWindow(a) THEN [start |-> moment, count |-> 0, suppressed |-> 0] ELSE a
    IN  IF b.count >= AuditLimit THEN [b EXCEPT !.suppressed = @ + 1] ELSE [b EXCEPT !.count = @ + 1]
Refuse(r) ==
    /\ req' = [req EXCEPT ![r] = [@ EXCEPT !.at = "refused"]]
    /\ auditor' = AuditFailure(auditor)
    /\ records' = [failures |-> records.failures + 1,
                   written |-> records.written + (IF AuditFailure(auditor).count # (IF NewWindow(auditor) THEN 0 ELSE auditor.count)
                                                  THEN 1 ELSE 0),
                   reported |-> records.reported + Reported(auditor)]

(* A token: the header is read, the key fetched, the claims checked. *)
Arrive(r, t) ==
    /\ req[r].at = "idle" 
    /\ req' = [req EXCEPT ![r] = [Resting EXCEPT !.at = "key", !.token = t, !.since = moment]]
    /\ UNCHANGED <<moment, jwks, published, attempts, revoked, cutoffs, promised, auditor, records, revokes>>
KeysStale == jwks.fetched = NoMoment \/ moment - jwks.fetched >= KeyTtl
\* get_key: without a refresh when the keys are fresh and have it.
FindKey(r) ==
    /\ req[r].at = "key"
    /\ req' = [req EXCEPT ![r] = [@ EXCEPT !.at = IF KeysStale \/ TokenOf[req[r].token].kid \notin jwks.keys THEN "refresh" ELSE "verify"]]
    /\ UNCHANGED <<moment, jwks, published, attempts, revoked, cutoffs, promised, auditor, records, revokes>>

\* _refresh, under the lock: not twice in the interval, whether or not the last one succeeded.
TooSoon == jwks.attempt # NoMoment /\ moment - jwks.attempt < MinInterval
StartRefresh(r) ==
    /\ req[r].at = "refresh" /\ jwks.lock = Nobody
    /\ IF TooSoon THEN req' = [req EXCEPT ![r] = [@ EXCEPT !.at = "verify"]] /\ UNCHANGED <<jwks, attempts>>
       ELSE /\ req' = [req EXCEPT ![r] = [@ EXCEPT !.at = "fetch", !.since = moment]]
            /\ jwks' = [jwks EXCEPT !.attempt = moment, !.lock = r]
            /\ attempts' = Append(attempts, moment)
    /\ UNCHANGED <<moment, published, revoked, cutoffs, promised, auditor, records, revokes>>
\* A failed fetch keeps the keys there are; keys count as old as their question.
EndRefresh(r, ok) ==
    /\ req[r].at = "fetch"
    /\ jwks' = IF ok THEN [keys |-> published, fetched |-> req[r].since, attempt |-> jwks.attempt, lock |-> Nobody]
               ELSE [jwks EXCEPT !.lock = Nobody]
    /\ req' = [req EXCEPT ![r] = [@ EXCEPT !.at = "verify"]]
    /\ UNCHANGED <<moment, published, attempts, revoked, cutoffs, promised, auditor, records, revokes>>
\* verify: the key is known, its algorithm fits, the token has not expired.
Verifies(t) == TokenOf[t].kid \in jwks.keys /\ TokenOf[t].alg \in {"RS256"} /\ moment < TokenOf[t].exp
VerifyToken(r) ==
    /\ req[r].at = "verify"
    /\ IF Verifies(req[r].token)
       THEN req' = [req EXCEPT ![r] = [@ EXCEPT !.at = "revocation"]] /\ UNCHANGED <<auditor, records>>
       ELSE Refuse(r)
    /\ UNCHANGED <<moment, jwks, published, attempts, revoked, cutoffs, promised, revokes>>

-----------------------------------------------------------------------------
(* Revocation. *)
TokenRevoked(t) == LET j == TokenOf[t].jti IN j \in DOMAIN revoked /\ revoked[j] > moment
SubjectRevoked(t) == LET s == TokenOf[t].sub IN s \in DOMAIN cutoffs /\ TokenOf[t].iat <= cutoffs[s]
\* _check_revocation: a store that fails refuses too.
CheckRevocation(r, storeFails) ==
    /\ req[r].at = "revocation"
    /\ IF storeFails \/ TokenRevoked(req[r].token) \/ SubjectRevoked(req[r].token) THEN Refuse(r)
       ELSE req' = [req EXCEPT ![r] = [@ EXCEPT !.at = "admit"]] /\ UNCHANGED <<auditor, records>>
    /\ UNCHANGED <<moment, jwks, published, attempts, revoked, cutoffs, promised, revokes>>
Unexpired == {j \in DOMAIN revoked : revoked[j] > moment}

\* Mutant: a later revocation with an earlier end shortens the entry.
LastEndWins(old, end) == end

LatestEnd(old, end) == Maximum({old, end})
\* revoke_token: expired entries go first; a full store refuses a new one.
RevokeToken(j, end) ==
    /\ revokes < MaxRevokes /\ revokes' = revokes + 1
    /\ IF end <= moment THEN revoked' = [x \in Unexpired |-> revoked[x]] /\ promised' = promised
       ELSE /\ j \in Unexpired \/ Cardinality(Unexpired) < MaxRevocations
            /\ revoked' = [x \in Unexpired \cup {j} |->
                             IF x # j THEN revoked[x] ELSE IF j \in Unexpired THEN LatestEnd(revoked[j], end) ELSE end]
            /\ promised' = [promised EXCEPT ![<<"jti", j>>] = Maximum({@, end})]
    /\ UNCHANGED <<moment, jwks, published, attempts, cutoffs, req, auditor, records>>
\* revoke_subject: the cutoff only moves forward.
CutoffReplaced(old, cutoff) == cutoff
LaterCutoff(old, cutoff) == Maximum({old, cutoff})
RevokeSubject(s, cutoff) ==
    /\ cutoff <= moment /\ revokes < MaxRevokes /\ revokes' = revokes + 1
    /\ cutoffs' = [x \in DOMAIN cutoffs \cup {s} |->
                     IF x # s THEN cutoffs[x] ELSE IF s \in DOMAIN cutoffs THEN LaterCutoff(cutoffs[s], cutoff) ELSE cutoff]
    /\ promised' = [promised EXCEPT ![<<"sub", s>>] = Maximum({@, cutoff})]
    /\ UNCHANGED <<moment, jwks, published, attempts, revoked, req, auditor, records>>
PurgeExpired ==
    /\ Unexpired # DOMAIN revoked
    /\ revoked' = [x \in Unexpired |-> revoked[x]]
    /\ UNCHANGED <<moment, jwks, published, attempts, cutoffs, promised, req, auditor, records, revokes>>

\* Time passes; the issuer changes its keys.
Passes == moment < TrustUntil /\ moment' = moment + 1
          /\ UNCHANGED <<jwks, published, attempts, revoked, cutoffs, promised, req, auditor, records, revokes>>
RotateKeys == published # Kids /\ published' = Kids
          /\ UNCHANGED <<moment, jwks, attempts, revoked, cutoffs, promised, req, auditor, records, revokes>>

TrustNext ==
    \/ Passes \/ PurgeExpired
    \/ RotateKeys
    \/ \E j \in Jtis, end \in 0..TrustUntil : RevokeToken(j, end)
    \/ \E s \in Subjects, cutoff \in 0..TrustUntil : RevokeSubject(s, cutoff)
    \/ \E r \in HttpRequests :
         \/ \E t \in Tokens : Arrive(r, t)
         \/ FindKey(r) \/ StartRefresh(r) \/ VerifyToken(r)
         \/ \E ok \in BOOLEAN : EndRefresh(r, ok)
         \/ \E fails \in BOOLEAN : CheckRevocation(r, fails)
TrustSpec == TrustInit /\ [][TrustNext]_trustVars

-----------------------------------------------------------------------------
(* What was revoked stays revoked until the latest end anybody asked for, and
   a subject's cutoff never moves back, over purges, repeated requests and
   the limit of the store. *)
RevocationStands ==
    \A r \in HttpRequests : (req[r].at = "revocation" /\ req'[r].at = "admit") =>
      LET t == TokenOf[req[r].token]
      IN  /\ t.jti # "" => promised[<<"jti", t.jti>>] <= moment
          /\ t.iat > promised[<<"sub", t.sub>>]

(* The issuer is asked for keys at most once in an interval, however many
   requests bring unknown keys and however the fetches end. *)
FetchesSpaced ==
    \A i \in DOMAIN attempts : i + 1 \in DOMAIN attempts => attempts[i + 1] - attempts[i] >= MinInterval

(* Every failed authentication is written to the audit log, reported as
   suppressed or still counted for the next report. *)
FailuresCounted == records.failures = records.written + records.reported + auditor.suppressed

\* A revoked token stays revoked while requests, purges and fetches of keys overlap; the issuer is not
\* asked too often and no failure goes uncounted.
TrustSafe ==
    /\ [](TrustTypeOK /\ FetchesSpaced /\ FailuresCounted)
    /\ [][RevocationStands]_trustVars
=============================================================================
