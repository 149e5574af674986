----------------------------- MODULE Approvals -----------------------------
(***************************************************************************)
(* The approval requests of a tenant (approvals/service.py): create,       *)
(* decide and list, in the in-memory service, where each is done under one *)
(* lock, and in PostgreSQL, where a decision reads the row, looks at the   *)
(* clock and then updates the row if it is still pending.  A request past  *)
(* its expiry is reported as expired before anyone has stored that.        *)
(*                                                                         *)
(* What becomes of the run that asked is module RunLifecycle.              *)
(***************************************************************************)
EXTENDS Naturals, SequencesExt

CONSTANTS
  Approvers,        \* decisions, each taken once
  Listings,         \* readers that page through the list
  ApprovalLife,     \* expires_seconds
  PageLimit,
  MaxApprovals,     \* bound: requests
  ApprovalUntil     \* bound: the clock

ASSUME ApprovalConstants ==
  ApprovalLife \in Nat \ {0} /\ PageLimit \in Nat \ {0} /\ MaxApprovals \in Nat /\ ApprovalUntil \in Nat

VARIABLES
  durable,     \* TRUE: PostgreSQL
  apClock,
  requests,    \* the requests in the order they were created: [status, expires, modified]
  approver,    \* [Approvers -> the decision under way]
  listing      \* [Listings -> the pages read so far]

approvalVars == <<durable, apClock, requests, approver, listing>>

-----------------------------------------------------------------------------
ApprovalStatus == {"pending", "approved", "rejected", "modified", "expired"}
Verdicts == {"approved", "rejected", "modified"}
NoDecision == [at |-> "idle", id |-> 0, seen |-> "none", answer |-> "none"]
NoListing == [at |-> "idle", offset |-> 0, told |-> {}, owed |-> {}]

ApprovalInit ==
  /\ durable \in BOOLEAN
  /\ apClock = 1 /\ requests = <<>>
  /\ approver = [a \in Approvers |-> NoDecision]
  /\ listing = [l \in Listings |-> NoListing]

PastExpiry(i) == requests[i].expires <= apClock

\* effective: how a reader sees a request.
Effective(i) == IF requests[i].status = "pending" /\ PastExpiry(i) THEN "expired" ELSE requests[i].status

NewApproval == [status |-> "pending", expires |-> apClock + ApprovalLife, modified |-> FALSE]

CreateApproval ==
  /\ Len(requests) < MaxApprovals
  /\ requests' = Append(requests, NewApproval)
  /\ UNCHANGED <<durable, apClock, approver, listing>>

Conclude(a, answer) == approver' = [approver EXCEPT ![a].at = "over", ![a].answer = answer]
SetStatus(i, status) ==
  requests' = [requests EXCEPT ![i].status = status, ![i].modified = (status = "modified")]

\* In memory: the whole decision under the lock. "modified" without parameters is refused.
DecideAtOnce(a) ==
  /\ ~durable /\ approver[a].at = "idle"
  /\ \E i \in DOMAIN requests, verdict \in Verdicts, parameters \in BOOLEAN :
       IF requests[i].status # "pending" THEN Conclude(a, "conflict") /\ UNCHANGED requests
       ELSE IF PastExpiry(i) THEN SetStatus(i, "expired") /\ Conclude(a, "conflict")
       ELSE IF verdict = "modified" /\ ~parameters THEN Conclude(a, "refused") /\ UNCHANGED requests
       ELSE SetStatus(i, verdict) /\ approver' = [approver EXCEPT ![a] =
                                        [at |-> "over", id |-> i, seen |-> verdict, answer |-> "decided"]]
  /\ UNCHANGED <<durable, apClock, listing>>

\* PostgreSQL: the row is read and judged, then written.
ReadApproval(a) ==
  /\ durable /\ approver[a].at = "idle"
  /\ \E i \in DOMAIN requests, verdict \in Verdicts, parameters \in BOOLEAN :
       approver' = [approver EXCEPT ![a] =
         IF requests[i].status # "pending" THEN [NoDecision EXCEPT !.at = "over", !.answer = "conflict"]
         ELSE IF PastExpiry(i) THEN [at |-> "saving", id |-> i, seen |-> "expired", answer |-> "none"]
         ELSE IF verdict = "modified" /\ ~parameters THEN [NoDecision EXCEPT !.at = "over", !.answer = "refused"]
         ELSE [at |-> "saving", id |-> i, seen |-> verdict, answer |-> "none"]]
  /\ UNCHANGED <<durable, apClock, requests, listing>>

\* UPDATE ... WHERE status = 'pending'.
SavesPending(a) == requests[approver[a].id].status = "pending"

SaveDecision(a) ==
  LET i == approver[a].id status == approver[a].seen IN
  /\ approver[a].at = "saving"
  /\ IF SavesPending(a) THEN SetStatus(i, status) ELSE UNCHANGED requests
  /\ Conclude(a, IF SavesPending(a) /\ status # "expired" THEN "decided" ELSE "conflict")
  /\ UNCHANGED <<durable, apClock, listing>>

\* The newest first: new requests move the others to later places.
NewestFirst(total) == [i \in 1..total |-> total + 1 - i]

\* One page of the unfiltered list. owed: what was there when the reader began.
ListApprovals(l) ==
  LET order == NewestFirst(Len(requests))
      first == listing[l].offset + 1
      page == SubSeq(order, first, IF first + PageLimit - 1 < Len(order) THEN first + PageLimit - 1 ELSE Len(order))
  IN /\ listing[l].at # "over"
     /\ listing' = [listing EXCEPT ![l] =
          [at |-> IF Len(page) < PageLimit THEN "over" ELSE "reading",
           offset |-> listing[l].offset + PageLimit,
           told |-> listing[l].told \cup {<<i, Effective(i)>> : i \in ToSet(page)},
           owed |-> IF listing[l].at = "idle" THEN DOMAIN requests ELSE listing[l].owed]]
     /\ UNCHANGED <<durable, apClock, requests, approver>>

ApprovalTick ==
  /\ apClock < ApprovalUntil
  /\ apClock' = apClock + 1
  /\ UNCHANGED <<durable, requests, approver, listing>>

ApprovalNext ==
  \/ CreateApproval
  \/ \E a \in Approvers : DecideAtOnce(a) \/ ReadApproval(a) \/ SaveDecision(a)
  \/ \E l \in Listings : ListApprovals(l)
  \/ ApprovalTick

ApprovalSpec == ApprovalInit /\ [][ApprovalNext]_approvalVars

-----------------------------------------------------------------------------
\* The types of the requests, the decisions and the readers.
ApprovalTypeOK ==
  /\ \A i \in DOMAIN requests : requests[i].status \in ApprovalStatus
  /\ \A a \in Approvers : approver[a].answer \in {"none", "decided", "conflict", "refused"}
  /\ \A l \in Listings : listing[l].told \subseteq (DOMAIN requests) \X ApprovalStatus

\* Of concurrent decisions on a request one is answered as taken, and the request keeps its
\* verdict: nothing that read it earlier writes over it (decide, _save).
OneVerdict ==
  \A a \in Approvers : approver[a].answer = "decided" =>
    /\ requests[approver[a].id].status = approver[a].seen
    /\ \A b \in Approvers \ {a} : approver[b].answer = "decided" => approver[b].id # approver[a].id

\* A reader that pages through the whole list while requests are created and decided is shown every
\* request that was there when it began (list: newest first, a stable order).
PagesComplete ==
  \A l \in Listings : listing[l].at = "over" => \A i \in listing[l].owed : \E t \in listing[l].told : t[1] = i

\* What a reader was told of a request that is no longer pending stays true. In PostgreSQL a
\* decision that read the row before its expiry may still be saved after it was shown as expired.
ToldStands ==
  \A l \in Listings : \A t \in listing[l].told :
    t[2] # "pending" => Effective(t[1]) = t[2] \/ (durable /\ t[2] = "expired")

\* A request has one verdict, a reader is shown every request, and what it was told stays true.
ApprovalSafe == ApprovalTypeOK /\ OneVerdict /\ PagesComplete /\ ToldStands
=============================================================================
