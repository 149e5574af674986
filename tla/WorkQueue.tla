----------------------------- MODULE WorkQueue -----------------------------
(***************************************************************************)
(* The lease-based work queue (distributed/queue.py) and the worker that   *)
(* drains it (distributed/worker.py).                                      *)
(*                                                                         *)
(* InMemoryWorkQueue and PostgresWorkQueue make each queue operation       *)
(* atomic (a lock, a single SQL statement), so an operation is one action. *)
(* DistributedWorker.run_once awaits between claim, handler, complete and  *)
(* fail, so a runner has one program location per await.                   *)
(*                                                                         *)
(* Time is abstracted: a lease is in force until LeaseExpires, an item     *)
(* whose available_at lies in the future is due after BecomeDue.  Which of *)
(* several eligible items a claim returns is left open: the SQL claim      *)
(* orders them but skips rows another transaction has locked.              *)
(***************************************************************************)
EXTENDS Naturals, FiniteSets

CONSTANTS
    Items,         \* work item ids; every enqueue uses an id of its own
    Keys,          \* (tenant_id, deduplication_key) pairs
    KeyOf,         \* [Items -> Keys]
    Runners,       \* concurrent invocations of run_once
    Workers,       \* worker_id values
    WorkerOf,      \* [Runners -> Workers]
    MaximumAttempts,
    NoItem, NoWorker

ASSUME ConstantsAssumption ==
    /\ KeyOf \in [Items -> Keys]
    /\ WorkerOf \in [Runners -> Workers]
    /\ MaximumAttempts \in Nat \ {0}
    /\ NoItem \notin Items
    /\ NoWorker \notin Workers

\* The queue tells claimants apart by worker_id alone, so its fencing needs one
\* run_once call at a time per worker_id.
ASSUME DistinctWorkers ==
    \A r, s \in Runners : WorkerOf[r] = WorkerOf[s] => r = s

VARIABLES
    \* The stored WorkItem, field by field.
    status, owner, attempts, available, lease,
    dedup,   \* [Keys -> id or NoItem]: the deduplication index
    \* A run_once call: where it stands, the item it claimed, and (not in the
    \* code) which of the item's claims that was.
    pc, job, token

row == <<status, owner, attempts, available, lease>>
runner == <<pc, job, token>>
vars == <<row, dedup, runner>>

-----------------------------------------------------------------------------
Finished == {"completed", "failed"}

WorkStatus == {"pending", "leased"} \cup Finished

\* available_at has passed, or lies in the future.
Availability == {"due", "later"}

\* A row of the queue: "absent" and "purged" stand for no row.
WorkItem ==
    /\ status \in [Items -> WorkStatus \cup {"absent", "purged"}]
    /\ owner \in [Items -> Workers \cup {NoWorker}]
    /\ attempts \in [Items -> 0..MaximumAttempts]
    /\ available \in [Items -> Availability]
    /\ lease \in [Items -> {"in_force", "expired"}]

Init ==
    /\ status = [i \in Items |-> "absent"]
    /\ owner = [i \in Items |-> NoWorker]
    /\ attempts = [i \in Items |-> 0]
    /\ available = [i \in Items |-> "later"]
    /\ lease = [i \in Items |-> "in_force"]
    /\ dedup = [k \in Keys |-> NoItem]
    /\ pc = [r \in Runners |-> "idle"]
    /\ job = [r \in Runners |-> NoItem]
    /\ token = [r \in Runners |-> 0]

-----------------------------------------------------------------------------
(* The queue's operations.                                                 *)

\* The queue's own guard on renew, complete and fail.
Owned(i, w) == status[i] = "leased" /\ owner[i] = w

\* enqueue of a new key; for a known key it returns the stored item and changes nothing.
Enqueue(i, a) ==
    /\ status[i] = "absent"
    /\ dedup[KeyOf[i]] = NoItem
    /\ status' = [status EXCEPT ![i] = "pending"]
    /\ available' = [available EXCEPT ![i] = a]
    /\ dedup' = [dedup EXCEPT ![KeyOf[i]] = i]
    /\ UNCHANGED <<owner, attempts, lease, runner>>

Eligible(i) ==
    /\ available[i] = "due"
    /\ \/ status[i] = "pending"
       \/ status[i] = "leased" /\ lease[i] = "expired"
    /\ attempts[i] < MaximumAttempts

ClaimedBy(r, i) == owner' = [owner EXCEPT ![i] = WorkerOf[r]]

\* claim, the first await of run_once.
Claim(r, i) ==
    /\ pc[r] = "idle"
    /\ Eligible(i)
    /\ status' = [status EXCEPT ![i] = "leased"]
    /\ ClaimedBy(r, i)
    /\ lease' = [lease EXCEPT ![i] = "in_force"]
    /\ attempts' = [attempts EXCEPT ![i] = @ + 1]
    /\ pc' = [pc EXCEPT ![r] = "handling"]
    /\ job' = [job EXCEPT ![r] = i]
    /\ token' = [token EXCEPT ![r] = attempts[i] + 1]
    /\ UNCHANGED <<available, dedup>>

\* renew, called on behalf of the worker while its handler runs.
Renew(r) ==
    /\ pc[r] = "handling"
    /\ Owned(job[r], WorkerOf[r])
    /\ lease' = [lease EXCEPT ![job[r]] = "in_force"]
    /\ UNCHANGED <<status, owner, attempts, available, dedup, runner>>

\* What complete and fail write to a row they own.
Settle(i, newStatus) ==
    /\ status' = [status EXCEPT ![i] = newStatus]
    /\ owner' = [owner EXCEPT ![i] = NoWorker]
    /\ lease' = [lease EXCEPT ![i] = "in_force"]
    /\ UNCHANGED <<attempts, available>>

\* Mutant: a failed attempt is always put back.
FailedStatusRetriesForever(i) == "pending"

\* The status fail(retry=True), the only way the worker calls it, leaves behind.
FailedStatus(i) == IF attempts[i] < MaximumAttempts THEN "pending" ELSE "failed"

\* Mutant: the deduplication key of a purged item stays taken.
PurgeKeepsKey(i) ==
    /\ status[i] \in Finished
    /\ status' = [status EXCEPT ![i] = "purged"]
    /\ UNCHANGED <<owner, attempts, available, lease, dedup, runner>>

\* purge_finished on one doomed item.
Purge(i) ==
    /\ status[i] \in Finished
    /\ status' = [status EXCEPT ![i] = "purged"]
    /\ dedup' = [dedup EXCEPT ![KeyOf[i]] = NoItem]
    /\ UNCHANGED <<owner, attempts, available, lease, runner>>

-----------------------------------------------------------------------------
(* The rest of run_once.                                                   *)

Goto(r, location) ==
    /\ pc' = [pc EXCEPT ![r] = location]
    /\ UNCHANGED <<job, token>>

Return(r) ==
    /\ pc' = [pc EXCEPT ![r] = "idle"]
    /\ job' = [job EXCEPT ![r] = NoItem]
    /\ token' = [token EXCEPT ![r] = 0]

\* The handler returns a result, raises (a missing handler too) or is cancelled.
HandlerEnds(r) ==
    /\ pc[r] = "handling"
    /\ Goto(r, "completing") \/ Goto(r, "failing")
    /\ UNCHANGED <<row, dedup>>

\* queue.complete: success ends run_once, a refusal is handled by calling fail.
Complete(r) ==
    /\ pc[r] = "completing"
    /\ \/ /\ Owned(job[r], WorkerOf[r])
          /\ Settle(job[r], "completed")
          /\ Return(r)
       \/ /\ ~Owned(job[r], WorkerOf[r])
          /\ Goto(r, "failing")
          /\ UNCHANGED row
    /\ UNCHANGED dedup

\* Mutant: fail does not check who owns the lease.
FailUnchecked(r) ==
    /\ pc[r] = "failing"
    /\ Settle(job[r], FailedStatus(job[r]))
    /\ Return(r)
    /\ UNCHANGED dedup

\* queue.fail: whether it is accepted or raises ConflictError, run_once is over.
Fail(r) ==
    /\ pc[r] = "failing"
    /\ \/ Owned(job[r], WorkerOf[r]) /\ Settle(job[r], FailedStatus(job[r]))
       \/ ~Owned(job[r], WorkerOf[r]) /\ UNCHANGED row
    /\ Return(r)
    /\ UNCHANGED dedup

-----------------------------------------------------------------------------
(* Time and faults.                                                        *)

LeaseExpires(i) ==
    /\ status[i] = "leased" /\ lease[i] = "in_force"
    /\ lease' = [lease EXCEPT ![i] = "expired"]
    /\ UNCHANGED <<status, owner, attempts, available, dedup, runner>>

BecomeDue(i) ==
    /\ status[i] = "pending" /\ available[i] = "later"
    /\ available' = [available EXCEPT ![i] = "due"]
    /\ UNCHANGED <<status, owner, attempts, lease, dedup, runner>>

\* The worker process dies: nothing of run_once runs any more, the lease stays.
Crash(r) ==
    /\ pc[r] # "idle"
    /\ Return(r)
    /\ UNCHANGED <<row, dedup>>

\* The store raises while complete is outstanding, before or after its commit;
\* a cancellation that arrives there takes the same path.
CompleteUncertain(r) ==
    /\ pc[r] = "completing"
    /\ \/ UNCHANGED row
       \/ Owned(job[r], WorkerOf[r]) /\ Settle(job[r], "completed")
    /\ Goto(r, "failing")
    /\ UNCHANGED dedup

\* Enqueueing, time and the retention sweep.
Environment ==
    \/ \E i \in Items, a \in Availability : Enqueue(i, a)
    \/ \E i \in Items : Purge(i)
    \/ \E i \in Items : LeaseExpires(i)
    \/ \E i \in Items : BecomeDue(i)

RunOnce(r) ==
    \/ \E i \in Items : Claim(r, i)
    \/ HandlerEnds(r)
    \/ Complete(r)
    \/ Fail(r)

Faults ==
    \/ \E r \in Runners : Crash(r)
    \/ \E r \in Runners : CompleteUncertain(r)

Reliable ==
    \/ Environment
    \/ \E r \in Runners : RunOnce(r)
    \/ \E r \in Runners : Renew(r)

Next == Reliable \/ Faults

Spec == Init /\ [][Next]_vars

\* Time passes, and every worker process keeps calling run_once to its end
\* (handlers terminate); claim is retried by every process.
Fairness ==
    /\ \A r \in Runners : WF_vars(RunOnce(r))
    /\ \A i \in Items : WF_vars(BecomeDue(i)) /\ WF_vars(LeaseExpires(i))

ReliableSpec == Init /\ [][Reliable]_vars /\ Fairness

-----------------------------------------------------------------------------
(* Properties.                                                             *)

\* Type invariant of the stored rows, the deduplication index and the runners.
TypeOK ==
    /\ WorkItem
    /\ dedup \in [Keys -> Items \cup {NoItem}]
    /\ pc \in [Runners -> {"idle", "handling", "completing", "failing"}]
    /\ job \in [Runners -> Items \cup {NoItem}]
    /\ token \in [Runners -> 0..MaximumAttempts]
    /\ \A r \in Runners : pc[r] = "idle" <=> job[r] = NoItem

Live(i) == status[i] \in WorkStatus

\* The deduplication index names exactly the rows that are stored, so that a
\* key has at most one stored item and a purged key can be enqueued again.
DedupMatchesItems ==
    \A k \in Keys, i \in Items : dedup[k] = i <=> (Live(i) /\ KeyOf[i] = k)

\* Runner r works under the item's current claim.
Current(r, i) == job[r] = i /\ token[r] = attempts[i]

\* Lease-owner fencing: the runner that the owner check of renew, complete and
\* fail lets through is the item's current claimant, never one it was taken from.
OwnerIsCurrentClaimant ==
    \A r \in Runners, i \in Items :
        job[r] = i /\ Owned(i, WorkerOf[r]) => Current(r, i)

\* The runner that takes the step.
Acts(r) == pc'[r] # pc[r]

\* The runner whose complete or fail settles a leased item is the holder of the
\* item's latest claim: one whose lease was taken over settles nothing, whether
\* the new owner is still handling the item or is reporting it itself.
SettledByCurrentClaimant ==
    [][\A i \in Items :
         (status[i] = "leased" /\ status'[i] \in Finished \cup {"pending"})
           => /\ \E r \in Runners : Acts(r)
              /\ \A r \in Runners : Acts(r) => Current(r, i)]_vars

\* A completed item is never executed again and never reported failed, whatever
\* run_once does with a late complete, a late fail or a lost reply.
CompletedIsFinal ==
    [][\A i \in Items :
         status[i] = "completed" => status'[i] \in {"completed", "purged"}]_vars

\* The rows, the index and the owners agree over takeovers, purges and lost replies.
QueueSafe == TypeOK /\ DedupMatchesItems /\ OwnerIsCurrentClaimant

\* An item is settled by its current claimant, and a completed one once (_owned in queue.py).
SettledOnce == SettledByCurrentClaimant /\ CompletedIsFinal

\* With worker processes that do not die and a store that answers, every item
\* that was enqueued is eventually completed or reported failed.
EveryItemSettles ==
    \A i \in Items : Live(i) ~> status[i] \in Finished \cup {"purged"}

=============================================================================
