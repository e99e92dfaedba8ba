--------------------------- MODULE ProjectionJobs ---------------------------
(***************************************************************************)
(* The table knowledge_projection_jobs and the transactions that           *)
(* ProjectionOutbox (app/projection_jobs.py) runs on it, as operators on   *)
(* the table's value.  The operators have no state of their own: a         *)
(* component that owns the table composes them into its transactions.      *)
(*                                                                         *)
(* A row is named by its idempotency key.  Times are kept relative to the  *)
(* present: wait is available_at minus now, lease is lease_expires_at      *)
(* minus now, and the passing of one unit of time (Aged) lowers both.      *)
(***************************************************************************)
EXTENDS Integers, FiniteSets

CONSTANTS
  Targets,      \* projection targets: "rag", "gbrain"
  Pages,        \* wiki page ids
  Revs,         \* wiki page revision ids
  NoRev,        \* revision_id NULL
  Workers,      \* worker ids, one per projection worker process
  NoOwner,      \* lease_owner NULL
  MaxAttempts,  \* 5 in the code
  RetryDelay,   \* RetryDelay[n]: wait after the n-th failed attempt
  LeaseTime,    \* lease_seconds
  Horizon       \* how far in the past available_at is told apart

ASSUME ProjectionJobsAssumption ==
  /\ NoOwner \notin Workers
  /\ NoRev \notin Revs
  /\ MaxAttempts \in Nat \ {0}
  /\ RetryDelay \in [1 .. MaxAttempts - 1 -> Nat \ {0}]
  /\ LeaseTime \in Nat
  /\ Horizon \in Nat

Ops == {"upsert", "rename", "delete"}
Statuses == {"pending", "running", "succeeded", "failed", "superseded"}
TerminalStatuses == {"succeeded", "failed", "superseded"}

Key == [target : Targets, op : Ops, page : Pages, rev : Revs \cup {NoRev},
        epoch : Nat]

Job == [status   : Statuses,
        attempts : 0 .. MaxAttempts,
        wait     : Int,
        owner    : Workers \cup {NoOwner},
        lease    : Int]

NoJobs == [k \in {} |-> 0]
IsTable(jobs) == DOMAIN jobs \subseteq Key /\ \A k \in DOMAIN jobs : jobs[k] \in Job


(* A row names an owner exactly while it runs, and a running row has used  *)
(* an attempt.                                                             *)
Disciplined(jobs) ==
  \A k \in DOMAIN jobs :
    /\ jobs[k].status = "running" <=> jobs[k].owner # NoOwner
    /\ jobs[k].status = "running" => jobs[k].attempts >= 1

-----------------------------------------------------------------------------
(* enqueue, enqueue_pair_for_state: insert, or keep the row there is.      *)
Fresh == [status |-> "pending", attempts |-> 0, wait |-> 0,
          owner |-> NoOwner, lease |-> 0]

Enqueued(jobs, K) ==
  [k \in DOMAIN jobs \cup K |-> IF k \in DOMAIN jobs THEN jobs[k] ELSE Fresh]

StateKeys(targets, op, page, rev, epoch) ==
  {[target |-> t, op |-> op, page |-> page, rev |-> rev, epoch |-> epoch] :
     t \in targets}

(* Mutant: the update that ends a run forgets lease_owner.                 *)
ReleasedKeepingOwner(job, status) == [job EXCEPT !.status = status, !.lease = 0]

(* A row leaves its owner whenever it stops running.                       *)
Released(job, status) ==
  [status |-> status, attempts |-> job.attempts, wait |-> job.wait,
   owner |-> NoOwner, lease |-> 0]

-----------------------------------------------------------------------------
(* claim: one transaction.  Lapsed rows with no attempt left fail first.   *)
Lapsed(job) == job.status = "running" /\ job.lease < 0

(* Mutant: claim does not expire anything.                                 *)
NothingExpired(jobs, target) == jobs

ExpiredOut(jobs, target) ==
  [k \in DOMAIN jobs |->
     IF k.target = target /\ Lapsed(jobs[k]) /\ jobs[k].attempts >= MaxAttempts
     THEN Released(jobs[k], "failed") ELSE jobs[k]]

(* Mutants: rows are due with no attempt left; lapsed rows are never due.  *)
DueForever(jobs, target) ==
  {k \in DOMAIN jobs :
     /\ k.target = target
     /\ \/ jobs[k].status \in {"pending", "failed"} /\ jobs[k].wait <= 0
        \/ Lapsed(jobs[k])}

DueUnlessRunning(jobs, target) ==
  {k \in DOMAIN jobs :
     /\ k.target = target
     /\ jobs[k].attempts < MaxAttempts
     /\ jobs[k].status \in {"pending", "failed"} /\ jobs[k].wait <= 0}

Due(jobs, target) ==
  {k \in DOMAIN jobs :
     /\ k.target = target
     /\ jobs[k].attempts < MaxAttempts
     /\ \/ jobs[k].status \in {"pending", "failed"} /\ jobs[k].wait <= 0
        \/ Lapsed(jobs[k])}

(* ORDER BY available_at ... LIMIT limit: the oldest due rows.             *)
Batches(jobs, target, limit) ==
  LET due == Due(jobs, target)
  IN  {B \in SUBSET due :
         /\ \/ Cardinality(B) = limit
            \/ B = due /\ Cardinality(due) < limit
         /\ \A b \in B, d \in due \ B : jobs[b].wait <= jobs[d].wait}

(* Mutant: a row taken over from a lapsed lease keeps its first owner.     *)
ClaimedForFirstOwner(jobs, B, w) ==
  [k \in DOMAIN jobs |->
     IF k \in B
     THEN [jobs[k] EXCEPT !.status = "running", !.attempts = @ + 1,
                          !.owner = IF @ = NoOwner THEN w ELSE @,
                          !.lease = LeaseTime]
     ELSE jobs[k]]

Claimed(jobs, B, w) ==
  [k \in DOMAIN jobs |->
     IF k \in B
     THEN [status |-> "running", attempts |-> jobs[k].attempts + 1,
           wait |-> jobs[k].wait, owner |-> w, lease |-> LeaseTime]
     ELSE jobs[k]]

-----------------------------------------------------------------------------
(* renew_lease, finish_claimed and mark_failed act for the lease owner     *)
(* only; none of them looks at the clock.                                  *)
Owns(jobs, k, w) ==
  k \in DOMAIN jobs /\ jobs[k].status = "running" /\ jobs[k].owner = w

LeaseKept(jobs, k, w) ==
  k \in DOMAIN jobs
    /\ (jobs[k].status \in TerminalStatuses \/ Owns(jobs, k, w))

Renewed(jobs, k, w) ==
  IF Owns(jobs, k, w) THEN [jobs EXCEPT ![k].lease = LeaseTime] ELSE jobs

FinishedAs(jobs, k, status) == [jobs EXCEPT ![k] = Released(@, status)]

Backoff(job) ==
  IF job.attempts \in DOMAIN RetryDelay THEN RetryDelay[job.attempts] ELSE job.wait

MarkedFailed(jobs, k) ==
  [jobs EXCEPT ![k] = [Released(@, "failed") EXCEPT !.wait = Backoff(jobs[k])]]

(* Mutants: finished rows are superseded too; so is the present epoch.     *)
AllStaleSuperseded(jobs, page, epoch) ==
  [k \in DOMAIN jobs |->
     IF k.page = page /\ k.epoch < epoch
     THEN Released(jobs[k], "superseded") ELSE jobs[k]]

StaleSupersededUpTo(jobs, page, epoch) ==
  [k \in DOMAIN jobs |->
     IF /\ k.page = page /\ k.epoch <= epoch
        /\ jobs[k].status \in {"pending", "failed", "running"}
     THEN Released(jobs[k], "superseded") ELSE jobs[k]]

(* supersede_stale: every unfinished row of the page from an older epoch.  *)
StaleSuperseded(jobs, page, epoch) ==
  [k \in DOMAIN jobs |->
     IF /\ k.page = page /\ k.epoch < epoch
        /\ jobs[k].status \in {"pending", "failed", "running"}
     THEN Released(jobs[k], "superseded") ELSE jobs[k]]

(* retry_projection_job: an operator gives a failed row a new start.       *)
Retried(jobs, k) == [jobs EXCEPT ![k] = Fresh]

(* One unit of time.                                                       *)
Floor(n, low) == IF n > low THEN n - 1 ELSE low

Aged(jobs) ==
  [k \in DOMAIN jobs |->
     [jobs[k] EXCEPT
        !.wait = IF jobs[k].status \in {"succeeded", "superseded"} THEN @
                 ELSE Floor(@, -Horizon),
        !.lease = IF jobs[k].status = "running" THEN Floor(@, -1) ELSE @]]

(* No claim will pick the row up again by itself.                          *)
Settled(job) ==
  \/ job.status \in {"succeeded", "superseded"}
  \/ job.status = "failed" /\ job.attempts >= MaxAttempts
=============================================================================
