------------------------ MODULE ProjectionJobsProofs ------------------------
(***************************************************************************)
(* What the transactions of the outbox do to any well-formed table.        *)
(***************************************************************************)
EXTENDS ProjectionJobs, TLAPS

TableOK(jobs) == IsTable(jobs) /\ Disciplined(jobs)

(* A released row is well formed and has no owner.                         *)
LEMMA ReleasedJob ==
  ASSUME NEW job \in Job, NEW status \in Statuses \ {"running"}
  PROVE  /\ Released(job, status) \in Job
         /\ Released(job, status).status = status
         /\ Released(job, status).owner = NoOwner
         /\ Released(job, status).attempts = job.attempts
  BY DEF Released, Job

(* enqueue inserts well-formed rows and keeps the others.                  *)
LEMMA EnqueuedTable ==
  ASSUME NEW jobs, TableOK(jobs), NEW K \in SUBSET Key
  PROVE  /\ TableOK(Enqueued(jobs, K))
         /\ DOMAIN jobs \subseteq DOMAIN Enqueued(jobs, K)
         /\ \A k \in DOMAIN jobs : Enqueued(jobs, K)[k] = jobs[k]
  BY ProjectionJobsAssumption
  DEF TableOK, IsTable, Disciplined, Enqueued, Fresh, Job, Statuses

LEMMA StateKeysAreKeys ==
  ASSUME NEW targets \in SUBSET Targets, NEW op \in Ops, NEW p \in Pages,
         NEW rev \in Revs \cup {NoRev}, NEW e \in Nat
  PROVE  StateKeys(targets, op, p, rev, e) \in SUBSET Key
  BY DEF StateKeys, Key

(* The expiry at the start of claim touches owners only to clear them.     *)
LEMMA ExpiredOutTable ==
  ASSUME NEW jobs, TableOK(jobs), NEW t
  PROVE  /\ TableOK(ExpiredOut(jobs, t))
         /\ DOMAIN ExpiredOut(jobs, t) = DOMAIN jobs
         /\ \A k \in DOMAIN jobs :
              /\ ExpiredOut(jobs, t)[k].attempts = jobs[k].attempts
              /\ ExpiredOut(jobs, t)[k].owner \in {jobs[k].owner, NoOwner}
              /\ jobs[k].status # "running"
                   => ExpiredOut(jobs, t)[k].status = jobs[k].status
  BY DEF TableOK, IsTable, Disciplined, ExpiredOut, Released, Lapsed, Job,
         Statuses

(* claim: the chosen rows were due, so they had an attempt left.           *)
LEMMA BatchIsDue ==
  ASSUME NEW jobs, NEW t, NEW limit, NEW B \in Batches(jobs, t, limit)
  PROVE  B \subseteq Due(jobs, t)
  BY DEF Batches

LEMMA ClaimedTable ==
  ASSUME NEW jobs, TableOK(jobs), NEW t, NEW B, B \subseteq Due(jobs, t),
         NEW w \in Workers
  PROVE  /\ TableOK(Claimed(jobs, B, w))
         /\ DOMAIN Claimed(jobs, B, w) = DOMAIN jobs
         /\ \A k \in DOMAIN jobs \ B : Claimed(jobs, B, w)[k] = jobs[k]
         /\ \A k \in B : /\ k \in DOMAIN jobs
                         /\ jobs[k].attempts + 1 \in 1 .. MaxAttempts
                         /\ Claimed(jobs, B, w)[k].owner = w
                         /\ Claimed(jobs, B, w)[k].attempts = jobs[k].attempts + 1
                         /\ jobs[k].status \notin {"succeeded", "superseded"}
<1> USE ProjectionJobsAssumption
<1>1. B \subseteq DOMAIN jobs
  BY DEF Due
<1>2. \A k \in B : /\ jobs[k] \in Job
                   /\ jobs[k].attempts < MaxAttempts
                   /\ jobs[k].status \notin {"succeeded", "superseded"}
  BY <1>1 DEF Due, Lapsed, TableOK, IsTable
<1>3. \A k \in B : jobs[k].attempts + 1 \in 1 .. MaxAttempts
  BY <1>2 DEF Job
<1>4. \A k \in B :
        LET job == Claimed(jobs, B, w)[k]
        IN  /\ job \in Job
            /\ job.status = "running"
            /\ job.owner = w
            /\ job.attempts = jobs[k].attempts + 1
  BY <1>1, <1>2, <1>3 DEF Claimed, Job, Statuses
<1>5. \A k \in DOMAIN jobs \ B : Claimed(jobs, B, w)[k] = jobs[k]
  BY DEF Claimed
<1>6. DOMAIN Claimed(jobs, B, w) = DOMAIN jobs
  BY DEF Claimed
<1>7. IsTable(Claimed(jobs, B, w))
  BY <1>4, <1>5, <1>6 DEF TableOK, IsTable
<1>8. Disciplined(Claimed(jobs, B, w))
  BY <1>3, <1>4, <1>5, <1>6 DEF TableOK, Disciplined
<1> QED
  BY <1>1, <1>2, <1>3, <1>4, <1>5, <1>6, <1>7, <1>8 DEF TableOK

(* renew_lease changes no more than the lease of an owned row.             *)
LEMMA RenewedTable ==
  ASSUME NEW jobs, TableOK(jobs), NEW k, NEW w
  PROVE  /\ TableOK(Renewed(jobs, k, w))
         /\ DOMAIN Renewed(jobs, k, w) = DOMAIN jobs
         /\ \A j \in DOMAIN jobs :
              /\ Renewed(jobs, k, w)[j].owner = jobs[j].owner
              /\ Renewed(jobs, k, w)[j].attempts = jobs[j].attempts
              /\ Renewed(jobs, k, w)[j].status = jobs[j].status
  BY ProjectionJobsAssumption
  DEF TableOK, IsTable, Disciplined, Renewed, Owns, Job

(* finish_claimed and mark_failed release the row and no other.            *)
LEMMA FinishedTable ==
  ASSUME NEW jobs, TableOK(jobs), NEW k \in DOMAIN jobs,
         NEW status \in {"succeeded", "superseded"}
  PROVE  /\ TableOK(FinishedAs(jobs, k, status))
         /\ DOMAIN FinishedAs(jobs, k, status) = DOMAIN jobs
         /\ FinishedAs(jobs, k, status)[k].owner = NoOwner
         /\ \A j \in DOMAIN jobs \ {k} : FinishedAs(jobs, k, status)[j] = jobs[j]
  BY ReleasedJob DEF TableOK, IsTable, Disciplined, FinishedAs, Statuses

LEMMA MarkedFailedTable ==
  ASSUME NEW jobs, TableOK(jobs), NEW k \in DOMAIN jobs
  PROVE  /\ TableOK(MarkedFailed(jobs, k))
         /\ DOMAIN MarkedFailed(jobs, k) = DOMAIN jobs
         /\ MarkedFailed(jobs, k)[k].owner = NoOwner
         /\ \A j \in DOMAIN jobs \ {k} : MarkedFailed(jobs, k)[j] = jobs[j]
<1> DEFINE job == [Released(jobs[k], "failed") EXCEPT !.wait = Backoff(jobs[k])]
<1>1. jobs[k] \in Job
  BY DEF TableOK, IsTable
<1>2. Backoff(jobs[k]) \in Int
  BY <1>1, ProjectionJobsAssumption DEF Backoff, Job
<1>3. /\ job \in Job
      /\ job.status = "failed"
      /\ job.owner = NoOwner
  BY <1>1, <1>2 DEF Released, Job, Statuses
<1>4. MarkedFailed(jobs, k) = [jobs EXCEPT ![k] = job]
  BY DEF MarkedFailed
<1> QED
  BY <1>3, <1>4 DEF TableOK, IsTable, Disciplined

(* supersede_stale leaves finished rows alone.                             *)
LEMMA StaleSupersededTable ==
  ASSUME NEW jobs, TableOK(jobs), NEW p, NEW e
  PROVE  /\ TableOK(StaleSuperseded(jobs, p, e))
         /\ DOMAIN StaleSuperseded(jobs, p, e) = DOMAIN jobs
         /\ \A k \in DOMAIN jobs :
              /\ StaleSuperseded(jobs, p, e)[k].attempts = jobs[k].attempts
              /\ StaleSuperseded(jobs, p, e)[k].owner \in {jobs[k].owner, NoOwner}
              /\ jobs[k].status \in {"succeeded", "superseded"}
                   => StaleSuperseded(jobs, p, e)[k].status = jobs[k].status
  BY DEF TableOK, IsTable, Disciplined, StaleSuperseded, Released, Job, Statuses

(* retry_projection_job gives the row its first state back.                *)
LEMMA RetriedTable ==
  ASSUME NEW jobs, TableOK(jobs), NEW k \in DOMAIN jobs
  PROVE  /\ TableOK(Retried(jobs, k))
         /\ DOMAIN Retried(jobs, k) = DOMAIN jobs
         /\ Retried(jobs, k)[k].owner = NoOwner
         /\ \A j \in DOMAIN jobs \ {k} : Retried(jobs, k)[j] = jobs[j]
  BY ProjectionJobsAssumption
  DEF TableOK, IsTable, Disciplined, Retried, Fresh, Job, Statuses

(* Time changes timers only.                                               *)
LEMMA AgedTable ==
  ASSUME NEW jobs, TableOK(jobs)
  PROVE  /\ TableOK(Aged(jobs))
         /\ DOMAIN Aged(jobs) = DOMAIN jobs
         /\ \A k \in DOMAIN jobs :
              /\ Aged(jobs)[k].owner = jobs[k].owner
              /\ Aged(jobs)[k].attempts = jobs[k].attempts
              /\ Aged(jobs)[k].status = jobs[k].status
<1>1. \A n \in Int : Floor(n, -Horizon) \in Int /\ Floor(n, -1) \in Int
  BY ProjectionJobsAssumption DEF Floor
<1> QED
  BY <1>1 DEF TableOK, IsTable, Disciplined, Aged, Job
=============================================================================
