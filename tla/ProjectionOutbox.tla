-------------------------- MODULE ProjectionOutbox --------------------------
(***************************************************************************)
(* The projection outbox at work: page transactions publish jobs, worker   *)
(* processes (app/projection_worker.py) claim them under leases, run them  *)
(* one after the other in a thread, renew the leases meanwhile, and settle *)
(* them.  What a projection does is left out here (WikiRagProjection has   *)
(* it); it succeeds, finds itself superseded, or fails.                    *)
(***************************************************************************)
EXTENDS ProjectionJobs

CONSTANTS
  NoJob,         \* a worker between two projections
  ClaimLimit,    \* projection_claim_limit
  MaxEpoch,      \* bound: page transactions per page
  MaxRetries     \* bound: manual retries

ASSUME ProjectionOutboxAssumption ==
  /\ NoJob \notin Key
  /\ ClaimLimit \in Nat \ {0}
  /\ MaxEpoch \in Nat
  /\ MaxRetries \in Nat

VARIABLES
  jobs,     \* knowledge_projection_jobs
  epoch,    \* wiki_pages.projection_epoch
  held,     \* held[w][k]: the attempts value of the claim of k that w still works on
  current,  \* current[w]: the job in w's projection thread
  renewing, \* FALSE once w's renewal task has cancelled the run
  retries   \* manual retries so far

vars == <<jobs, epoch, held, current, renewing, retries>>

NoClaims == [k \in {} |-> 0]

TypeOK ==
  /\ IsTable(jobs)
  /\ epoch \in [Pages -> 0 .. MaxEpoch]
  /\ DOMAIN held = Workers /\ DOMAIN current = Workers
  /\ \A w \in Workers :
       /\ DOMAIN held[w] \subseteq DOMAIN jobs
       /\ \A k \in DOMAIN held[w] : held[w][k] \in 1 .. MaxAttempts
       /\ current[w] \in DOMAIN held[w] \cup {NoJob}
  /\ renewing \in [Workers -> BOOLEAN]
  /\ retries \in 0 .. MaxRetries

Init ==
  /\ jobs = NoJobs
  /\ epoch = [p \in Pages |-> 0]
  /\ held = [w \in Workers |-> NoClaims]
  /\ current = [w \in Workers |-> NoJob]
  /\ renewing = [w \in Workers |-> TRUE]
  /\ retries = 0

workerVars == <<held, current, renewing>>

-----------------------------------------------------------------------------
(* Page transactions.  finalize_intent publishes without superseding what  *)
(* is older; deletes, renames and invalid observations supersede it.       *)
Publish(p, op, rev, supersede) ==
  LET next == epoch[p] + 1
      kept == IF supersede THEN StaleSuperseded(jobs, p, next) ELSE jobs
  IN  /\ next <= MaxEpoch
      /\ epoch' = [epoch EXCEPT ![p] = next]
      /\ jobs' = Enqueued(kept, StateKeys(Targets, op, p, rev, next))
      /\ UNCHANGED <<workerVars, retries>>

Edit(p, rev) == Publish(p, "upsert", rev, FALSE)
Remove(p) == Publish(p, "delete", NoRev, TRUE)

(* retry_projection_job, by an operator.                                   *)
RetryJob(k) ==
  /\ retries < MaxRetries
  /\ jobs[k].status = "failed"
  /\ jobs' = Retried(jobs, k)
  /\ retries' = retries + 1
  /\ UNCHANGED <<epoch, workerVars>>

-----------------------------------------------------------------------------
(* The worker's loop.  run_once starts only when the last run has ended.   *)
Idle(w) == DOMAIN held[w] = {}

Claim(w, t) ==
  LET live == ExpiredOut(jobs, t)
  IN  /\ Idle(w)
      /\ \E B \in Batches(live, t, ClaimLimit) :
           /\ jobs' = Claimed(live, B, w)
           /\ held' = [held EXCEPT ![w] = [k \in B |-> live[k].attempts + 1]]
      /\ renewing' = [renewing EXCEPT ![w] = TRUE]
      /\ UNCHANGED <<epoch, current, retries>>

Start(w, k) ==
  /\ renewing[w]
  /\ current[w] = NoJob
  /\ current' = [current EXCEPT ![w] = k]
  /\ UNCHANGED <<jobs, epoch, held, renewing, retries>>

Drop(w) ==
  /\ held' = [held EXCEPT
                ![w] = [k \in DOMAIN held[w] \ {current[w]} |-> held[w][k]]]
  /\ current' = [current EXCEPT ![w] = NoJob]

(* The projection's last transaction, through finish_claimed.  When the    *)
(* lease is gone it rolls back and the worker goes on with the next job.   *)
Finish(w, status) ==
  /\ current[w] # NoJob
  /\ jobs' = IF Owns(jobs, current[w], w)
             THEN FinishedAs(jobs, current[w], status) ELSE jobs
  /\ Drop(w)
  /\ UNCHANGED <<epoch, renewing, retries>>

(* The projection raised: mark_failed, unless the run was cancelled.       *)
Fail(w) ==
  /\ current[w] # NoJob
  /\ jobs' = IF renewing[w] /\ Owns(jobs, current[w], w)
             THEN MarkedFailed(jobs, current[w]) ELSE jobs
  /\ Drop(w)
  /\ UNCHANGED <<epoch, renewing, retries>>

(* _renew_claims: one transaction per claimed job.                         *)
RenewLease(w, k) ==
  /\ renewing[w]
  /\ LeaseKept(jobs, k, w)
  /\ jobs' = Renewed(jobs, k, w)
  /\ UNCHANGED <<epoch, workerVars, retries>>

(* ... and a lost one cancels the run, once the thread has come back.      *)
CancelRun(w, k) ==
  /\ renewing[w]
  /\ ~LeaseKept(jobs, k, w)
  /\ renewing' = [renewing EXCEPT ![w] = FALSE]
  /\ held' = [held EXCEPT
                ![w] = [j \in DOMAIN held[w] \cap {current[w]} |-> held[w][j]]]
  /\ UNCHANGED <<jobs, epoch, current, retries>>

(* The process dies and another is started: its claims are forgotten, the  *)
(* rows stay as they are until their leases lapse.                         *)
Crash(w) ==
  /\ ~Idle(w)
  /\ held' = [held EXCEPT ![w] = NoClaims]
  /\ current' = [current EXCEPT ![w] = NoJob]
  /\ UNCHANGED <<jobs, epoch, renewing, retries>>

Tick ==
  /\ jobs' = Aged(jobs)
  /\ UNCHANGED <<epoch, workerVars, retries>>

-----------------------------------------------------------------------------
Work(w) ==
  \/ \E t \in Targets : Claim(w, t)
  \/ \E k \in DOMAIN held[w] : Start(w, k)
  \/ \E status \in {"succeeded", "superseded"} : Finish(w, status)
  \/ Fail(w)

Next ==
  \/ \E p \in Pages, rev \in Revs : Edit(p, rev)
  \/ \E p \in Pages : Remove(p)
  \/ \E k \in DOMAIN jobs : RetryJob(k)
  \/ \E w \in Workers :
       \/ Work(w)
       \/ \E k \in DOMAIN held[w] : RenewLease(w, k) \/ CancelRun(w, k)
       \/ Crash(w)
  \/ Tick

Spec == Init /\ [][Next]_vars

(* Time passes; a process polls (for each target) and its thread ends.     *)
Fairness ==
  /\ WF_vars(Tick)
  /\ \A w \in Workers : WF_vars(Work(w))

FairSpec == Spec /\ Fairness

-----------------------------------------------------------------------------
(* finish_claimed, mark_failed, supersede_stale, the expiry in claim and   *)
(* retry_projection_job all clear the owner, and only a claim sets one.    *)
OwnedIffRunning == Disciplined(jobs)

(* The lease owner alone fences a row, there is no token per claim: a      *)
(* worker that finds itself the owner of a job it still works on holds     *)
(* the row's latest claim, however late it is, whoever took the job over   *)
(* in between and whatever an operator reset.                              *)
Fenced ==
  \A w \in Workers : \A k \in DOMAIN held[w] :
    jobs[k].owner = w => held[w][k] = jobs[k].attempts

(* Nothing revives a finished row: neither a late worker, nor a renewal,   *)
(* nor a retry, nor a page transaction that enqueues the same key.         *)
SettledIsFinal ==
  [][\A k \in DOMAIN jobs :
       jobs[k].status \in {"succeeded", "superseded"}
         => k \in DOMAIN jobs' /\ jobs'[k].status = jobs[k].status]_vars

(* Once the edits and the manual retries stop, every row is settled and    *)
(* stays so: workers may crash at any point and leases lapse under a       *)
(* running thread, yet no row is left running for good, or failed with     *)
(* attempts to spare.                                                      *)
EverythingSettles == <>[](\A k \in DOMAIN jobs : Settled(jobs[k]))
=============================================================================
