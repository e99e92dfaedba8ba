------------------------ MODULE ProjectionOutboxProofs ------------------------
(***************************************************************************)
(* Type correctness of the outbox, the discipline of its owners, the       *)
(* fencing of its workers and the finality of finished rows, for any       *)
(* number of pages, workers, attempts and retries.                         *)
(***************************************************************************)
EXTENDS ProjectionOutbox, ProjectionJobsProofs

(* TypeOK, OwnedIffRunning and Fenced support each other: fencing survives *)
(* the release of a row only because a released row has no owner.          *)
IInv == TypeOK /\ OwnedIffRunning /\ Fenced

(* What a step owes the invariant when it leaves the workers alone: a      *)
(* table that grows and keeps, or clears, the owners it had.               *)
LEMMA WorkersUndisturbed ==
  ASSUME IInv, UNCHANGED workerVars, TableOK(jobs'),
         DOMAIN jobs \subseteq DOMAIN jobs',
         \A k \in DOMAIN jobs :
           \/ jobs'[k].owner = NoOwner
           \/ jobs'[k].owner = jobs[k].owner /\ jobs'[k].attempts = jobs[k].attempts,
         epoch' \in [Pages -> 0 .. MaxEpoch], retries' \in 0 .. MaxRetries
  PROVE  IInv'
<1>1. TypeOK'
  BY DEF IInv, TypeOK, workerVars, TableOK
<1>2. OwnedIffRunning'
  BY DEF TableOK, OwnedIffRunning
<1>3. Fenced'
  <2> SUFFICES ASSUME NEW w \in Workers, NEW k \in DOMAIN held'[w],
                      jobs'[k].owner = w
               PROVE  held'[w][k] = jobs'[k].attempts
    BY DEF Fenced
  <2>1. k \in DOMAIN held[w] /\ k \in DOMAIN jobs
    BY DEF IInv, TypeOK, workerVars
  <2>2. jobs[k].owner = w /\ jobs'[k].attempts = jobs[k].attempts
    BY <2>1, ProjectionJobsAssumption
  <2> QED
    BY <2>1, <2>2 DEF IInv, Fenced, workerVars
<1> QED
  BY <1>1, <1>2, <1>3 DEF IInv

(* The same for a step that takes jobs out of the hands of one worker.     *)
LEMMA WorkerLetsGo ==
  ASSUME IInv, DOMAIN held' = Workers, DOMAIN current' = Workers,
         \A v \in Workers :
           /\ DOMAIN held'[v] \subseteq DOMAIN held[v]
           /\ \A k \in DOMAIN held'[v] : held'[v][k] = held[v][k]
           /\ current'[v] \in DOMAIN held'[v] \cup {NoJob},
         renewing' \in [Workers -> BOOLEAN],
         TableOK(jobs'), DOMAIN jobs' = DOMAIN jobs,
         \A k \in DOMAIN jobs :
           \/ jobs'[k].owner = NoOwner
           \/ jobs'[k].owner = jobs[k].owner /\ jobs'[k].attempts = jobs[k].attempts,
         UNCHANGED <<epoch, retries>>
  PROVE  IInv'
<1>2. TypeOK'
  BY DEF IInv, TypeOK, TableOK
<1>3. OwnedIffRunning'
  BY DEF TableOK, OwnedIffRunning
<1>4. Fenced'
  <2> SUFFICES ASSUME NEW v \in Workers, NEW k \in DOMAIN held'[v],
                      jobs'[k].owner = v
               PROVE  held'[v][k] = jobs'[k].attempts
    BY DEF Fenced
  <2>1. k \in DOMAIN held[v] /\ k \in DOMAIN jobs /\ held'[v][k] = held[v][k]
    BY DEF IInv, TypeOK
  <2>2. jobs[k].owner = v /\ jobs'[k].attempts = jobs[k].attempts
    BY <2>1, ProjectionJobsAssumption
  <2> QED
    BY <2>1, <2>2 DEF IInv, Fenced
<1> QED
  BY <1>2, <1>3, <1>4 DEF IInv

LEMMA TableOKHere ==
  ASSUME IInv PROVE TableOK(jobs)
  BY DEF IInv, TypeOK, OwnedIffRunning, TableOK

LEMMA InitIInv == Init => IInv
<1> SUFFICES ASSUME Init PROVE IInv
  OBVIOUS
<1>1. DOMAIN jobs = {} /\ \A w \in Workers : DOMAIN held[w] = {}
  BY DEF Init, NoJobs, NoClaims
<1>2. TypeOK
  BY <1>1, ProjectionOutboxAssumption DEF Init, TypeOK, IsTable
<1> QED
  BY <1>1, <1>2 DEF IInv, OwnedIffRunning, Disciplined, Fenced

(* Page transactions add rows and release old ones.                        *)
LEMMA PublishIInv ==
  ASSUME IInv, NEW p \in Pages, NEW op \in Ops, NEW rev \in Revs \cup {NoRev},
         NEW supersede \in BOOLEAN, Publish(p, op, rev, supersede)
  PROVE  IInv'
<1> DEFINE next == epoch[p] + 1
           kept == IF supersede THEN StaleSuperseded(jobs, p, next) ELSE jobs
           K == StateKeys(Targets, op, p, rev, next)
<1>1. next \in 0 .. MaxEpoch /\ next \in Nat
  BY ProjectionOutboxAssumption DEF IInv, TypeOK, Publish
<1>2. K \in SUBSET Key
  BY <1>1, StateKeysAreKeys
<1>3. /\ TableOK(kept) /\ DOMAIN kept = DOMAIN jobs
      /\ \A k \in DOMAIN jobs :
           /\ kept[k].attempts = jobs[k].attempts
           /\ kept[k].owner \in {jobs[k].owner, NoOwner}
  BY TableOKHere, StaleSupersededTable
<1>4. jobs' = Enqueued(kept, K)
  BY DEF Publish
<1> HIDE DEF kept, K
<1>5. /\ TableOK(jobs') /\ DOMAIN kept \subseteq DOMAIN jobs'
      /\ \A k \in DOMAIN kept : jobs'[k] = kept[k]
  BY <1>2, <1>3, <1>4, EnqueuedTable
<1>6. epoch' \in [Pages -> 0 .. MaxEpoch] /\ retries' \in 0 .. MaxRetries
      /\ UNCHANGED workerVars
  BY <1>1 DEF Publish, IInv, TypeOK
<1> QED
  BY <1>3, <1>5, <1>6, WorkersUndisturbed

LEMMA RetryIInv ==
  ASSUME IInv, NEW k \in DOMAIN jobs, RetryJob(k)
  PROVE  IInv'
<1>1. /\ TableOK(jobs') /\ DOMAIN jobs' = DOMAIN jobs
      /\ jobs'[k].owner = NoOwner
      /\ \A j \in DOMAIN jobs \ {k} : jobs'[j] = jobs[j]
  BY TableOKHere, RetriedTable DEF RetryJob
<1>2. epoch' \in [Pages -> 0 .. MaxEpoch] /\ retries' \in 0 .. MaxRetries
      /\ UNCHANGED workerVars
  BY ProjectionOutboxAssumption DEF RetryJob, IInv, TypeOK
<1> QED
  BY <1>1, <1>2, WorkersUndisturbed

(* A claim is made by a worker with empty hands: its old claims are gone.  *)
LEMMA ClaimIInv ==
  ASSUME IInv, NEW w \in Workers, NEW t \in Targets, Claim(w, t)
  PROVE  IInv'
<1> DEFINE live == ExpiredOut(jobs, t)
<1>1. PICK B \in Batches(live, t, ClaimLimit) :
        /\ jobs' = Claimed(live, B, w)
        /\ held' = [held EXCEPT ![w] = [k \in B |-> live[k].attempts + 1]]
  BY DEF Claim
<1>2. /\ TableOK(live) /\ DOMAIN live = DOMAIN jobs
      /\ \A k \in DOMAIN jobs :
           /\ live[k].attempts = jobs[k].attempts
           /\ live[k].owner \in {jobs[k].owner, NoOwner}
  BY TableOKHere, ExpiredOutTable
<1> HIDE DEF live
<1>3. /\ TableOK(jobs') /\ DOMAIN jobs' = DOMAIN jobs
      /\ \A k \in DOMAIN jobs \ B : jobs'[k] = live[k]
      /\ \A k \in B : /\ k \in DOMAIN jobs
                      /\ live[k].attempts + 1 \in 1 .. MaxAttempts
                      /\ jobs'[k].owner = w
                      /\ jobs'[k].attempts = live[k].attempts + 1
  <2>1. B \in SUBSET Due(live, t)
    BY <1>1, BatchIsDue
  <2>2. \A k \in B : k \in DOMAIN live
    BY <2>1 DEF Due
  <2>3. /\ TableOK(Claimed(live, B, w)) /\ DOMAIN Claimed(live, B, w) = DOMAIN live
        /\ \A k \in DOMAIN live \ B : Claimed(live, B, w)[k] = live[k]
        /\ \A k \in B : /\ live[k].attempts + 1 \in 1 .. MaxAttempts
                        /\ Claimed(live, B, w)[k].owner = w
                        /\ Claimed(live, B, w)[k].attempts = live[k].attempts + 1
    BY <1>2, <2>1, ClaimedTable
  <2> QED
    BY <1>1, <1>2, <2>2, <2>3
<1>4. /\ held'[w] = [k \in B |-> live[k].attempts + 1]
      /\ \A v \in Workers \ {w} : held'[v] = held[v]
      /\ DOMAIN held' = Workers
  BY <1>1 DEF IInv, TypeOK
<1>5. current[w] = NoJob /\ UNCHANGED <<epoch, current, retries>>
      /\ renewing' \in [Workers -> BOOLEAN]
  BY DEF Claim, Idle, IInv, TypeOK
<1>6. TypeOK'
  BY <1>3, <1>4, <1>5 DEF IInv, TypeOK, TableOK
<1>7. OwnedIffRunning'
  BY <1>3 DEF TableOK, OwnedIffRunning
<1>8. Fenced'
  <2> SUFFICES ASSUME NEW v \in Workers, NEW k \in DOMAIN held'[v],
                      jobs'[k].owner = v
               PROVE  held'[v][k] = jobs'[k].attempts
    BY DEF Fenced
  <2>1. CASE v = w
    BY <1>3, <1>4, <2>1
  <2>2. CASE v # w
    <3>1. k \in DOMAIN held[v] /\ held'[v][k] = held[v][k] /\ k \in DOMAIN jobs
      BY <1>4, <2>2 DEF IInv, TypeOK
    <3>2. k \notin B /\ jobs'[k] = live[k]
      BY <1>3, <2>2, <3>1
    <3>3. jobs[k].owner = v /\ jobs'[k].attempts = jobs[k].attempts
      BY <1>2, <3>1, <3>2, ProjectionJobsAssumption
    <3> QED
      BY <3>1, <3>3 DEF IInv, Fenced
  <2> QED
    BY <2>1, <2>2
<1> QED
  BY <1>6, <1>7, <1>8 DEF IInv

LEMMA StartIInv ==
  ASSUME IInv, NEW w \in Workers, NEW k \in DOMAIN held[w], Start(w, k)
  PROVE  IInv'
<1>1. TypeOK'
  BY DEF Start, IInv, TypeOK
<1>2. OwnedIffRunning' /\ Fenced'
  BY DEF Start, IInv, OwnedIffRunning, Fenced
<1> QED
  BY <1>1, <1>2 DEF IInv

(* Finish and Fail release the worker's current row, or nothing at all.    *)
LEMMA SettleIInv ==
  ASSUME IInv, NEW w \in Workers,
         \/ \E status \in {"succeeded", "superseded"} : Finish(w, status)
         \/ Fail(w)
  PROVE  IInv'
<1> DEFINE k == current[w]
           K == DOMAIN held[w] \ {k}
<1>1. k \in DOMAIN jobs
  BY DEF Finish, Fail, IInv, TypeOK
<1>2. /\ TableOK(jobs') /\ DOMAIN jobs' = DOMAIN jobs
      /\ \A j \in DOMAIN jobs : jobs'[j].owner = NoOwner \/ jobs'[j] = jobs[j]
  <2>1. CASE jobs' = jobs
    BY <2>1, TableOKHere
  <2>2. ASSUME NEW status \in {"succeeded", "superseded"},
               jobs' = FinishedAs(jobs, k, status)
        PROVE  <1>2
    BY <1>1, <2>2, TableOKHere, FinishedTable
  <2>3. CASE jobs' = MarkedFailed(jobs, k)
    BY <1>1, <2>3, TableOKHere, MarkedFailedTable
  <2> QED
    BY <2>1, <2>2, <2>3 DEF Finish, Fail
<1>3. /\ held' = [held EXCEPT ![w] = [j \in K |-> held[w][j]]]
      /\ current' = [current EXCEPT ![w] = NoJob]
      /\ renewing' \in [Workers -> BOOLEAN]
      /\ UNCHANGED <<epoch, retries>>
  BY DEF Finish, Fail, Drop, IInv, TypeOK
<1>4. /\ DOMAIN held' = Workers /\ DOMAIN current' = Workers
      /\ \A v \in Workers :
           /\ DOMAIN held'[v] \subseteq DOMAIN held[v]
           /\ \A j \in DOMAIN held'[v] : held'[v][j] = held[v][j]
           /\ current'[v] \in DOMAIN held'[v] \cup {NoJob}
  BY <1>3 DEF IInv, TypeOK
<1> QED
  BY <1>2, <1>3, <1>4, WorkerLetsGo

LEMMA RenewIInv ==
  ASSUME IInv, NEW w \in Workers, NEW k \in DOMAIN held[w], RenewLease(w, k)
  PROVE  IInv'
<1>1. /\ TableOK(jobs') /\ DOMAIN jobs' = DOMAIN jobs
      /\ \A j \in DOMAIN jobs : /\ jobs'[j].owner = jobs[j].owner
                                /\ jobs'[j].attempts = jobs[j].attempts
  BY TableOKHere, RenewedTable DEF RenewLease
<1>2. epoch' \in [Pages -> 0 .. MaxEpoch] /\ retries' \in 0 .. MaxRetries
      /\ UNCHANGED workerVars
  BY DEF RenewLease, IInv, TypeOK
<1> QED
  BY <1>1, <1>2, WorkersUndisturbed

LEMMA LetGoIInv ==
  ASSUME IInv, NEW w \in Workers,
         Crash(w) \/ \E k \in DOMAIN held[w] : CancelRun(w, k)
  PROVE  IInv'
<1>1. /\ jobs' = jobs /\ UNCHANGED <<epoch, retries>>
      /\ renewing' \in [Workers -> BOOLEAN]
  BY DEF Crash, CancelRun, IInv, TypeOK
<1>2. /\ DOMAIN held' = Workers /\ DOMAIN current' = Workers
      /\ \A v \in Workers :
           /\ DOMAIN held'[v] \subseteq DOMAIN held[v]
           /\ \A j \in DOMAIN held'[v] : held'[v][j] = held[v][j]
           /\ current'[v] \in DOMAIN held'[v] \cup {NoJob}
  <2>1. CASE Crash(w)
    BY <2>1 DEF Crash, NoClaims, IInv, TypeOK
  <2>2. CASE \E k \in DOMAIN held[w] : CancelRun(w, k)
    BY <2>2 DEF CancelRun, IInv, TypeOK
  <2> QED
    BY <2>1, <2>2
<1> QED
  BY <1>1, <1>2, TableOKHere, WorkerLetsGo

LEMMA TickIInv ==
  ASSUME IInv, Tick
  PROVE  IInv'
<1>1. /\ TableOK(jobs') /\ DOMAIN jobs' = DOMAIN jobs
      /\ \A j \in DOMAIN jobs : /\ jobs'[j].owner = jobs[j].owner
                                /\ jobs'[j].attempts = jobs[j].attempts
  BY TableOKHere, AgedTable DEF Tick
<1>2. epoch' \in [Pages -> 0 .. MaxEpoch] /\ retries' \in 0 .. MaxRetries
      /\ UNCHANGED workerVars
  BY DEF Tick, IInv, TypeOK
<1> QED
  BY <1>1, <1>2, WorkersUndisturbed

(* IInv is inductive.                                                      *)
THEOREM StepIInv == IInv /\ [Next]_vars => IInv'
<1> SUFFICES ASSUME IInv, [Next]_vars PROVE IInv'
  OBVIOUS
<1>1. ASSUME NEW p \in Pages, NEW rev \in Revs, Edit(p, rev) PROVE IInv'
  BY <1>1, PublishIInv DEF Edit, Ops
<1>2. ASSUME NEW p \in Pages, Remove(p) PROVE IInv'
  BY <1>2, PublishIInv DEF Remove, Ops
<1>3. ASSUME NEW k \in DOMAIN jobs, RetryJob(k) PROVE IInv'
  BY <1>3, RetryIInv
<1>4. ASSUME NEW w \in Workers, Work(w) PROVE IInv'
  BY <1>4, ClaimIInv, StartIInv, SettleIInv DEF Work
<1>5. ASSUME NEW w \in Workers, NEW k \in DOMAIN held[w],
             RenewLease(w, k) \/ CancelRun(w, k)
      PROVE  IInv'
  BY <1>5, RenewIInv, LetGoIInv
<1>6. ASSUME NEW w \in Workers, Crash(w) PROVE IInv'
  BY <1>6, LetGoIInv
<1>7. CASE Tick
  BY <1>7, TickIInv
<1>8. CASE UNCHANGED vars
  BY <1>8 DEF vars, IInv, TypeOK, OwnedIffRunning, Fenced
<1> QED
  BY <1>1, <1>2, <1>3, <1>4, <1>5, <1>6, <1>7, <1>8 DEF Next

LEMMA Inductive == Spec => []IInv
  BY InitIInv, StepIInv, PTL DEF Spec

-----------------------------------------------------------------------------
(* Attempts never exceed their maximum, whatever crashes, lapses and       *)
(* retries happen, and a worker's current job is always one it claimed.    *)
THEOREM TypeCorrect == Spec => []TypeOK
  BY Inductive, PTL DEF IInv

(* A row has an owner exactly while it runs.                               *)
THEOREM OwnersCorrect == Spec => []OwnedIffRunning
  BY Inductive, PTL DEF IInv

(* A worker that owns a row it works on acts under the row's last claim,   *)
(* so a lost lease can finish nothing.                                     *)
THEOREM FencingCorrect == Spec => []Fenced
  BY Inductive, PTL DEF IInv

(* No step takes a finished row out of its status: each one that changes a *)
(* status has looked at it in the same transaction.                        *)
LEMMA FinishedKept ==
  ASSUME IInv, [Next]_vars
  PROVE  \A k \in DOMAIN jobs :
           jobs[k].status \in {"succeeded", "superseded"}
             => k \in DOMAIN jobs' /\ jobs'[k].status = jobs[k].status
<1> SUFFICES ASSUME NEW k \in DOMAIN jobs,
                    jobs[k].status \in {"succeeded", "superseded"}
             PROVE  k \in DOMAIN jobs' /\ jobs'[k].status = jobs[k].status
  OBVIOUS
<1>1. ASSUME NEW p \in Pages, NEW op \in Ops, NEW rev \in Revs \cup {NoRev},
             NEW supersede \in BOOLEAN, Publish(p, op, rev, supersede)
      PROVE  k \in DOMAIN jobs' /\ jobs'[k].status = jobs[k].status
  <2> DEFINE next == epoch[p] + 1
             kept == IF supersede THEN StaleSuperseded(jobs, p, next) ELSE jobs
             K == StateKeys(Targets, op, p, rev, next)
  <2>1. jobs' = Enqueued(kept, K)
    BY <1>1 DEF Publish
  <2>2. DOMAIN kept = DOMAIN jobs /\ kept[k].status = jobs[k].status
    BY TableOKHere, StaleSupersededTable
  <2> QED
    BY <2>1, <2>2 DEF Enqueued
<1>2. ASSUME NEW j \in DOMAIN jobs, RetryJob(j)
      PROVE  k \in DOMAIN jobs' /\ jobs'[k].status = jobs[k].status
  BY <1>2, TableOKHere, RetriedTable DEF RetryJob
<1>3. ASSUME NEW w \in Workers, NEW t \in Targets, Claim(w, t)
      PROVE  k \in DOMAIN jobs' /\ jobs'[k].status = jobs[k].status
  <2> DEFINE live == ExpiredOut(jobs, t)
  <2>1. PICK B \in Batches(live, t, ClaimLimit) : jobs' = Claimed(live, B, w)
    BY <1>3 DEF Claim
  <2>2. TableOK(live) /\ DOMAIN live = DOMAIN jobs /\ live[k].status = jobs[k].status
    BY TableOKHere, ExpiredOutTable
  <2> HIDE DEF live
  <2>3. B \subseteq Due(live, t)
    BY <2>1, BatchIsDue
  <2>4. DOMAIN jobs' = DOMAIN live /\ \A j \in DOMAIN live \ B : jobs'[j] = live[j]
    BY <2>1 DEF Claimed
  <2>5. k \notin B
    BY <2>2, <2>3 DEF Due, Lapsed
  <2> QED
    BY <2>2, <2>4, <2>5
<1>4. ASSUME NEW w \in Workers,
             \/ \E status \in {"succeeded", "superseded"} : Finish(w, status)
             \/ Fail(w)
      PROVE  k \in DOMAIN jobs' /\ jobs'[k].status = jobs[k].status
  BY <1>4 DEF Finish, Fail, Owns, FinishedAs, MarkedFailed
<1>5. ASSUME NEW w \in Workers, NEW j \in DOMAIN held[w], RenewLease(w, j)
      PROVE  k \in DOMAIN jobs' /\ jobs'[k].status = jobs[k].status
  BY <1>5, TableOKHere, RenewedTable DEF RenewLease
<1>6. CASE Tick
  BY <1>6, TableOKHere, AgedTable DEF Tick
<1>7. CASE UNCHANGED jobs
  BY <1>7
<1>8. ASSUME NEW w \in Workers, Work(w)
      PROVE  k \in DOMAIN jobs' /\ jobs'[k].status = jobs[k].status
  BY <1>3, <1>4, <1>7, <1>8 DEF Work, Start
<1> QED
  BY <1>1, <1>2, <1>5, <1>6, <1>7, <1>8
  DEF Next, Edit, Remove, Ops, CancelRun, Crash, vars

(* Nothing revives a finished row: not a late worker, not a retry, not a   *)
(* page transaction that enqueues its key again.                           *)
THEOREM FinalityCorrect == Spec => SettledIsFinal
  BY Inductive, FinishedKept, PTL DEF Spec, SettledIsFinal
=============================================================================
