----------------------- MODULE GBrainProjectionProofs -----------------------
(***************************************************************************)
(* The safety of the GBrain projection for any pages, paths, revisions,    *)
(* workers, segment sizes and numbers of changes, batches and faults: what *)
(* is cited is the present revision, no projection ends in nothing, and no *)
(* mapping goes back to an earlier epoch; and with one worker, protected   *)
(* rows stay.                                                              *)
(***************************************************************************)
EXTENDS GBrainProjection, ProjectionJobsProofs, FiniteSetTheorems, SequenceTheorems

-----------------------------------------------------------------------------
(* The inductive invariant.                                                *)
Over(job) == job.status \in {"succeeded", "superseded"}

(* Jobs and mappings are of epochs there have been.                        *)
JobsOfThePast == \A k \in DOMAIN jobs : k.epoch <= page[k.page].epoch
MappingsOfThePast ==
  \A s \in Paths : mapping[s] # None => mapping[s].epoch <= page[mapping[s].page].epoch

(* A delete of a page supersedes the earlier ones that are not over.       *)
OneOpenDelete ==
  \A k, l \in DOMAIN jobs :
    /\ k.op = "delete" /\ l.op = "delete" /\ k.page = l.page /\ k.target = l.target
    /\ ~Over(jobs[k]) /\ ~Over(jobs[l])
    => k = l

OfGBrain(K) == \A k \in K : k.target = "gbrain"
MembersOfGBrain ==
  /\ \A w \in Workers : OfGBrain(work[w].claims)
  /\ \A b \in DOMAIN batches : OfGBrain(batches[b].members)

(* What says that a page was imported has the hash of the revision that    *)
(* was expected.                                                           *)
Agrees(r) == r.status = "imported" => r.hash = [page |-> r.page.page, rev |-> r.page.rev]
AllAgree(results) == \A r \in results : Agrees(r)
MappingsAgree ==
  \A s \in Paths : mapping[s] # None =>
    mapping[s].hash = [page |-> mapping[s].page, rev |-> mapping[s].rev]

(* Between import and verification the row is of the page and revision     *)
(* expected.                                                               *)
ImportedNow(service) ==
  service.step = "verify" =>
    LET e == service.page IN
    /\ e \in Expected /\ service.from \in Paths
    /\ brain[e.path] \in BrainRow
    /\ Tool!Hash(brain[e.path]) = [page |-> e.page, rev |-> e.rev]

(* A run closes its batch when all the segments are done.                  *)
Closes(w, run) ==
  run.step = "close" /\ batches[run.batch].owner = w => Done(batches[run.batch].segs)

TableInv == /\ TableOK(jobs) /\ page \in [Pages -> Page]
            /\ JobsOfThePast /\ OneOpenDelete
MappingInv == /\ mapping \in [Paths -> Mapping \cup {None}]
              /\ MappingsOfThePast /\ MappingsAgree
RunInv == /\ guarded \subseteq Protection
          /\ batches \in Seq(BatchRow) /\ work \in [Workers -> RunRow]
          /\ \A b \in DOMAIN batches : BatchOK(batches[b])
          /\ \A w \in Workers : /\ RunOK(work[w]) /\ AllAgree(work[w].results)
                                /\ Closes(w, work[w])
          /\ MembersOfGBrain
ToolInv == /\ ToolTypeOK
           /\ \A key \in DOMAIN stored : AllAgree(stored[key].results)
           /\ serving # None => AllAgree(serving.results) /\ ImportedNow(serving)
CountInv == changes \in 0 .. MaxChanges /\ faults \in 0 .. MaxFaults

IInv == TableInv /\ MappingInv /\ RunInv /\ ToolInv /\ CountInv /\ ProjectionIsKept

-----------------------------------------------------------------------------
(* What the transactions do to the table.                                  *)

(* A step of the table that is no page transaction: rows stay, what is     *)
(* over stays as it is, and new rows are upserts of present epochs.        *)
GoesOn(t) ==
  /\ TableOK(t) /\ DOMAIN jobs \subseteq DOMAIN t
  /\ \A k \in DOMAIN jobs : Over(jobs[k]) => t[k].status = jobs[k].status
  /\ \A k \in DOMAIN t \ DOMAIN jobs :
       k.op = "upsert" /\ k.epoch = page[k.page].epoch /\ t[k].status = "pending"

(* ... and no other row succeeds than those of K.                          *)
SucceedsOnly(t, K) ==
  \A k \in DOMAIN jobs \ K : t[k].status = "succeeded" => jobs[k].status = "succeeded"

Working(K) == \A k \in K : k \in DOMAIN jobs /\ jobs[k].status = "running"

LEMMA SameTable ==
  ASSUME TableInv
  PROVE  GoesOn(jobs) /\ SucceedsOnly(jobs, {})
  BY DEF TableInv, GoesOn, SucceedsOnly

LEMMA EndedGoesOn ==
  ASSUME TableInv, NEW K, Working(K), NEW status \in {"succeeded", "failed", "superseded"}
  PROVE  /\ GoesOn(Ended(jobs, K, status))
         /\ SucceedsOnly(Ended(jobs, K, status), IF status = "succeeded" THEN K ELSE {})
         /\ DOMAIN Ended(jobs, K, status) = DOMAIN jobs
         /\ \A k \in K : Ended(jobs, K, status)[k].status = status
<1> DEFINE t == Ended(jobs, K, status)
<1>1. /\ DOMAIN t = DOMAIN jobs
      /\ \A k \in K : k \in DOMAIN jobs /\ t[k] = Released(jobs[k], status)
      /\ \A k \in DOMAIN jobs \ K : t[k] = jobs[k]
  BY DEF Ended, Working
<1>2. \A k \in DOMAIN jobs : k \in Key /\ jobs[k] \in Job
  BY DEF TableInv, TableOK, IsTable
<1>3. \A k \in K : /\ t[k] \in Job /\ t[k].status = status /\ t[k].owner = NoOwner
                   /\ jobs[k].status = "running"
  BY <1>1, <1>2, ReleasedJob DEF Statuses, Working
<1>4. TableOK(t)
  BY <1>1, <1>2, <1>3 DEF TableInv, TableOK, IsTable, Disciplined
<1> HIDE DEF t
<1>5. GoesOn(t) /\ SucceedsOnly(t, IF status = "succeeded" THEN K ELSE {})
  BY <1>1, <1>3, <1>4 DEF GoesOn, SucceedsOnly, Over
<1> QED
  BY <1>1, <1>3, <1>5 DEF t

(* _enqueue_current_page                                                   *)
LEMMA CurrentEnqueuedGoesOn ==
  ASSUME TableInv, NEW t, GoesOn(t), NEW K, SucceedsOnly(t, K), NEW p \in Pages
  PROVE  GoesOn(CurrentEnqueued(t, p)) /\ SucceedsOnly(CurrentEnqueued(t, p), K)
<1>1. CASE ~Active(p)
  BY <1>1 DEF CurrentEnqueued
<1>2. CASE Active(p)
  <2> DEFINE key == [target |-> "gbrain", op |-> "upsert", page |-> p,
                     rev |-> page[p].rev, epoch |-> page[p].epoch]
             u == Enqueued(t, {key})
  <2>1. CurrentEnqueued(t, p) = u
    BY <1>2 DEF CurrentEnqueued, StateKeys
  <2>2. key \in Key
    BY GBrainProjectionAssumption DEF TableInv, Page, Key, Ops
  <2>3. TableOK(u) /\ DOMAIN t \subseteq DOMAIN u /\ \A k \in DOMAIN t : u[k] = t[k]
    BY <2>2, EnqueuedTable DEF GoesOn
  <2>4. DOMAIN u = DOMAIN t \cup {key}
    BY DEF Enqueued
  <2>5. key \notin DOMAIN t => u[key].status = "pending"
    BY DEF Enqueued, Fresh
  <2>6. key.op = "upsert" /\ key.epoch = page[key.page].epoch
    OBVIOUS
  <2> HIDE DEF key, u
  <2>7. GoesOn(u) /\ SucceedsOnly(u, K)
    BY <2>3, <2>4, <2>5, <2>6 DEF GoesOn, SucceedsOnly
  <2> QED
    BY <2>1, <2>7
<1> QED
  BY <1>1, <1>2


LEMMA PageFacts ==
  ASSUME TableInv, NEW p \in Pages
  PROVE  /\ page[p] \in Page /\ page[p].rev \in Revs \cup {NoRev}
         /\ page[p].epoch \in Nat /\ page[p].path \in Paths
         /\ Active(p) => page[p].rev \in Revs
<1>1. page[p] \in Page
  BY DEF TableInv
<1>2. MaxEpoch \in Nat
  BY GBrainProjectionAssumption
<1> QED
  BY <1>1, <1>2 DEF Page, Active

(* create_batch requeues what has moved on.                                *)
LEMMA RequeuedGoesOn ==
  ASSUME TableInv, NEW K, Working(K)
  PROVE  GoesOn(Requeued(jobs, K)) /\ SucceedsOnly(Requeued(jobs, K), {})
<1> DEFINE t == Ended(jobs, K, "superseded")
           now == {[target |-> "gbrain", op |-> "upsert", page |-> k.page,
                    rev |-> page[k.page].rev, epoch |-> page[k.page].epoch] :
                     k \in {j \in K : Active(j.page)}}
           u == Enqueued(t, now)
<1>1. GoesOn(t) /\ SucceedsOnly(t, {})
  BY EndedGoesOn
<1>2. \A k \in K : k \in Key
  BY DEF Working, TableInv, TableOK, IsTable
<1>3. now \in SUBSET Key
  <2> SUFFICES ASSUME NEW k \in K
               PROVE  [target |-> "gbrain", op |-> "upsert", page |-> k.page,
                       rev |-> page[k.page].rev, epoch |-> page[k.page].epoch] \in Key
    OBVIOUS
  <2>1. k.page \in Pages
    BY <1>2 DEF Key
  <2>2. page[k.page].rev \in Revs \cup {NoRev} /\ page[k.page].epoch \in Nat
    BY <2>1, PageFacts
  <2> QED
    BY <2>1, <2>2, GBrainProjectionAssumption DEF Key, Ops
<1>4. \A k \in now : k.op = "upsert" /\ k.epoch = page[k.page].epoch
  OBVIOUS
<1>5. Requeued(jobs, K) = u
  BY DEF Requeued
<1> HIDE DEF t, now
<1>6. TableOK(u) /\ DOMAIN t \subseteq DOMAIN u /\ \A k \in DOMAIN t : u[k] = t[k]
  BY <1>1, <1>3, EnqueuedTable DEF GoesOn
<1>7. DOMAIN u = DOMAIN t \cup now /\ \A k \in now \ DOMAIN t : u[k].status = "pending"
  BY DEF Enqueued, Fresh
<1> HIDE DEF u
<1>8. GoesOn(u) /\ SucceedsOnly(u, {})
  BY <1>1, <1>4, <1>6, <1>7 DEF GoesOn, SucceedsOnly
<1> QED
  BY <1>5, <1>8

(* mark_failed of every claim a run still owns.                            *)
LEMMA ClaimsFailedGoesOn ==
  ASSUME TableInv, NEW w \in Workers
  PROVE  /\ GoesOn(ClaimsFailed(w)) /\ SucceedsOnly(ClaimsFailed(w), {})
         /\ DOMAIN ClaimsFailed(w) = DOMAIN jobs
<1> DEFINE t == ClaimsFailed(w)
           mine(k) == k \in work[w].claims /\ Owns(jobs, k, w)
<1>1. DOMAIN t = DOMAIN jobs
  BY DEF ClaimsFailed
<1>2. ASSUME NEW k \in DOMAIN jobs
      PROVE  /\ ~mine(k) => t[k] = jobs[k]
             /\ mine(k) => /\ jobs[k].status = "running" /\ t[k] \in Job
                           /\ t[k].status = "failed" /\ t[k].owner = NoOwner
  <2>1. ~mine(k) => t[k] = jobs[k]
    BY DEF ClaimsFailed
  <2>2. ASSUME mine(k)
        PROVE  /\ jobs[k].status = "running" /\ t[k] \in Job
               /\ t[k].status = "failed" /\ t[k].owner = NoOwner
    <3>1. t[k] = MarkedFailed(jobs, k)[k]
      BY <2>2 DEF ClaimsFailed
    <3>2. TableOK(MarkedFailed(jobs, k)) /\ DOMAIN MarkedFailed(jobs, k) = DOMAIN jobs
          /\ MarkedFailed(jobs, k)[k].owner = NoOwner
      BY MarkedFailedTable DEF TableInv
    <3>3. MarkedFailed(jobs, k)[k].status = "failed"
      BY DEF MarkedFailed, Released
    <3> QED
      BY <2>2, <3>1, <3>2, <3>3 DEF Owns, TableOK, IsTable
  <2> QED
    BY <2>1, <2>2
<1> HIDE DEF t, mine
<1>3. TableOK(t)
  BY <1>1, <1>2 DEF TableInv, TableOK, IsTable, Disciplined
<1>4. GoesOn(t) /\ SucceedsOnly(t, {})
  BY <1>1, <1>2, <1>3 DEF GoesOn, SucceedsOnly, Over
<1> QED
  BY <1>1, <1>4 DEF t

(* Steps that touch nothing but leases.                                    *)
SameButLeases(t) ==
  /\ DOMAIN t = DOMAIN jobs
  /\ \A k \in DOMAIN jobs : t[k] \in Job /\ t[k].status = jobs[k].status
                            /\ t[k].owner = jobs[k].owner
                            /\ t[k].attempts = jobs[k].attempts

LEMMA LeasesGoOn ==
  ASSUME TableInv, NEW t, SameButLeases(t)
  PROVE  GoesOn(t) /\ SucceedsOnly(t, {})
<1>1. TableOK(t)
  BY DEF SameButLeases, TableInv, TableOK, IsTable, Disciplined
<1> QED
  BY <1>1 DEF SameButLeases, GoesOn, SucceedsOnly

LEMMA LeasesRenewedGoesOn ==
  ASSUME TableInv, NEW w
  PROVE  /\ GoesOn(LeasesRenewed(w)) /\ SucceedsOnly(LeasesRenewed(w), {})
         /\ DOMAIN LeasesRenewed(w) = DOMAIN jobs
<1>1. \A k \in DOMAIN jobs : jobs[k] \in Job
  BY DEF TableInv, TableOK, IsTable
<1>2. SameButLeases(LeasesRenewed(w))
  BY <1>1, ProjectionJobsAssumption DEF SameButLeases, LeasesRenewed, Job
<1> QED
  BY <1>2, LeasesGoOn DEF SameButLeases

LEMMA StalledGoesOn ==
  ASSUME TableInv, NEW w,
         jobs' = [k \in DOMAIN jobs |-> IF Owns(jobs, k, w)
                                         THEN [jobs[k] EXCEPT !.lease = -1] ELSE jobs[k]]
  PROVE  GoesOn(jobs') /\ SucceedsOnly(jobs', {}) /\ DOMAIN jobs' = DOMAIN jobs
<1>1. \A k \in DOMAIN jobs : jobs[k] \in Job
  BY DEF TableInv, TableOK, IsTable
<1>2. SameButLeases(jobs')
  BY <1>1 DEF SameButLeases, Job
<1> QED
  BY <1>2, LeasesGoOn DEF SameButLeases

LEMMA TickGoesOn ==
  ASSUME TableInv, Tick
  PROVE  GoesOn(jobs') /\ SucceedsOnly(jobs', {}) /\ DOMAIN jobs' = DOMAIN jobs
<1>1. /\ TableOK(Aged(jobs)) /\ DOMAIN Aged(jobs) = DOMAIN jobs
      /\ \A k \in DOMAIN jobs : /\ Aged(jobs)[k].owner = jobs[k].owner
                                /\ Aged(jobs)[k].attempts = jobs[k].attempts
                                /\ Aged(jobs)[k].status = jobs[k].status
  BY AgedTable DEF TableInv
<1>2. \A k \in DOMAIN jobs : /\ jobs[k] \in Job /\ Aged(jobs)[k] \in Job
                             /\ Aged(jobs)[k].status = jobs[k].status
                             /\ Aged(jobs)[k].owner = jobs[k].owner
                             /\ Aged(jobs)[k].attempts = jobs[k].attempts
  BY <1>1 DEF TableInv, TableOK, IsTable
<1>3. jobs' = [k \in DOMAIN jobs |->
                 IF jobs[k].status = "running" /\ Kept(k) THEN jobs[k] ELSE Aged(jobs)[k]]
  BY DEF Tick
<1>4. SameButLeases(jobs')
  BY <1>2, <1>3 DEF SameButLeases
<1> QED
  BY <1>4, LeasesGoOn DEF SameButLeases

(* claim                                                                   *)
LEMMA ClaimedGoesOn ==
  ASSUME TableInv, NEW w \in Workers,
         NEW B \in Batches(ExpiredOut(jobs, "gbrain"), "gbrain", ClaimLimit)
  PROVE  /\ GoesOn(Claimed(ExpiredOut(jobs, "gbrain"), B, w))
         /\ SucceedsOnly(Claimed(ExpiredOut(jobs, "gbrain"), B, w), {})
         /\ DOMAIN Claimed(ExpiredOut(jobs, "gbrain"), B, w) = DOMAIN jobs
         /\ B \subseteq DOMAIN jobs /\ OfGBrain(B)
<1> DEFINE live == ExpiredOut(jobs, "gbrain")
           t == Claimed(live, B, w)
<1>1. TableOK(live) /\ DOMAIN live = DOMAIN jobs
  BY ExpiredOutTable DEF TableInv
<1>2. \A k \in DOMAIN jobs : \/ live[k] = jobs[k]
                             \/ jobs[k].status = "running" /\ live[k].status = "failed"
  BY DEF ExpiredOut, Lapsed, Released
<1>3. B \subseteq Due(live, "gbrain")
  BY BatchIsDue
<1>4. B \subseteq DOMAIN live /\ OfGBrain(B)
  BY <1>3 DEF Due, OfGBrain
<1>5. /\ TableOK(t) /\ DOMAIN t = DOMAIN live
      /\ \A k \in DOMAIN live \ B : t[k] = live[k]
      /\ \A k \in B : ~Over(live[k])
  <2>1. PICK table : table = live
    OBVIOUS
  <2>2. TableOK(table) /\ B \subseteq Due(table, "gbrain")
    BY <1>1, <1>3, <2>1
  <2>3. /\ TableOK(Claimed(table, B, w)) /\ DOMAIN Claimed(table, B, w) = DOMAIN table
        /\ \A k \in DOMAIN table \ B : Claimed(table, B, w)[k] = table[k]
        /\ \A k \in B : table[k].status \notin {"succeeded", "superseded"}
    BY <2>2, ClaimedTable
  <2> QED
    BY <2>1, <2>3 DEF Over
<1>6. \A k \in B : t[k].status = "running"
  BY <1>4 DEF Claimed
<1> HIDE DEF live, t
<1>7. GoesOn(t) /\ SucceedsOnly(t, {})
  BY <1>1, <1>2, <1>4, <1>5, <1>6 DEF GoesOn, SucceedsOnly, Over
<1> QED
  BY <1>1, <1>4, <1>5, <1>7 DEF live, t


-----------------------------------------------------------------------------
(* The table and what hangs on it.                                         *)
LEMMA TableStays ==
  ASSUME TableInv, GoesOn(jobs'), page' = page
  PROVE  TableInv'
<1>1. /\ TableOK(jobs') /\ DOMAIN jobs \subseteq DOMAIN jobs'
      /\ \A k \in DOMAIN jobs : Over(jobs[k]) => Over(jobs'[k])
      /\ \A k \in DOMAIN jobs' \ DOMAIN jobs :
           k.op = "upsert" /\ k.epoch = page[k.page].epoch
  BY DEF GoesOn, Over
<1>2. \A k \in DOMAIN jobs' : k \in Key
  BY <1>1 DEF TableOK, IsTable
<1>3. JobsOfThePast'
  <2> SUFFICES ASSUME NEW k \in DOMAIN jobs' PROVE k.epoch <= page[k.page].epoch
    BY DEF JobsOfThePast
  <2>1. k.page \in Pages
    BY <1>2 DEF Key
  <2>2. page[k.page].epoch \in Nat
    BY <2>1, PageFacts
  <2> QED
    BY <1>1, <2>2 DEF TableInv, JobsOfThePast
<1>4. OneOpenDelete'
  BY <1>1 DEF TableInv, OneOpenDelete
<1> QED
  BY <1>1, <1>3, <1>4 DEF TableInv

LEMMA RowsGrow ==
  ASSUME DOMAIN jobs \subseteq DOMAIN jobs', DOMAIN batches \subseteq DOMAIN batches'
  PROVE  BatchRow \subseteq BatchRow' /\ RunRow \subseteq RunRow'
  BY DEF BatchRow, RunRow

LEMMA RunsStay ==
  ASSUME RunInv, DOMAIN jobs \subseteq DOMAIN jobs', UNCHANGED <<guarded, batches, work>>
  PROVE  RunInv'
<1>1. BatchRow \subseteq BatchRow' /\ RunRow \subseteq RunRow'
  BY RowsGrow
<1>2. batches' \in Seq(BatchRow')
  BY <1>1, SeqMonotonic, ElementOfSeq DEF RunInv
<1> QED
  BY <1>1, <1>2 DEF RunInv, MembersOfGBrain, Closes

LEMMA MappingsStay ==
  ASSUME MappingInv, UNCHANGED <<mapping, page>>
  PROVE  MappingInv'
  BY DEF MappingInv, MappingsOfThePast, MappingsAgree

(* A projection is kept when those that are mapped stay so, and jobs of    *)
(* active pages succeed with their page mapped.                            *)
LEMMA ProjectionsStay ==
  ASSUME TableInv, ProjectionIsKept, GoesOn(jobs'), page' = page,
         NEW K, SucceedsOnly(jobs', K),
         \A p \in Pages, s \in Paths : MapsPresent(s, p) => \E q \in Paths : MapsPresent(q, p)',
         \A k \in K : Active(k.page) /\ k.epoch = page[k.page].epoch =>
            \E q \in Paths : MapsPresent(q, k.page)'
  PROVE  ProjectionIsKept'
<1> SUFFICES ASSUME NEW p \in Pages, Active(p)', ~(\E s \in Paths : MapsPresent(s, p)')
             PROVE  \/ \E k \in JobsOf(p)' : jobs'[k].status # "succeeded"
                    \/ Unrequested(p)'
  BY DEF ProjectionIsKept
<1>1. Active(p) /\ ~(\E s \in Paths : MapsPresent(s, p))
  BY DEF Active
<1>2. CASE Unrequested(p)
  <2>1. \A k \in JobsOf(p)' : k \in DOMAIN jobs' \ DOMAIN jobs
    BY <1>2 DEF Unrequested, JobsOf
  <2>2. \A k \in JobsOf(p)' : jobs'[k].status = "pending"
    BY <2>1 DEF GoesOn
  <2> QED
    BY <1>2, <2>2 DEF Unrequested
<1>3. CASE ~Unrequested(p)
  <2>1. PICK k \in JobsOf(p) : jobs[k].status # "succeeded"
    BY <1>1, <1>3 DEF ProjectionIsKept
  <2>2. k \in DOMAIN jobs /\ k.page = p /\ k.epoch = page[p].epoch /\ k.target = "gbrain"
    BY <2>1 DEF JobsOf
  <2>3. k \notin K
    BY <1>1, <2>2
  <2>4. k \in DOMAIN jobs' /\ jobs'[k].status # "succeeded"
    BY <2>1, <2>2, <2>3 DEF GoesOn, SucceedsOnly
  <2> QED
    BY <2>2, <2>4 DEF JobsOf
<1> QED
  BY <1>2, <1>3

LEMMA ProjectionsUndisturbed ==
  ASSUME TableInv, ProjectionIsKept, GoesOn(jobs'), SucceedsOnly(jobs', {}),
         UNCHANGED <<page, mapping>>
  PROVE  ProjectionIsKept'
<1>1. \A p \in Pages, s \in Paths : MapsPresent(s, p) => MapsPresent(s, p)'
  BY DEF MapsPresent, Active
<1>2. \A p \in Pages, s \in Paths : MapsPresent(s, p) => \E q \in Paths : MapsPresent(q, p)'
  BY <1>1
<1> QED
  BY <1>2, ProjectionsStay

-----------------------------------------------------------------------------
(* Page transactions.                                                      *)

(* The rows a page transaction keeps: all, or all but the open ones of     *)
(* earlier epochs.                                                         *)
KeptRows(t, p) ==
  /\ TableOK(t) /\ DOMAIN t = DOMAIN jobs
  /\ \A k \in DOMAIN jobs :
       \/ t[k] = jobs[k]
       \/ k.page = p /\ t[k].status = "superseded" /\ ~Over(jobs[k])

LEMMA SupersedingKeeps ==
  ASSUME TableInv, NEW p \in Pages
  PROVE  /\ KeptRows(Superseding(p), p)
         /\ \A k \in DOMAIN jobs : k.page = p => Over(Superseding(p)[k])
<1>1. page[p].epoch \in Nat
  BY PageFacts
<1>2. TableOK(Superseding(p)) /\ DOMAIN Superseding(p) = DOMAIN jobs
  BY StaleSupersededTable DEF TableInv, Superseding
<1>3. ASSUME NEW k \in DOMAIN jobs
      PROVE  /\ Superseding(p)[k] = jobs[k] \/ (/\ k.page = p /\ ~Over(jobs[k])
                                                /\ Superseding(p)[k].status = "superseded")
             /\ k.page = p => Over(Superseding(p)[k])
  <2>1. jobs[k].status \in Statuses /\ k.epoch \in Nat
    BY DEF TableInv, TableOK, IsTable, Job, Key
  <2>2. k.page = p => k.epoch < page[p].epoch + 1
    BY <1>1, <2>1 DEF TableInv, JobsOfThePast
  <2> QED
    BY <2>1, <2>2 DEF Superseding, StaleSuperseded, Released, Over, Statuses
<1> QED
  BY <1>2, <1>3 DEF KeptRows

LEMMA BumpKeeps ==
  ASSUME TableInv, MappingInv, ProjectionIsKept,
         NEW p \in Pages, NEW life \in {"active", "deleted"}, NEW rev \in Revs \cup {NoRev},
         NEW path \in Paths, NEW op \in Ops, NEW kept, NEW targets \in SUBSET Targets,
         Bump(p, life, rev, path, op, kept, targets),
         KeptRows(kept, p),
         op = "delete" => \A k \in DOMAIN jobs : k.page = p => Over(kept[k])
  PROVE  /\ TableInv' /\ MappingInv' /\ ProjectionIsKept'
         /\ DOMAIN jobs \subseteq DOMAIN jobs'
<1>1. /\ page \in [Pages -> Page] /\ page[p].epoch \in Nat /\ page[p].epoch < MaxEpoch
      /\ MaxEpoch \in Nat
  BY PageFacts, GBrainProjectionAssumption DEF Bump, TableInv
<1>2. PICK row : row = [life |-> life, rev |-> rev, path |-> path, epoch |-> page[p].epoch + 1,
                       asked |-> "gbrain" \in targets]
  OBVIOUS
<1>3. page' = [page EXCEPT ![p] = row] /\ mapping' = mapping
  BY <1>2 DEF Bump
<1>4. row \in Page /\ row.epoch = page[p].epoch + 1
  BY <1>1, <1>2 DEF Page
<1>5. /\ page' \in [Pages -> Page] /\ page'[p].epoch = page[p].epoch + 1
      /\ \A q \in Pages \ {p} : page'[q] = page[q]
  BY <1>1, <1>3, <1>4
<1>6. PICK K : K = StateKeys(targets, op, p, IF op = "delete" THEN NoRev ELSE rev,
                             page[p].epoch + 1)
  OBVIOUS
<1>7. jobs' = Enqueued(kept, K)
  BY <1>6 DEF Bump
<1>8. K \in SUBSET Key
  BY <1>1, <1>6, StateKeysAreKeys
<1>9. \A k \in K : k.op = op /\ k.page = p /\ k.epoch = page[p].epoch + 1
  BY <1>6 DEF StateKeys
<1>10. \A k, l \in K : op = "delete" /\ k.target = l.target => k = l
  BY <1>6 DEF StateKeys
<1>11. /\ TableOK(jobs') /\ DOMAIN jobs' = DOMAIN jobs \cup K
       /\ \A k \in DOMAIN jobs : jobs'[k] = kept[k]
       /\ \A k \in K \ DOMAIN jobs : jobs'[k].status = "pending"
  <2>1. /\ TableOK(jobs') /\ \A k \in DOMAIN kept : jobs'[k] = kept[k]
    BY <1>7, <1>8, EnqueuedTable DEF KeptRows
  <2>2. DOMAIN jobs' = DOMAIN kept \cup K
        /\ \A k \in K \ DOMAIN kept : jobs'[k].status = "pending"
    BY <1>7 DEF Enqueued, Fresh
  <2> QED
    BY <2>1, <2>2 DEF KeptRows
<1>12. \A k \in DOMAIN jobs : k \in Key /\ k.page \in Pages /\ k.epoch \in Nat
  BY DEF TableInv, TableOK, IsTable, Key
<1>13. \A k \in DOMAIN jobs : k.epoch <= page[k.page].epoch
  BY DEF TableInv, JobsOfThePast
<1>14. \A k \in K : k \notin DOMAIN jobs
  BY <1>1, <1>9, <1>13
<1>15. \A q \in Pages : page[q].epoch \in Nat /\ page[q].epoch <= page'[q].epoch
  BY <1>1, <1>5, PageFacts
<1>16. JobsOfThePast'
  <2> SUFFICES ASSUME NEW k \in DOMAIN jobs' PROVE k.epoch <= page'[k.page].epoch
    BY DEF JobsOfThePast
  <2>1. CASE k \in K
    BY <1>1, <1>5, <1>9, <2>1
  <2>2. CASE k \in DOMAIN jobs
    <3>1. /\ k.epoch \in Nat /\ page[k.page].epoch \in Nat /\ page'[k.page].epoch \in Nat
          /\ k.epoch <= page[k.page].epoch /\ page[k.page].epoch <= page'[k.page].epoch
      BY <1>1, <1>5, <1>12, <1>13, <1>15, <2>2
    <3> QED
      BY <3>1
  <2> QED
    BY <1>11, <2>1, <2>2
<1>17. OneOpenDelete'
  <2> SUFFICES ASSUME NEW k \in DOMAIN jobs', NEW l \in DOMAIN jobs',
                      k.op = "delete", l.op = "delete", k.page = l.page, k.target = l.target,
                      ~Over(jobs'[k]), ~Over(jobs'[l])
               PROVE  k = l
    BY DEF OneOpenDelete
  <2>1. \A j \in DOMAIN jobs : ~Over(jobs'[j]) => ~Over(jobs[j])
    BY <1>11 DEF KeptRows, Over
  <2>2. CASE k \in DOMAIN jobs /\ l \in DOMAIN jobs
    BY <2>1, <2>2 DEF TableInv, OneOpenDelete
  <2>3. CASE k \in K /\ l \in K
    BY <1>9, <1>10, <2>3
  <2>4. CASE op = "delete" /\ (k \in K \/ l \in K)
    BY <1>9, <1>10, <1>11, <2>4
  <2> QED
    BY <1>9, <1>11, <2>2, <2>3, <2>4
<1>18. MappingsOfThePast'
  <2> SUFFICES ASSUME NEW s \in Paths, mapping[s] # None
               PROVE  mapping[s].epoch <= page'[mapping[s].page].epoch
    BY <1>3 DEF MappingsOfThePast
  <2>1. mapping[s] \in Mapping /\ mapping[s].epoch <= page[mapping[s].page].epoch
    BY DEF MappingInv, MappingsOfThePast
  <2>2. mapping[s].page \in Pages /\ mapping[s].epoch \in Nat
    BY <2>1 DEF Mapping
  <2>3. /\ page[mapping[s].page].epoch \in Nat /\ page'[mapping[s].page].epoch \in Nat
        /\ page[mapping[s].page].epoch <= page'[mapping[s].page].epoch
    BY <1>1, <1>5, <1>15, <2>2
  <2> QED
    BY <2>1, <2>2, <2>3
<1>19. ProjectionIsKept'
  <2> SUFFICES ASSUME NEW q \in Pages, Active(q)'
               PROVE  \/ \E s \in Paths : MapsPresent(s, q)'
                      \/ \E k \in JobsOf(q)' : jobs'[k].status # "succeeded"
                      \/ Unrequested(q)'
    BY DEF ProjectionIsKept
  <2>1. CASE q = p /\ "gbrain" \in targets
    <3>1. PICK k \in K : k.target = "gbrain"
      <4>1. PICK k : k = [target |-> "gbrain", op |-> op, page |-> p,
                          rev |-> IF op = "delete" THEN NoRev ELSE rev,
                          epoch |-> page[p].epoch + 1]
        OBVIOUS
      <4>2. k \in K /\ k.target = "gbrain"
        BY <1>6, <2>1, <4>1 DEF StateKeys
      <4> QED
        BY <4>2
    <3>2. k \in JobsOf(p)'
      BY <1>5, <1>9, <1>11, <3>1 DEF JobsOf
    <3> QED
      BY <1>11, <1>14, <2>1, <3>2
  <2>2. CASE q = p /\ "gbrain" \notin targets
    <3>1. ~page'[p].asked
      <4>1. page'[p] = row
        BY <1>1, <1>3
      <4>2. ~row.asked
        BY <1>2, <2>2
      <4> QED
        BY <4>1, <4>2
    <3>2. \A k \in K : k.target # "gbrain"
      BY <1>6, <2>2 DEF StateKeys
    <3>3. ASSUME NEW k \in JobsOf(p)' PROVE FALSE
      <4>1. k \in DOMAIN jobs \cup K /\ k.target = "gbrain" /\ k.page = p
            /\ k.epoch = page[p].epoch + 1
        BY <1>5, <1>11, <3>3 DEF JobsOf
      <4>2. k \in DOMAIN jobs /\ k.epoch \in Nat /\ k.epoch <= page[p].epoch
        BY <1>12, <1>13, <3>2, <4>1
      <4> QED
        BY <1>1, <4>1, <4>2
    <3> QED
      BY <2>2, <3>1, <3>3 DEF Unrequested
  <2>3. CASE q # p
    <3>1. page'[q] = page[q] /\ Active(q)
      BY <1>5, <2>3 DEF Active
    <3>2. \A s \in Paths : MapsPresent(s, q) => MapsPresent(s, q)'
      BY <1>3, <3>1 DEF MapsPresent, Active
    <3>3. \A k \in JobsOf(q) : k \in JobsOf(q)' /\ jobs'[k] = jobs[k]
      BY <1>11, <2>3, <3>1 DEF JobsOf, KeptRows
    <3>4. JobsOf(q) = {} => JobsOf(q)' = {}
      BY <1>9, <1>11, <2>3, <3>1 DEF JobsOf
    <3> QED
      BY <3>1, <3>2, <3>3, <3>4 DEF ProjectionIsKept, Unrequested
  <2> QED
    BY <2>1, <2>2, <2>3
<1> QED
  BY <1>3, <1>5, <1>11, <1>16, <1>17, <1>18, <1>19
  DEF TableInv, MappingInv, MappingsAgree

LEMMA ToolStays ==
  ASSUME ToolInv, UNCHANGED <<file, toolVars>>
  PROVE  ToolInv'
<1>1. UNCHANGED <<file, brain, inbox, serving, stored>>
  BY DEF toolVars
<1> QED
  BY <1>1 DEF ToolInv, ToolTypeOK, ImportedNow, Tool!Hash

LEMMA PageTransactionKeeps ==
  ASSUME IInv,
         NEW p \in Pages, NEW life \in {"active", "deleted"}, NEW rev \in Revs \cup {NoRev},
         NEW path \in Paths, NEW op \in Ops, NEW kept, NEW targets \in SUBSET Targets,
         Bump(p, life, rev, path, op, kept, targets),
         KeptRows(kept, p),
         op = "delete" => \A k \in DOMAIN jobs : k.page = p => Over(kept[k])
  PROVE  IInv'
<1>1. TableInv' /\ MappingInv' /\ ProjectionIsKept' /\ DOMAIN jobs \subseteq DOMAIN jobs'
  BY BumpKeeps DEF IInv
<1>2. UNCHANGED <<guarded, batches, work, file, toolVars, changes, faults>>
  BY DEF Bump
<1>3. RunInv'
  BY <1>1, <1>2, RunsStay DEF IInv
<1>4. ToolInv'
  BY <1>2, ToolStays DEF IInv
<1> QED
  BY <1>1, <1>2, <1>3, <1>4 DEF IInv, CountInv

LEMMA OwnerHasFile ==
  ASSUME ToolInv, NEW q \in Paths, NEW p \in Pages, OwnerAt(q) = p
  PROVE  file[q] \in Bytes /\ file[q].page = p
<1>1. p # NoPage
  BY GBrainProjectionAssumption DEF NoPage
<1>2. file[q] # None
  BY <1>1 DEF OwnerAt
<1> QED
  BY <1>2 DEF ToolInv, ToolTypeOK, OwnerAt

LEMMA FinalizeKeeps ==
  ASSUME IInv, NEW p \in Pages, Finalize(p)
  PROVE  IInv'
<1>1. page[p].path \in Paths /\ page[p].rev \in Revs \cup {NoRev}
  BY PageFacts DEF IInv
<1>2. file[page[p].path] \in Bytes
  BY <1>1, OwnerHasFile DEF IInv, Finalize
<1>3. file[page[p].path].rev \in Revs \cup {NoRev}
  BY <1>2 DEF Bytes
<1>4. PICK targets \in SUBSET Targets :
        Bump(p, "active", file[page[p].path].rev, page[p].path, "upsert", jobs, targets)
  BY DEF Finalize, FinalizeTargets
<1>5. KeptRows(jobs, p)
  BY DEF KeptRows, IInv, TableInv
<1> QED
  BY <1>1, <1>3, <1>4, <1>5, PageTransactionKeeps DEF Ops

LEMMA DeletePageKeeps ==
  ASSUME IInv, NEW p \in Pages, DeletePage(p)
  PROVE  IInv'
<1>1. page[p].path \in Paths /\ page[p].rev \in Revs \cup {NoRev}
  BY PageFacts DEF IInv
<1>2. /\ KeptRows(Superseding(p), p)
      /\ \A k \in DOMAIN jobs : k.page = p => Over(Superseding(p)[k])
  BY SupersedingKeeps DEF IInv
<1>3. Bump(p, "deleted", page[p].rev, page[p].path, "delete", Superseding(p), Targets)
  BY DEF DeletePage
<1> QED
  BY <1>1, <1>2, <1>3, PageTransactionKeeps DEF Ops

LEMMA RenamePageKeeps ==
  ASSUME IInv, NEW p \in Pages, NEW q \in Paths, RenamePage(p, q)
  PROVE  IInv'
<1>1. page[p].rev \in Revs \cup {NoRev} /\ page[p].life \in {"active", "deleted"}
  BY PageFacts DEF IInv, Page
<1>2. KeptRows(Superseding(p), p)
  BY SupersedingKeeps DEF IInv
<1>3. Bump(p, page[p].life, page[p].rev, q, "rename", Superseding(p), Targets)
  BY DEF RenamePage
<1> QED
  BY <1>1, <1>2, <1>3, PageTransactionKeeps DEF Ops

(* Files.                                                                  *)
LEMMA FileChangeKeeps ==
  ASSUME IInv, FileChange, file' \in [Paths -> Bytes \cup {None}]
  PROVE  IInv'
<1>1. UNCHANGED <<jobs, mapping, guarded, batches, page, work, faults, brain, inbox,
                  serving, stored>>
  BY DEF FileChange, Change, tableVars, toolVars
<1>2. GoesOn(jobs') /\ SucceedsOnly(jobs', {})
  BY <1>1, SameTable DEF IInv
<1>3. TableInv' /\ ProjectionIsKept'
  BY <1>1, <1>2, TableStays, ProjectionsUndisturbed DEF IInv
<1>4. MappingInv' /\ RunInv'
  BY <1>1, MappingsStay, RunsStay DEF IInv
<1>5. ToolInv'
  BY <1>1 DEF IInv, ToolInv, ToolTypeOK, ImportedNow, Tool!Hash
<1>6. CountInv'
  <2>1. /\ MaxChanges \in Nat /\ changes \in 0 .. MaxChanges
        /\ changes < MaxChanges /\ changes' = changes + 1
    BY GBrainProjectionAssumption DEF IInv, CountInv, FileChange, Change
  <2>2. changes' \in 0 .. MaxChanges
    BY <2>1
  <2> QED
    BY <1>1, <2>2 DEF IInv, CountInv
<1> QED
  BY <1>3, <1>4, <1>5, <1>6 DEF IInv

LEMMA WikiKeeps ==
  ASSUME IInv, Wiki
  PROVE  IInv'
<1>1. ASSUME NEW p \in Pages, NEW r \in Revs, Install(p, r)
      PROVE  IInv'
  <2>1. PICK bytes : bytes = [page |-> p, rev |-> r]
    OBVIOUS
  <2>2. bytes \in Bytes /\ file' = [file EXCEPT ![page[p].path] = bytes] /\ FileChange
    BY <1>1, <2>1 DEF Bytes, Install
  <2> QED
    BY <2>2, FileChangeKeeps DEF IInv, ToolInv, ToolTypeOK
<1>2. ASSUME NEW p \in Pages, RemoveFile(p)
      PROVE  IInv'
  BY <1>2, FileChangeKeeps DEF IInv, ToolInv, ToolTypeOK, RemoveFile
<1>3. ASSUME NEW p \in Pages, NEW q \in Paths, MoveFile(p, q)
      PROVE  IInv'
  <2>1. page[p].path \in Paths
    BY PageFacts DEF IInv
  <2>2. PICK moved : moved = file[page[p].path]
    OBVIOUS
  <2>3. moved \in Bytes \cup {None}
    BY <2>1, <2>2 DEF IInv, ToolInv, ToolTypeOK
  <2>4. file' = [file EXCEPT ![q] = moved, ![page[p].path] = None] /\ FileChange
    BY <1>3, <2>2 DEF MoveFile
  <2> QED
    BY <2>3, <2>4, FileChangeKeeps DEF IInv, ToolInv, ToolTypeOK
<1> QED
  BY <1>1, <1>2, <1>3, FinalizeKeeps, DeletePageKeeps, RenamePageKeeps DEF Wiki

-----------------------------------------------------------------------------
(* The steps of a worker: its run changes, and at most the batch it holds. *)
LEMMA RunChanges ==
  ASSUME RunInv, DOMAIN jobs \subseteq DOMAIN jobs', batches' = batches,
         guarded' \subseteq Protection,
         NEW w \in Workers, NEW run, work' = [work EXCEPT ![w] = run],
         run \in RunRow', RunOK(run), AllAgree(run.results), OfGBrain(run.claims),
         Closes(w, run)
  PROVE  RunInv'
<1>1. BatchRow \subseteq BatchRow' /\ RunRow \subseteq RunRow'
  BY RowsGrow
<1>2. batches' \in Seq(BatchRow')
  BY <1>1, SeqMonotonic DEF RunInv
<1>3. work \in [Workers -> RunRow]
  BY DEF RunInv
<1>4. work' \in [Workers -> RunRow']
  BY <1>1, <1>3
<1>5. work'[w] = run /\ \A v \in Workers \ {w} : work'[v] = work[v]
  BY <1>3
<1>6. \A v \in Workers : /\ RunOK(work'[v]) /\ AllAgree(work'[v].results)
                         /\ Closes(v, work'[v]) /\ OfGBrain(work'[v].claims)
  BY <1>5 DEF RunInv, MembersOfGBrain
<1> QED
  BY <1>2, <1>4, <1>6 DEF RunInv, MembersOfGBrain, Closes

LEMMA BatchChanges ==
  ASSUME RunInv, DOMAIN jobs \subseteq DOMAIN jobs', guarded' = guarded,
         NEW w \in Workers, NEW run, work' = [work EXCEPT ![w] = run],
         run \in RunRow, RunOK(run), AllAgree(run.results), OfGBrain(run.claims),
         run.step # "close",
         NEW b \in DOMAIN batches, NEW row, batches' = [batches EXCEPT ![b] = row],
         row \in BatchRow, BatchOK(row), OfGBrain(row.members), row.owner = w
  PROVE  RunInv'
<1>1. batches \in Seq(BatchRow) /\ work \in [Workers -> RunRow]
  BY DEF RunInv
<1>2. b \in 1 .. Len(batches)
  BY <1>1
<1>3. /\ batches' \in Seq(BatchRow) /\ DOMAIN batches' = DOMAIN batches
      /\ batches'[b] = row /\ \A c \in DOMAIN batches \ {b} : batches'[c] = batches[c]
  BY <1>1, <1>2, ExceptSeq
<1>4. BatchRow \subseteq BatchRow' /\ RunRow \subseteq RunRow'
  BY <1>3, RowsGrow
<1>5. batches' \in Seq(BatchRow')
  BY <1>3, <1>4, SeqMonotonic
<1>6. work' \in [Workers -> RunRow']
  BY <1>1, <1>4
<1>7. work'[w] = run /\ \A v \in Workers \ {w} : work'[v] = work[v]
  BY <1>1
<1>8. \A v \in Workers : /\ RunOK(work'[v]) /\ AllAgree(work'[v].results)
                         /\ OfGBrain(work'[v].claims)
  BY <1>7 DEF RunInv, MembersOfGBrain
<1>9. ASSUME NEW v \in Workers
      PROVE  Closes(v, work[v])'
  <2>1. CASE v = w
    BY <1>7, <2>1 DEF Closes
  <2>2. CASE v # w /\ work[v].batch = b
    BY <1>3, <1>7, <2>2 DEF Closes
  <2>3. CASE v # w /\ work[v].batch # b /\ work[v].step = "close"
    <3>1. work[v].batch \in DOMAIN batches
      <4>1. RunOK(work[v]) /\ work[v] \in RunRow
        BY <1>1 DEF RunInv
      <4> QED
        BY <2>3, <4>1 DEF RunOK, RunRow
    <3> QED
      BY <1>3, <1>7, <2>3, <3>1 DEF RunInv, Closes
  <2>4. CASE v # w /\ work[v].step # "close"
    BY <1>7, <2>4 DEF Closes
  <2> QED
    BY <2>1, <2>2, <2>3, <2>4
<1>10. \A c \in DOMAIN batches' : BatchOK(batches'[c]) /\ OfGBrain(batches'[c].members)
  BY <1>3 DEF RunInv, MembersOfGBrain
<1> QED
  BY <1>5, <1>6, <1>8, <1>9, <1>10 DEF RunInv, MembersOfGBrain

LEMMA IdleRun ==
  ASSUME NEW w
  PROVE  /\ Idle \in RunRow /\ RunOK(Idle) /\ AllAgree(Idle.results)
         /\ OfGBrain(Idle.claims) /\ Closes(w, Idle) /\ Idle.step = "idle"
  BY DEF Idle, RunRow, RunOK, AllAgree, OfGBrain, Closes, Steps

LEMMA RunFacts ==
  ASSUME RunInv, NEW w \in Workers
  PROVE  /\ work[w] \in RunRow /\ RunOK(work[w]) /\ AllAgree(work[w].results)
         /\ OfGBrain(work[w].claims)
         /\ work[w].step \notin {"idle", "build"} =>
              /\ work[w].batch \in DOMAIN batches /\ Batch(w) \in BatchRow
              /\ BatchOK(Batch(w)) /\ OfGBrain(Batch(w).members)
<1>1. work[w] \in RunRow /\ RunOK(work[w]) /\ batches \in Seq(BatchRow)
  BY DEF RunInv
<1>2. ASSUME work[w].step \notin {"idle", "build"}
      PROVE  work[w].batch \in DOMAIN batches
  BY <1>1, <1>2 DEF RunRow, RunOK
<1>3. \A b \in DOMAIN batches : batches[b] \in BatchRow
  BY <1>1
<1> QED
  BY <1>1, <1>2, <1>3 DEF RunInv, MembersOfGBrain, Batch

(* A transaction of a worker that keeps page and mapping.                  *)
LEMMA TableTransaction ==
  ASSUME IInv, GoesOn(jobs'), SucceedsOnly(jobs', {}), UNCHANGED <<page, mapping>>
  PROVE  /\ TableInv' /\ MappingInv' /\ ProjectionIsKept'
         /\ DOMAIN jobs \subseteq DOMAIN jobs'
  BY TableStays, MappingsStay, ProjectionsUndisturbed DEF IInv, GoesOn

LEMMA AbandonKeeps ==
  ASSUME IInv, NEW w \in Workers, Abandon(w),
         UNCHANGED <<page, file, toolVars, changes>>, faults' \in 0 .. MaxFaults
  PROVE  IInv'
<1>1. UNCHANGED <<jobs, mapping, guarded, batches>> /\ work' = [work EXCEPT ![w] = Idle]
  BY DEF Abandon, tableVars
<1>2. GoesOn(jobs') /\ SucceedsOnly(jobs', {})
  BY <1>1, SameTable DEF IInv
<1>3. TableInv' /\ MappingInv' /\ ProjectionIsKept'
  BY <1>1, <1>2, TableTransaction
<1>4. RunRow' = RunRow
  BY <1>1 DEF RunRow
<1>5. RunInv'
  BY <1>1, <1>4, IdleRun, RunChanges DEF IInv, RunInv
<1>6. ToolInv'
  BY ToolStays DEF IInv
<1> QED
  BY <1>3, <1>5, <1>6 DEF IInv, CountInv

LEMMA OutsideStays ==
  ASSUME IInv, UNCHANGED <<file, toolVars, changes>>, faults' \in 0 .. MaxFaults
  PROVE  ToolInv' /\ CountInv'
  BY ToolStays DEF IInv, CountInv

LEMMA SameFaults ==
  ASSUME IInv, UNCHANGED faults
  PROVE  faults' \in 0 .. MaxFaults
  BY DEF IInv, CountInv

LEMMA ClaimKeeps ==
  ASSUME IInv, NEW w \in Workers, Claim(w)
  PROVE  IInv'
<1>1. UNCHANGED <<mapping, guarded, batches, page, file, changes, faults, toolVars>>
  BY DEF Claim, wikiVars
<1>2. PICK B \in Batches(ExpiredOut(jobs, "gbrain"), "gbrain", ClaimLimit) :
        /\ jobs' = Claimed(ExpiredOut(jobs, "gbrain"), B, w)
        /\ work' = IF B = {} THEN work
                   ELSE [work EXCEPT ![w] = [Idle EXCEPT !.step = "build", !.claims = B]]
  BY DEF Claim
<1>3. /\ GoesOn(jobs') /\ SucceedsOnly(jobs', {}) /\ DOMAIN jobs' = DOMAIN jobs
      /\ B \subseteq DOMAIN jobs /\ OfGBrain(B)
  BY <1>2, ClaimedGoesOn DEF IInv
<1>4. TableInv' /\ MappingInv' /\ ProjectionIsKept'
  BY <1>1, <1>3, TableTransaction
<1>5. RunInv'
  <2>1. CASE B = {}
    BY <1>1, <1>2, <1>3, <2>1, RunsStay DEF IInv
  <2>2. CASE B # {}
    <3>1. PICK run : run = [Idle EXCEPT !.step = "build", !.claims = B]
      OBVIOUS
    <3>2. work' = [work EXCEPT ![w] = run]
      BY <1>2, <2>2, <3>1
    <3>3. /\ run \in RunRow' /\ RunOK(run) /\ AllAgree(run.results)
          /\ OfGBrain(run.claims) /\ Closes(w, run)
      BY <1>1, <1>3, <3>1 DEF Idle, RunRow, RunOK, AllAgree, Closes, Steps
    <3> QED
      BY <1>1, <1>3, <3>2, <3>3, RunChanges DEF IInv, RunInv
  <2> QED
    BY <2>1, <2>2
<1>6. ToolInv' /\ CountInv'
  BY <1>1, SameFaults, OutsideStays
<1> QED
  BY <1>4, <1>5, <1>6 DEF IInv

LEMMA ReopenedSegments ==
  ASSUME NEW segs \in Seq(Segment)
  PROVE  Reopened(segs) \in Seq(Segment)
<1>1. DOMAIN segs = 1 .. Len(segs) /\ Len(segs) \in Nat
  OBVIOUS
<1>2. \A i \in DOMAIN segs : segs[i] \in Segment
  OBVIOUS
<1>3. \A i \in DOMAIN segs : Reopened(segs)[i] \in Segment
  BY <1>2 DEF Reopened, Segment
<1>4. Reopened(segs) = [i \in 1 .. Len(segs) |-> Reopened(segs)[i]]
  BY <1>1 DEF Reopened
<1>5. Reopened(segs) \in [1 .. Len(segs) -> Segment]
  BY <1>1, <1>3, <1>4
<1> QED
  BY <1>1, <1>5, SeqDef

LEMMA GuardedPathsArePaths ==
  ASSUME RunInv
  PROVE  GuardedPaths \subseteq Paths
  BY DEF RunInv, GuardedPaths, Protection

LEMMA ResumeKeeps ==
  ASSUME IInv, NEW w \in Workers, Resume(w)
  PROVE  IInv'
<1>1. UNCHANGED <<page, file, changes, faults, toolVars>> /\ work[w].step = "build"
  BY DEF Resume, wikiVars
<1>2. CASE Abandon(w)
  BY <1>1, <1>2, SameFaults, AbandonKeeps
<1>3. CASE ~Abandon(w)
  <2>1. PICK b \in DOMAIN batches :
          /\ batches' = [batches EXCEPT ![b].status = "running", ![b].owner = w,
                                        ![b].segs = Reopened(@)]
          /\ work' = [work EXCEPT ![w].step = "send", ![w].batch = b,
                                  ![w].known = batches[b].guarded \cup GuardedPaths]
          /\ UNCHANGED <<jobs, mapping, guarded>>
    BY <1>3 DEF Resume, Unfinished
  <2>2. /\ batches \in Seq(BatchRow) /\ batches[b] \in BatchRow /\ work \in [Workers -> RunRow]
        /\ OfGBrain(batches[b].members)
    BY DEF IInv, RunInv, MembersOfGBrain
  <2>3. PICK row : row = [batches[b] EXCEPT !.status = "running", !.owner = w,
                                            !.segs = Reopened(batches[b].segs)]
    OBVIOUS
  <2>4. row \in BatchRow /\ BatchOK(row) /\ row.members = batches[b].members /\ row.owner = w
    BY <2>2, <2>3, ReopenedSegments DEF BatchRow, BatchOK
  <2>5. batches' = [batches EXCEPT ![b] = row]
    BY <2>1, <2>2, <2>3 DEF BatchRow
  <2>6. PICK run : run = [work[w] EXCEPT !.step = "send", !.batch = b,
                                         !.known = batches[b].guarded \cup GuardedPaths]
    OBVIOUS
  <2>7. work' = [work EXCEPT ![w] = run]
    BY <2>1, <2>2, <2>6 DEF RunRow
  <2>8. /\ run \in RunRow /\ RunOK(run) /\ run.results = work[w].results
        /\ run.claims = work[w].claims /\ run.step = "send"
    <3>1. work[w] \in RunRow /\ RunOK(work[w])
      BY RunFacts DEF IInv
    <3>2. batches[b].guarded \cup GuardedPaths \subseteq Paths
      BY <2>2, GuardedPathsArePaths DEF BatchRow, IInv
    <3>3. b # 0
      BY <2>2
    <3> QED
      BY <1>1, <2>6, <3>1, <3>2, <3>3 DEF RunRow, RunOK, Steps
  <2>9. AllAgree(run.results) /\ OfGBrain(run.claims)
    BY <2>8, RunFacts DEF IInv
  <2>10. GoesOn(jobs') /\ SucceedsOnly(jobs', {}) /\ DOMAIN jobs' = DOMAIN jobs
    BY <2>1, SameTable DEF IInv
  <2>11. RunInv'
    BY <2>1, <2>2, <2>4, <2>5, <2>7, <2>8, <2>9, <2>10, BatchChanges DEF IInv
  <2>12. TableInv' /\ MappingInv' /\ ProjectionIsKept'
    BY <1>1, <2>1, <2>10, TableTransaction
  <2>13. ToolInv' /\ CountInv'
    BY <1>1, SameFaults, OutsideStays
  <2> QED
    BY <2>11, <2>12, <2>13 DEF IInv
<1> QED
  BY <1>2, <1>3

LEMMA ClaimsFailedKeeps ==
  ASSUME IInv, NEW w \in Workers, jobs' = ClaimsFailed(w), UNCHANGED <<page, mapping>>
  PROVE  /\ TableInv' /\ MappingInv' /\ ProjectionIsKept' /\ DOMAIN jobs' = DOMAIN jobs
  BY ClaimsFailedGoesOn, TableTransaction DEF IInv

LEMMA RefuseClaimsKeeps ==
  ASSUME IInv, NEW w \in Workers, RefuseClaims(w)
  PROVE  IInv'
<1>1. /\ UNCHANGED <<mapping, guarded, batches, page, file, changes, faults, toolVars>>
      /\ jobs' = ClaimsFailed(w) /\ work' = [work EXCEPT ![w] = Idle]
  BY DEF RefuseClaims, wikiVars
<1>2. TableInv' /\ MappingInv' /\ ProjectionIsKept' /\ DOMAIN jobs' = DOMAIN jobs
  BY <1>1, ClaimsFailedKeeps
<1>3. RunRow' = RunRow
  BY <1>1, <1>2 DEF RunRow
<1>4. RunInv'
  BY <1>1, <1>2, <1>3, IdleRun, RunChanges DEF IInv, RunInv
<1>5. ToolInv' /\ CountInv'
  BY <1>1, SameFaults, OutsideStays
<1> QED
  BY <1>2, <1>4, <1>5 DEF IInv

(* create_batch                                                            *)
LEMMA BatchAdded ==
  ASSUME RunInv, DOMAIN jobs \subseteq DOMAIN jobs', guarded' = guarded,
         NEW row, batches' = Append(batches, row),
         row \in BatchRow', BatchOK(row), OfGBrain(row.members),
         NEW w \in Workers, NEW run, work' = [work EXCEPT ![w] = run],
         run \in RunRow', RunOK(run), AllAgree(run.results), OfGBrain(run.claims),
         run.step # "close"
  PROVE  RunInv'
<1>1. batches \in Seq(BatchRow) /\ work \in [Workers -> RunRow]
  BY DEF RunInv
<1>2. PICK n \in Nat : n = Len(batches) /\ DOMAIN batches = 1 .. n
  BY <1>1
<1>3. DOMAIN batches' = 1 .. n + 1 /\ batches'[n + 1] = row
      /\ \A b \in DOMAIN batches : batches'[b] = batches[b]
  BY <1>1, <1>2
<1>4. DOMAIN batches \subseteq DOMAIN batches'
  BY <1>2, <1>3
<1>5. BatchRow \subseteq BatchRow' /\ RunRow \subseteq RunRow'
  BY <1>4, RowsGrow
<1>6. batches' \in Seq(BatchRow')
  <2>1. batches \in Seq(BatchRow')
    BY <1>1, <1>5, SeqMonotonic
  <2> QED
    BY <2>1
<1>7. work' \in [Workers -> RunRow'] /\ work'[w] = run
      /\ \A v \in Workers \ {w} : work'[v] = work[v]
  BY <1>1, <1>5
<1>8. \A v \in Workers : /\ RunOK(work'[v]) /\ AllAgree(work'[v].results)
                         /\ OfGBrain(work'[v].claims)
  BY <1>7 DEF RunInv, MembersOfGBrain
<1>9. ASSUME NEW v \in Workers
      PROVE  Closes(v, work[v])'
  <2>1. CASE work'[v].step # "close"
    BY <2>1 DEF Closes
  <2>2. CASE work'[v].step = "close"
    <3>1. v # w /\ work'[v] = work[v] /\ work[v].step = "close"
      BY <1>7, <2>2
    <3>2. work[v] \in RunRow /\ RunOK(work[v]) /\ Closes(v, work[v])
      BY <1>1 DEF RunInv
    <3>3. work[v].batch \in DOMAIN batches
      BY <3>1, <3>2 DEF RunOK, RunRow
    <3> QED
      BY <1>3, <3>1, <3>2, <3>3 DEF Closes
  <2> QED
    BY <2>1, <2>2
<1>10. \A c \in DOMAIN batches' : BatchOK(batches'[c]) /\ OfGBrain(batches'[c].members)
  BY <1>2, <1>3 DEF RunInv, MembersOfGBrain
<1> QED
  BY <1>6, <1>7, <1>8, <1>9, <1>10 DEF RunInv, MembersOfGBrain

LEMMA SegmentsAreSegments ==
  ASSUME NEW mode \in {"incremental", "reconcile"},
         NEW expected \in SUBSET Expected, IsFiniteSet(expected)
  PROVE  Segments(mode, expected) \in Seq(Segment)
<1> DEFINE count == (Cardinality(expected) + SegmentSize - 1) \div SegmentSize
           last == IF mode = "reconcile" /\ count = 0 THEN 1 ELSE count
           segs == Segments(mode, expected)
<1>1. count \in Nat
  <2>1. Cardinality(expected) \in Nat
    BY FS_CardinalityType
  <2>2. SegmentSize \in Nat \ {0}
    BY GBrainProjectionAssumption
  <2> QED
    BY <2>1, <2>2
<1>2. last \in Nat
  BY <1>1
<1>3. DOMAIN segs = 1 .. last /\ segs = [i \in 1 .. last |-> segs[i]]
  BY DEF Segments
<1>4. \A i \in 1 .. last : segs[i] \in Segment
  BY DEF Segments, Segment
<1> HIDE DEF last, segs
<1>5. segs \in [1 .. last -> Segment]
  BY <1>3, <1>4
<1> QED
  BY <1>2, <1>5, SeqDef DEF segs

LEMMA WantedIsExpected ==
  ASSUME TableInv, NEW p \in Pages, Active(p)
  PROVE  Wanted(p) \in Expected
  BY PageFacts DEF Wanted, Expected

LEMMA WantedAreFinite ==
  ASSUME NEW P \in SUBSET Pages
  PROVE  IsFiniteSet({Wanted(p) : p \in P})
<1>1. IsFiniteSet(P)
  BY GBrainProjectionAssumption, FS_Subset
<1> DEFINE f == [p \in P |-> Wanted(p)]
<1>2. f \in Surjection(P, {Wanted(p) : p \in P})
  BY DEF Surjection
<1> QED
  BY <1>1, <1>2, FS_Surjection

LEMMA CreateKeeps ==
  ASSUME IInv, NEW w \in Workers, Create(w)
  PROVE  IInv'
<1>1. UNCHANGED <<page, file, changes, faults, toolVars>> /\ work[w].step = "build"
  BY DEF Create, wikiVars
<1>2. CASE Abandon(w)
  BY <1>1, <1>2, SameFaults, AbandonKeeps
<1>3. CASE ~Abandon(w)
  <2>1. PICK B : B = work[w].claims
    OBVIOUS
  <2>2. PICK stale : stale = Stale(B)
    OBVIOUS
  <2>3. PICK mode : mode = IF \E k \in B : k.op # "upsert" THEN "reconcile" ELSE "incremental"
    OBVIOUS
  <2>4. PICK expected :
          expected = IF mode = "reconcile" THEN {Wanted(p) : p \in {q \in Pages : Active(q)}}
                     ELSE {Wanted(k.page) : k \in B \ stale}
    OBVIOUS
  <2>5. /\ OwnsAll(w, B) /\ jobs' = Requeued(jobs, stale) /\ UNCHANGED <<mapping, guarded>>
        /\ \/ work' = [work EXCEPT ![w] = Idle] /\ UNCHANGED batches
           \/ /\ batches' = Append(batches,
                   [status |-> "running", owner |-> w, members |-> B \ stale,
                    segs |-> Segments(mode, expected),
                    mapping |-> mapping, guarded |-> GuardedPaths])
              /\ work' = [work EXCEPT ![w].step = "send", ![w].batch = Len(batches) + 1,
                                      ![w].known = GuardedPaths]
    BY <1>3, <2>1, <2>2, <2>3, <2>4 DEF Create
  <2>6. \A k \in B : k \in DOMAIN jobs /\ jobs[k].status = "running"
    BY <2>5 DEF OwnsAll, Owns
  <2>7. Working(stale)
    BY <2>2, <2>6 DEF Working, Stale
  <2>8. /\ GoesOn(jobs') /\ SucceedsOnly(jobs', {}) /\ DOMAIN jobs \subseteq DOMAIN jobs'
    BY <2>5, <2>7, RequeuedGoesOn DEF GoesOn, IInv
  <2>9. TableInv' /\ MappingInv' /\ ProjectionIsKept'
    BY <1>1, <2>5, <2>8, TableTransaction
  <2>10. ToolInv' /\ CountInv'
    BY <1>1, SameFaults, OutsideStays
  <2>11. CASE work' = [work EXCEPT ![w] = Idle] /\ UNCHANGED batches
    <3>1. Idle \in RunRow'
      BY DEF Idle, RunRow, Steps
    <3>2. RunInv'
      BY <2>5, <2>8, <2>11, <3>1, IdleRun, RunChanges DEF IInv, RunInv
    <3> QED
      BY <2>9, <2>10, <3>2 DEF IInv
  <2>12. CASE ~(work' = [work EXCEPT ![w] = Idle] /\ UNCHANGED batches)
    <3>1. PICK row : row = [status |-> "running", owner |-> w, members |-> B \ stale,
                            segs |-> Segments(mode, expected),
                            mapping |-> mapping, guarded |-> GuardedPaths]
      OBVIOUS
    <3>2. PICK run : run = [work[w] EXCEPT !.step = "send", !.batch = Len(batches) + 1,
                                           !.known = GuardedPaths]
      OBVIOUS
    <3>3. expected \in SUBSET Expected /\ IsFiniteSet(expected)
      <4>1. PICK P : P = IF mode = "reconcile" THEN {q \in Pages : Active(q)}
                         ELSE {k.page : k \in B \ stale}
        OBVIOUS
      <4>2. expected = {Wanted(p) : p \in P}
        BY <2>4, <4>1
      <4>3. ASSUME mode # "reconcile", NEW k \in B \ stale
            PROVE  k.page \in Pages /\ Active(k.page)
        <5>1. k.op = "upsert" /\ ~(k.op # "delete" /\ ~MatchesJob(k))
          BY <2>2, <2>3, <4>3 DEF Stale
        <5>2. k \in Key
          BY <2>6 DEF IInv, TableInv, TableOK, IsTable
        <5> QED
          BY <5>1, <5>2 DEF MatchesJob, Key
      <4>4. P \in SUBSET Pages /\ \A p \in P : Active(p)
        BY <4>1, <4>3
      <4> QED
        BY <4>2, <4>4, WantedIsExpected, WantedAreFinite DEF IInv
    <3>4. Segments(mode, expected) \in Seq(Segment)
      BY <2>3, <3>3, SegmentsAreSegments
    <3>5. GuardedPaths \subseteq Paths /\ mapping \in [Paths -> Mapping \cup {None}]
      BY GuardedPathsArePaths DEF IInv, MappingInv
    <3>6. B \ stale \subseteq DOMAIN jobs'
      BY <2>6, <2>8
    <3>7. row \in BatchRow' /\ BatchOK(row) /\ row.members = B \ stale
      BY <3>1, <3>4, <3>5, <3>6 DEF BatchRow, BatchOK
    <3>8. work[w] \in RunRow /\ RunOK(work[w]) /\ AllAgree(work[w].results) /\ OfGBrain(B)
      BY <2>1, RunFacts DEF IInv
    <3>9. batches' = Append(batches, row) /\ work' = [work EXCEPT ![w] = run]
      <4>1. work \in [Workers -> RunRow]
        BY DEF IInv, RunInv
      <4> QED
        BY <2>5, <2>12, <3>1, <3>2, <4>1 DEF RunRow
    <3>10. Len(batches) + 1 \in DOMAIN batches' /\ Len(batches) + 1 # 0
           /\ DOMAIN batches \subseteq DOMAIN batches'
      <4>1. batches \in Seq(BatchRow)
        BY DEF IInv, RunInv
      <4> QED
        BY <3>9, <4>1
    <3>11. /\ run \in RunRow' /\ RunOK(run) /\ run.results = work[w].results
           /\ run.claims = B /\ run.step = "send"
      <4>1. work[w] \in RunRow'
        BY <2>8, <3>8, <3>10, RowsGrow
      <4> QED
        BY <1>1, <2>1, <3>2, <3>5, <3>8, <3>10, <4>1 DEF RunRow, RunOK, Steps
    <3>12. RunInv'
      BY <2>5, <2>8, <3>7, <3>8, <3>9, <3>11, BatchAdded DEF IInv, OfGBrain
    <3> QED
      BY <2>9, <2>10, <3>12 DEF IInv
  <2> QED
    BY <2>11, <2>12
<1> QED
  BY <1>2, <1>3

-----------------------------------------------------------------------------
(* execute_batch                                                           *)
LEMMA SegmentsFacts ==
  ASSUME RunInv, NEW w \in Workers, work[w].step \notin {"idle", "build"}
  PROVE  /\ Batch(w) \in BatchRow /\ Batch(w).segs \in Seq(Segment)
         /\ \A i \in DOMAIN Batch(w).segs : i \in Nat /\ Batch(w).segs[i] \in Segment
<1>1. Batch(w) \in BatchRow
  BY RunFacts
<1>2. Batch(w).segs \in Seq(Segment)
  BY <1>1 DEF BatchRow
<1> QED
  BY <1>1, <1>2

(* A transaction that gives one segment of the batch held another status.  *)
SegmentsSet(batch, i, status) ==
  [batch.segs EXCEPT ![i] = [batch.segs[i] EXCEPT !.status = status]]
BatchSet(batch, i, status, now) ==
  [batch EXCEPT !.segs = SegmentsSet(batch, i, status), !.status = now]

LEMMA SegmentStatus ==
  ASSUME RunInv, NEW w \in Workers, work[w].step \notin {"idle", "build"},
         NEW i, NEW status \in {"pending", "running", "failed", "succeeded"},
         NEW now \in {"running", "failed"}
  PROVE  /\ BatchSet(Batch(w), i, status, now) \in BatchRow
         /\ BatchOK(BatchSet(Batch(w), i, status, now))
         /\ BatchSet(Batch(w), i, status, now).members = Batch(w).members
         /\ BatchSet(Batch(w), i, status, now).owner = Batch(w).owner
<1>1. /\ Batch(w) \in BatchRow /\ Batch(w).segs \in Seq(Segment)
      /\ \A j \in DOMAIN Batch(w).segs : j \in Nat /\ Batch(w).segs[j] \in Segment
  BY SegmentsFacts
<1>2. PICK segs : segs = SegmentsSet(Batch(w), i, status)
  OBVIOUS
<1>3. segs \in Seq(Segment)
  <2>1. PICK seg : seg = [Batch(w).segs[i] EXCEPT !.status = status]
    OBVIOUS
  <2>2. segs = [Batch(w).segs EXCEPT ![i] = seg]
    BY <1>2, <2>1 DEF SegmentsSet
  <2>3. CASE i \in DOMAIN Batch(w).segs
    <3>1. seg \in Segment
      BY <1>1, <2>1, <2>3 DEF Segment
    <3>2. i \in 1 .. Len(Batch(w).segs)
      BY <1>1, <2>3
    <3> QED
      BY <1>1, <2>2, <3>1, <3>2, ExceptSeq
  <2>4. CASE i \notin DOMAIN Batch(w).segs
    <3>1. segs = Batch(w).segs
      BY <1>1, <2>2, <2>4
    <3> QED
      BY <1>1, <3>1
  <2> QED
    BY <2>3, <2>4
<1>4. PICK row : row = [Batch(w) EXCEPT !.segs = segs, !.status = now]
  OBVIOUS
<1>5. row \in BatchRow /\ BatchOK(row) /\ row.members = Batch(w).members
      /\ row.owner = Batch(w).owner
  BY <1>1, <1>3, <1>4 DEF BatchRow, BatchOK
<1> QED
  BY <1>2, <1>4, <1>5 DEF BatchSet

LEMMA SegmentWritten ==
  ASSUME RunInv, NEW b \in DOMAIN batches, batches[b].status = "running", NEW i, NEW status
  PROVE  [batches EXCEPT ![b].segs[i].status = status]
           = [batches EXCEPT ![b] = BatchSet(batches[b], i, status, "running")]
<1>1. PICK x : x = [batches[b] EXCEPT !.segs[i].status = status]
  OBVIOUS
<1>2. [batches EXCEPT ![b].segs[i].status = status] = [batches EXCEPT ![b] = x]
  BY <1>1
<1>3. PICK y : y = [batches[b].segs EXCEPT ![i].status = status]
  OBVIOUS
<1>4. y = SegmentsSet(batches[b], i, status)
  BY <1>3 DEF SegmentsSet
<1>5. x = [batches[b] EXCEPT !.segs = y]
  BY <1>1, <1>3
<1>6. batches[b] \in BatchRow
  BY DEF RunInv
<1>7. x = [batches[b] EXCEPT !.segs = y, !.status = "running"]
  BY <1>5, <1>6 DEF BatchRow
<1> QED
  BY <1>2, <1>4, <1>7 DEF BatchSet

LEMMA SegmentFailed ==
  ASSUME RunInv, NEW b \in DOMAIN batches, NEW i
  PROVE  [batches EXCEPT ![b].status = "failed", ![b].segs[i].status = "failed"]
           = [batches EXCEPT ![b] = BatchSet(batches[b], i, "failed", "failed")]
<1>1. PICK first : first = [batches[b] EXCEPT !.status = "failed"]
  OBVIOUS
<1>2. PICK mid : mid = [batches EXCEPT ![b] = first]
  OBVIOUS
<1>3. batches[b] \in BatchRow /\ batches \in Seq(BatchRow)
  BY DEF RunInv
<1>4. mid[b] = first /\ first.segs = batches[b].segs
  BY <1>1, <1>2, <1>3 DEF BatchRow
<1>5. [batches EXCEPT ![b].status = "failed", ![b].segs[i].status = "failed"]
        = [mid EXCEPT ![b].segs[i].status = "failed"]
  BY <1>1, <1>2
<1>6. PICK y : y = [first.segs EXCEPT ![i].status = "failed"]
  OBVIOUS
<1>7. PICK x : x = [first EXCEPT !.segs = y]
  OBVIOUS
<1>8. [mid EXCEPT ![b].segs[i].status = "failed"] = [mid EXCEPT ![b] = x]
  BY <1>4, <1>6, <1>7
<1>9. [mid EXCEPT ![b] = x] = [batches EXCEPT ![b] = x]
  BY <1>2
<1>10. y = SegmentsSet(batches[b], i, "failed")
  BY <1>4, <1>6 DEF SegmentsSet
<1>11. x = [batches[b] EXCEPT !.segs = y, !.status = "failed"]
  BY <1>1, <1>3, <1>7 DEF BatchRow
<1> QED
  BY <1>5, <1>8, <1>9, <1>10, <1>11 DEF BatchSet

LEMMA SendSegmentKeeps ==
  ASSUME IInv, NEW w \in Workers, NEW i \in Left(w), SendSegment(w, i),
         work[w].step = "send", UNCHANGED <<wikiVars, faults, brain, serving, stored>>
  PROVE  IInv'
<1>1. UNCHANGED <<page, file, changes, faults, brain, serving, stored>>
  BY DEF wikiVars
<1>2. CASE HoldsBatch(w) /\ HoldsMembers(w)
  <2>1. PICK req : req =
          [key |-> <<work[w].batch, i>>, mode |-> Batch(w).segs[i].mode,
           expected |-> Batch(w).segs[i].expected,
           protected |-> IF Batch(w).segs[i].mode = "incremental" THEN work[w].known
                         ELSE {g.at : g \in {h \in guarded : ~GivesWay(w, h)}}]
    OBVIOUS
  <2>2. /\ jobs' = LeasesRenewed(w)
        /\ batches' = [batches EXCEPT ![work[w].batch].segs[i].status = "running"]
        /\ inbox' = inbox \cup {req}
        /\ work' = [work EXCEPT ![w].step = "wait", ![w].seg = i, ![w].req = req]
        /\ UNCHANGED <<mapping, guarded>>
    BY <1>2, <2>1 DEF SendSegment
  <2>3. /\ Batch(w) \in BatchRow /\ i \in Nat /\ Batch(w).segs[i] \in Segment
        /\ Batch(w).segs \in Seq(Segment) /\ i \in DOMAIN Batch(w).segs
    BY SegmentsFacts DEF IInv, Left
  <2>4. /\ work[w] \in RunRow /\ RunOK(work[w]) /\ AllAgree(work[w].results)
        /\ OfGBrain(work[w].claims) /\ OfGBrain(Batch(w).members)
        /\ work[w].batch \in DOMAIN batches
    BY RunFacts DEF IInv
  <2>5. work[w].batch \in Nat /\ batches \in Seq(BatchRow) /\ work \in [Workers -> RunRow]
    BY <2>4 DEF IInv, RunInv
  <2>6. req \in Request /\ req # None
    <3>1. {g.at : g \in {h \in guarded : ~GivesWay(w, h)}} \subseteq Paths
      BY DEF IInv, RunInv, Protection
    <3>2. work[w].known \subseteq Paths
      BY <2>4 DEF RunRow
    <3> QED
      BY <2>1, <2>3, <2>5, <3>1, <3>2, NoneAssumption DEF Request, Segment
  <2>7. PICK run : run = [work[w] EXCEPT !.step = "wait", !.seg = i, !.req = req]
    OBVIOUS
  <2>8. work' = [work EXCEPT ![w] = run]
    BY <2>2, <2>5, <2>7 DEF RunRow
  <2>9. /\ run \in RunRow /\ RunOK(run) /\ run.results = work[w].results
        /\ run.claims = work[w].claims /\ run.step = "wait"
    BY <2>3, <2>4, <2>6, <2>7 DEF RunRow, RunOK, Steps
  <2>10. PICK row : row = BatchSet(Batch(w), i, "running", "running")
    OBVIOUS
  <2>13. batches' = [batches EXCEPT ![work[w].batch] = row]
    BY <1>2, <2>2, <2>4, <2>10, SegmentWritten DEF HoldsBatch, Batch, IInv
  <2>14. row \in BatchRow /\ BatchOK(row) /\ row.members = Batch(w).members
         /\ row.owner = w
    BY <1>2, <2>10, SegmentStatus DEF IInv, HoldsBatch
  <2>15. GoesOn(jobs') /\ SucceedsOnly(jobs', {}) /\ DOMAIN jobs' = DOMAIN jobs
    BY <2>2, LeasesRenewedGoesOn DEF IInv
  <2>16. RunInv'
    <3>1. /\ run \in RunRow /\ RunOK(run) /\ AllAgree(run.results)
          /\ OfGBrain(run.claims) /\ run.step # "close" /\ OfGBrain(row.members)
      BY <2>4, <2>9, <2>14
    <3>2. /\ RunInv /\ DOMAIN jobs \subseteq DOMAIN jobs' /\ guarded' = guarded
          /\ row \in BatchRow /\ BatchOK(row) /\ row.owner = w
          /\ work[w].batch \in DOMAIN batches
      BY <2>2, <2>4, <2>14, <2>15 DEF IInv
    <3> QED
      BY <2>8, <2>13, <3>1, <3>2, BatchChanges
  <2>17. TableInv' /\ MappingInv' /\ ProjectionIsKept'
    BY <1>1, <2>2, <2>15, TableTransaction
  <2>18. ToolInv'
    BY <1>1, <2>2, <2>6 DEF IInv, ToolInv, ToolTypeOK, ImportedNow, Tool!Hash
  <2>19. CountInv'
    BY <1>1 DEF IInv, CountInv
  <2> QED
    BY <2>16, <2>17, <2>18, <2>19 DEF IInv
<1>3. CASE ~(HoldsBatch(w) /\ HoldsMembers(w))
  <2>1. Abandon(w) /\ UNCHANGED inbox
    BY <1>3 DEF SendSegment
  <2> QED
    BY <1>1, <2>1, SameFaults, AbandonKeeps DEF toolVars
<1> QED
  BY <1>2, <1>3

LEMMA SendKeeps ==
  ASSUME IInv, NEW w \in Workers, Send(w)
  PROVE  IInv'
  BY SendSegmentKeeps DEF Send, FirstLeft

LEMMA AnswerFacts ==
  ASSUME IInv, NEW key \in DOMAIN stored
  PROVE  /\ stored[key].results \subseteq PageResult /\ AllAgree(stored[key].results)
         /\ stored[key].deleted \subseteq Paths /\ stored[key].unlisted \subseteq Paths
  BY DEF IInv, ToolInv, ToolTypeOK, Answer

LEMMA ReceiveKeeps ==
  ASSUME IInv, NEW w \in Workers, Receive(w)
  PROVE  IInv'
<1>1. /\ UNCHANGED <<page, file, changes, faults, toolVars>>
      /\ work[w].step = "wait" /\ work[w].req.key \in DOMAIN stored
  BY DEF Receive, wikiVars, Answered, HasResult
<1>2. CASE Abandon(w)
  BY <1>1, <1>2, SameFaults, AbandonKeeps
<1>3. CASE ~Abandon(w)
  <2>1. PICK answer : answer = stored[work[w].req.key]
    OBVIOUS
  <2>2. /\ jobs' = LeasesRenewed(w)
        /\ guarded' = guarded \cup {[page |-> NoPage, at |-> q] : q \in answer.unlisted}
        /\ work' = [work EXCEPT
             ![w].step = "attribute", ![w].results = answer.results,
             ![w].deleted = answer.deleted,
             ![w].known = @ \cup answer.unlisted \cup UNION {r.held : r \in answer.results}]
        /\ UNCHANGED <<mapping, batches>>
    BY <1>3, <2>1 DEF Receive
  <2>3. /\ answer.results \subseteq PageResult /\ AllAgree(answer.results)
        /\ answer.deleted \subseteq Paths /\ answer.unlisted \subseteq Paths
    BY <1>1, <2>1, AnswerFacts
  <2>4. PICK known : known = work[w].known \cup answer.unlisted
                             \cup UNION {r.held : r \in answer.results}
    OBVIOUS
  <2>5. /\ work[w] \in RunRow /\ RunOK(work[w]) /\ OfGBrain(work[w].claims)
    BY RunFacts DEF IInv
  <2>6. known \subseteq Paths
    BY <2>3, <2>4, <2>5 DEF RunRow, PageResult
  <2>7. PICK run : run = [work[w] EXCEPT !.step = "attribute", !.results = answer.results,
                                         !.deleted = answer.deleted, !.known = known]
    OBVIOUS
  <2>8. work' = [work EXCEPT ![w] = run]
    <3>1. work \in [Workers -> RunRow]
      BY DEF IInv, RunInv
    <3> QED
      BY <2>2, <2>4, <2>7, <3>1 DEF RunRow
  <2>9. /\ run \in RunRow /\ RunOK(run) /\ run.results = answer.results
        /\ run.claims = work[w].claims /\ run.step = "attribute"
    BY <1>1, <2>3, <2>5, <2>6, <2>7 DEF RunRow, RunOK, Steps
  <2>10. GoesOn(jobs') /\ SucceedsOnly(jobs', {}) /\ DOMAIN jobs' = DOMAIN jobs
    BY <2>2, LeasesRenewedGoesOn DEF IInv
  <2>11. guarded' \subseteq Protection
    BY <2>2, <2>3 DEF IInv, RunInv, Protection
  <2>12. run \in RunRow'
    BY <2>2, <2>9, <2>10 DEF RunRow
  <2>13. Closes(w, run)
    BY <2>9 DEF Closes
  <2>14. RunInv'
    BY <2>2, <2>3, <2>5, <2>8, <2>9, <2>10, <2>11, <2>12, <2>13, RunChanges DEF IInv
  <2>15. TableInv' /\ MappingInv' /\ ProjectionIsKept'
    BY <1>1, <2>2, <2>10, TableTransaction
  <2>16. ToolInv' /\ CountInv'
    BY <1>1, SameFaults, OutsideStays
  <2> QED
    BY <2>14, <2>15, <2>16 DEF IInv
<1> QED
  BY <1>2, <1>3

LEMMA FaultCounts ==
  ASSUME IInv, Faulty
  PROVE  faults' \in 0 .. MaxFaults
<1>1. MaxFaults \in Nat /\ faults \in 0 .. MaxFaults /\ faults < MaxFaults /\ faults' = faults + 1
  BY GBrainProjectionAssumption DEF IInv, CountInv, Faulty
<1> QED
  BY <1>1

LEMMA TransportFailedKeeps ==
  ASSUME IInv, NEW w \in Workers, TransportFailed(w), work[w].step = "wait",
         UNCHANGED <<page, file, changes, toolVars>>, faults' \in 0 .. MaxFaults
  PROVE  IInv'
<1>1. CASE ~HoldsSegment(w)
  BY <1>1, AbandonKeeps DEF TransportFailed
<1>2. CASE HoldsSegment(w)
  <2>1. /\ batches' = [batches EXCEPT ![work[w].batch].status = "failed",
                                      ![work[w].batch].segs[work[w].seg].status = "failed"]
        /\ jobs' = ClaimsFailed(w)
        /\ work' = [work EXCEPT ![w] = Idle]
        /\ UNCHANGED <<mapping, guarded>>
    BY <1>2 DEF TransportFailed
  <2>2. work[w].batch \in DOMAIN batches /\ OfGBrain(Batch(w).members)
    BY RunFacts DEF IInv
  <2>3. PICK row : row = BatchSet(Batch(w), work[w].seg, "failed", "failed")
    OBVIOUS
  <2>4. batches' = [batches EXCEPT ![work[w].batch] = row]
    BY <2>1, <2>2, <2>3, SegmentFailed DEF Batch, IInv
  <2>5. /\ row \in BatchRow /\ BatchOK(row) /\ OfGBrain(row.members) /\ row.owner = w
    BY <1>2, <2>2, <2>3, SegmentStatus DEF IInv, HoldsSegment, HoldsBatch
  <2>6. TableInv' /\ MappingInv' /\ ProjectionIsKept' /\ DOMAIN jobs' = DOMAIN jobs
    BY <2>1, ClaimsFailedKeeps
  <2>7. RunInv'
    <3>1. /\ RunInv /\ DOMAIN jobs \subseteq DOMAIN jobs' /\ guarded' = guarded
          /\ Idle.step # "close"
      BY <2>1, <2>6, IdleRun DEF IInv
    <3> QED
      BY <2>1, <2>2, <2>4, <2>5, <3>1, IdleRun, BatchChanges
  <2>8. ToolInv' /\ CountInv'
    BY OutsideStays
  <2> QED
    BY <2>6, <2>7, <2>8 DEF IInv
<1> QED
  BY <1>1, <1>2

LEMMA RefusedKeeps ==
  ASSUME IInv, NEW w \in Workers, Refused(w)
  PROVE  IInv'
<1>1. /\ TransportFailed(w) /\ work[w].step = "wait"
      /\ UNCHANGED <<page, file, changes, toolVars, faults>>
  BY DEF Refused, Answered, wikiVars
<1> QED
  BY <1>1, SameFaults, TransportFailedKeeps

LEMMA TimeoutKeeps ==
  ASSUME IInv, NEW w \in Workers, Timeout(w)
  PROVE  IInv'
<1>1. /\ TransportFailed(w) /\ work[w].step = "wait" /\ Faulty
      /\ UNCHANGED <<page, file, changes, toolVars>>
  BY DEF Timeout, wikiVars
<1> QED
  BY <1>1, FaultCounts, TransportFailedKeeps

LEMMA CrashKeeps ==
  ASSUME IInv, NEW w \in Workers, Crash(w)
  PROVE  IInv'
<1>1. Abandon(w) /\ Faulty /\ UNCHANGED <<page, file, changes, toolVars>>
  BY DEF Crash, wikiVars
<1> QED
  BY <1>1, FaultCounts, AbandonKeeps

LEMMA LeaseStepKeeps ==
  ASSUME IInv, GoesOn(jobs'), SucceedsOnly(jobs', {}), DOMAIN jobs' = DOMAIN jobs,
         UNCHANGED <<mapping, guarded, batches, work, page, file, changes, toolVars>>,
         faults' \in 0 .. MaxFaults
  PROVE  IInv'
<1>1. TableInv' /\ MappingInv' /\ ProjectionIsKept'
  BY TableTransaction
<1>2. RunInv'
  BY RunsStay DEF IInv
<1>3. ToolInv' /\ CountInv'
  BY OutsideStays
<1> QED
  BY <1>1, <1>2, <1>3 DEF IInv

LEMMA StallKeeps ==
  ASSUME IInv, NEW w \in Workers, Stall(w)
  PROVE  IInv'
<1>1. /\ jobs' = [k \in DOMAIN jobs |-> IF Owns(jobs, k, w)
                                         THEN [jobs[k] EXCEPT !.lease = -1] ELSE jobs[k]]
      /\ UNCHANGED <<mapping, guarded, batches, work, page, file, changes, toolVars>>
      /\ Faulty
  BY DEF Stall, wikiVars
<1>2. GoesOn(jobs') /\ SucceedsOnly(jobs', {}) /\ DOMAIN jobs' = DOMAIN jobs
  BY <1>1, StalledGoesOn DEF IInv
<1> QED
  BY <1>1, <1>2, FaultCounts, LeaseStepKeeps

LEMMA TickKeeps ==
  ASSUME IInv, Tick
  PROVE  IInv'
<1>1. UNCHANGED <<mapping, guarded, batches, work, page, file, changes, toolVars, faults>>
  BY DEF Tick, wikiVars
<1>2. GoesOn(jobs') /\ SucceedsOnly(jobs', {}) /\ DOMAIN jobs' = DOMAIN jobs
  BY TickGoesOn DEF IInv
<1> QED
  BY <1>1, <1>2, SameFaults, LeaseStepKeeps

LEMMA FinishSegmentKeeps ==
  ASSUME IInv, NEW w \in Workers, FinishSegment(w)
  PROVE  IInv'
<1>1. UNCHANGED <<page, file, changes, toolVars, faults>> /\ work[w].step = "attribute"
  BY DEF FinishSegment, wikiVars
<1>2. CASE ~HoldsSegment(w)
  BY <1>1, <1>2, SameFaults, AbandonKeeps DEF FinishSegment
<1>3. CASE HoldsSegment(w)
  <2>1. /\ batches' = [batches EXCEPT
                         ![work[w].batch].segs[work[w].seg].status = "succeeded"]
        /\ work' = [work EXCEPT ![w].step = "send", ![w].seg = 0, ![w].req = None]
        /\ UNCHANGED <<jobs, mapping, guarded>>
    BY <1>3 DEF FinishSegment
  <2>2. /\ work[w].batch \in DOMAIN batches /\ OfGBrain(Batch(w).members)
        /\ work[w] \in RunRow /\ RunOK(work[w]) /\ AllAgree(work[w].results)
        /\ OfGBrain(work[w].claims)
    BY <1>1, RunFacts DEF IInv
  <2>3. PICK row : row = BatchSet(Batch(w), work[w].seg, "succeeded", "running")
    OBVIOUS
  <2>4. batches' = [batches EXCEPT ![work[w].batch] = row]
    BY <1>3, <2>1, <2>2, <2>3, SegmentWritten DEF Batch, HoldsSegment, HoldsBatch, IInv
  <2>5. /\ row \in BatchRow /\ BatchOK(row) /\ OfGBrain(row.members) /\ row.owner = w
    BY <1>1, <1>3, <2>2, <2>3, SegmentStatus DEF IInv, HoldsSegment, HoldsBatch
  <2>6. PICK run : run = [work[w] EXCEPT !.step = "send", !.seg = 0, !.req = None]
    OBVIOUS
  <2>7. work' = [work EXCEPT ![w] = run]
    <3>1. work \in [Workers -> RunRow]
      BY DEF IInv, RunInv
    <3> QED
      BY <2>1, <2>6, <3>1 DEF RunRow
  <2>8. /\ run \in RunRow /\ RunOK(run) /\ AllAgree(run.results)
        /\ OfGBrain(run.claims) /\ run.step # "close"
    BY <1>1, <2>2, <2>6 DEF RunRow, RunOK, Steps
  <2>9. GoesOn(jobs') /\ SucceedsOnly(jobs', {}) /\ DOMAIN jobs' = DOMAIN jobs
    BY <2>1, SameTable DEF IInv
  <2>10. RunInv'
    <3>1. RunInv /\ DOMAIN jobs \subseteq DOMAIN jobs' /\ guarded' = guarded
      BY <2>1 DEF IInv
    <3> QED
      BY <2>2, <2>4, <2>5, <2>7, <2>8, <3>1, BatchChanges
  <2>11. TableInv' /\ MappingInv' /\ ProjectionIsKept'
    BY <1>1, <2>1, <2>9, TableTransaction
  <2>12. ToolInv' /\ CountInv'
    BY <1>1, SameFaults, OutsideStays
  <2> QED
    BY <2>10, <2>11, <2>12 DEF IInv
<1> QED
  BY <1>2, <1>3

LEMMA FinishJobsKeeps ==
  ASSUME IInv, NEW w \in Workers, FinishJobs(w)
  PROVE  IInv'
<1>1. /\ UNCHANGED <<page, file, changes, toolVars, faults>>
      /\ work[w].step = "send" /\ Left(w) = {}
  BY DEF FinishJobs, wikiVars
<1>2. CASE ~(HoldsBatch(w) /\ HoldsMembers(w))
  BY <1>1, <1>2, SameFaults, AbandonKeeps DEF FinishJobs
<1>3. CASE HoldsBatch(w) /\ HoldsMembers(w)
  <2>1. /\ jobs' = Ended(jobs, Running(Batch(w).members), "failed")
        /\ work' = [work EXCEPT ![w].step = "close"]
        /\ UNCHANGED <<mapping, guarded, batches>>
    BY <1>3 DEF FinishJobs, Goto
  <2>2. /\ Batch(w) \in BatchRow
        /\ work[w] \in RunRow /\ RunOK(work[w]) /\ AllAgree(work[w].results)
        /\ OfGBrain(work[w].claims)
    BY <1>1, RunFacts DEF IInv
  <2>3. Working(Running(Batch(w).members))
    BY <2>2 DEF Working, Running, BatchRow
  <2>4. GoesOn(jobs') /\ SucceedsOnly(jobs', {}) /\ DOMAIN jobs' = DOMAIN jobs
    BY <2>1, <2>3, EndedGoesOn DEF IInv
  <2>5. PICK run : run = [work[w] EXCEPT !.step = "close"]
    OBVIOUS
  <2>6. work' = [work EXCEPT ![w] = run]
    BY <2>1, <2>5
  <2>7. /\ run \in RunRow' /\ RunOK(run) /\ AllAgree(run.results)
        /\ OfGBrain(run.claims) /\ run.batch = work[w].batch
    BY <1>1, <2>1, <2>2, <2>4, <2>5 DEF RunRow, RunOK, Steps
  <2>8. Closes(w, run)
    BY <1>1, <2>7 DEF Closes, Left, Done, Batch
  <2>9. RunInv'
    <3>1. RunInv /\ DOMAIN jobs \subseteq DOMAIN jobs' /\ guarded' \subseteq Protection
      BY <2>1, <2>4 DEF IInv, RunInv
    <3> QED
      BY <2>1, <2>6, <2>7, <2>8, <3>1, RunChanges
  <2>10. TableInv' /\ MappingInv' /\ ProjectionIsKept'
    BY <1>1, <2>1, <2>4, TableTransaction
  <2>11. ToolInv' /\ CountInv'
    BY <1>1, SameFaults, OutsideStays
  <2> QED
    BY <2>9, <2>10, <2>11 DEF IInv
<1> QED
  BY <1>2, <1>3

LEMMA FinishBatchKeeps ==
  ASSUME IInv, NEW w \in Workers, FinishBatch(w)
  PROVE  IInv'
<1>1. UNCHANGED <<page, file, changes, toolVars, faults>> /\ work[w].step = "close"
  BY DEF FinishBatch, wikiVars
<1>2. CASE ~HoldsBatch(w)
  BY <1>1, <1>2, SameFaults, AbandonKeeps DEF FinishBatch
<1>3. CASE HoldsBatch(w)
  <2>1. /\ batches' = [batches EXCEPT ![work[w].batch].status = "succeeded"]
        /\ work' = [work EXCEPT ![w] = Idle]
        /\ UNCHANGED <<jobs, mapping, guarded>>
    BY <1>3 DEF FinishBatch
  <2>2. /\ work[w].batch \in DOMAIN batches /\ OfGBrain(Batch(w).members)
        /\ Batch(w) \in BatchRow
    BY <1>1, RunFacts DEF IInv
  <2>3. PICK row : row = [Batch(w) EXCEPT !.status = "succeeded"]
    OBVIOUS
  <2>4. batches' = [batches EXCEPT ![work[w].batch] = row]
    BY <2>1, <2>3 DEF Batch
  <2>5. Done(Batch(w).segs)
    BY <1>1, <1>3 DEF IInv, RunInv, Closes, HoldsBatch, Batch
  <2>6. row \in BatchRow /\ BatchOK(row) /\ OfGBrain(row.members) /\ row.owner = w
    BY <1>3, <2>2, <2>3, <2>5 DEF BatchRow, BatchOK, HoldsBatch
  <2>7. GoesOn(jobs') /\ SucceedsOnly(jobs', {}) /\ DOMAIN jobs' = DOMAIN jobs
    BY <2>1, SameTable DEF IInv
  <2>8. RunInv'
    <3>1. RunInv /\ DOMAIN jobs \subseteq DOMAIN jobs' /\ guarded' = guarded
          /\ Idle.step # "close"
      BY <2>1, IdleRun DEF IInv
    <3> QED
      BY <2>1, <2>2, <2>4, <2>6, <3>1, IdleRun, BatchChanges
  <2>9. TableInv' /\ MappingInv' /\ ProjectionIsKept'
    BY <1>1, <2>1, <2>7, TableTransaction
  <2>10. ToolInv' /\ CountInv'
    BY <1>1, SameFaults, OutsideStays
  <2> QED
    BY <2>8, <2>9, <2>10 DEF IInv
<1> QED
  BY <1>2, <1>3

-----------------------------------------------------------------------------
(* _attribute_page_success and _attribute_page_failure                     *)

(* A mapping written for a page that matches what was expected is present, *)
(* no other page loses its own, and no mapping goes back.                  *)
LEMMA MappedKeeps ==
  ASSUME IInv, NEW w \in Workers, NEW r \in PageResult, Agrees(r), r.status = "imported",
         MatchesExpected(r.page), Attributable(w, r.page),
         mapping' = Mapped(r.page, r), page' = page
  PROVE  /\ MappingInv'
         /\ MapsPresent(r.page.path, r.page.page)'
         /\ \A p \in Pages, s \in Paths :
              MapsPresent(s, p) => \E q \in Paths : MapsPresent(q, p)'
         /\ \A s \in Paths : IsMapped(mapping[s]) /\ IsMapped(mapping'[s])
                               /\ mapping'[s].page = mapping[s].page
                             => mapping'[s].epoch >= mapping[s].epoch
<1>1. PICK e : e = r.page
  OBVIOUS
<1>2. /\ e \in Expected /\ e.page \in Pages /\ e.rev \in Revs /\ e.path \in Paths
      /\ e.epoch \in Nat /\ r.gen \in Nat
  BY <1>1 DEF PageResult, Expected
<1>3. PICK new : new = MappingOf(e, r)
  OBVIOUS
<1>4. /\ new.page = e.page /\ new.rev = e.rev /\ new.epoch = e.epoch
      /\ new.status = "current" /\ new.hash = [page |-> e.page, rev |-> e.rev]
      /\ new \in Mapping
  BY <1>1, <1>2, <1>3 DEF MappingOf, Agrees, Mapping, Bytes
<1>5. None \notin Mapping
  BY NoneAssumption
<1>6. Active(e.page) /\ page[e.page].rev = e.rev /\ page[e.page].epoch = e.epoch
  BY <1>1 DEF MatchesExpected
<1>7. mapping \in [Paths -> Mapping \cup {None}] /\ MappingsOfThePast /\ MappingsAgree
  BY DEF IInv, MappingInv
<1>8. mapping'[e.path] = new
  BY <1>1, <1>2, <1>3 DEF Mapped
<1>9. ASSUME NEW s \in Paths, s # e.path
      PROVE  \/ mapping'[s] = mapping[s]
             \/ /\ mapping[s] # None /\ mapping[s].page = e.page
                /\ mapping'[s] = [mapping[s] EXCEPT !.status = "stale"]
  BY <1>1, <1>9 DEF Mapped
<1>10. ASSUME NEW s \in Paths, s # e.path, mapping'[s] # None
       PROVE  /\ mapping[s] # None /\ mapping'[s] \in Mapping
              /\ mapping'[s].page = mapping[s].page /\ mapping'[s].rev = mapping[s].rev
              /\ mapping'[s].epoch = mapping[s].epoch /\ mapping'[s].hash = mapping[s].hash
  <2>1. mapping[s] # None /\ mapping[s] \in Mapping
    BY <1>7, <1>9, <1>10
  <2> QED
    BY <1>9, <1>10, <2>1 DEF Mapping
<1>11. MappingInv'
  <2>1. mapping' = [s \in Paths |-> mapping'[s]]
    BY <1>1 DEF Mapped
  <2>2. \A s \in Paths : mapping'[s] \in Mapping \cup {None}
    BY <1>4, <1>8, <1>10
  <2>3. mapping' \in [Paths -> Mapping \cup {None}]
    BY <2>1, <2>2
  <2>4. page[e.page].epoch \in Nat
    BY <1>2, PageFacts DEF IInv
  <2>5. \A s \in Paths : mapping'[s] # None =>
          /\ mapping'[s].epoch <= page[mapping'[s].page].epoch
          /\ mapping'[s].hash = [page |-> mapping'[s].page, rev |-> mapping'[s].rev]
    BY <1>4, <1>6, <1>7, <1>8, <1>10, <2>4 DEF MappingsOfThePast, MappingsAgree
  <2> QED
    BY <2>3, <2>5 DEF MappingInv, MappingsOfThePast, MappingsAgree
<1>12. MapsPresent(e.path, e.page)'
  BY <1>4, <1>5, <1>6, <1>8 DEF MapsPresent, Active
<1>13. ASSUME NEW p \in Pages, NEW s \in Paths, MapsPresent(s, p)
       PROVE  \E q \in Paths : MapsPresent(q, p)'
  <2>1. CASE p = e.page
    BY <1>2, <1>12, <2>1
  <2>2. CASE p # e.page
    <3>1. /\ mapping[s] # None /\ mapping[s].status = "current" /\ mapping[s].page = p
      BY <1>13 DEF MapsPresent
    <3>2. s # e.path
      BY <1>1, <2>2, <3>1 DEF Attributable, IsMapped
    <3>3. mapping'[s] = mapping[s]
      BY <1>9, <2>2, <3>1, <3>2
    <3>4. MapsPresent(s, p)'
      BY <1>13, <3>3 DEF MapsPresent, Active
    <3> QED
      BY <3>4
  <2> QED
    BY <2>1, <2>2
<1>14. ASSUME NEW s \in Paths, IsMapped(mapping[s]), IsMapped(mapping'[s]),
              mapping'[s].page = mapping[s].page
       PROVE  mapping'[s].epoch >= mapping[s].epoch
  <2>1. mapping[s] # None /\ mapping'[s] # None
    BY <1>14 DEF IsMapped
  <2>2. mapping[s] \in Mapping /\ mapping[s].epoch \in Nat
    BY <1>7, <2>1 DEF Mapping
  <2>3. CASE s = e.path
    BY <1>2, <1>4, <1>6, <1>7, <1>8, <1>14, <2>1, <2>2, <2>3 DEF MappingsOfThePast
  <2>4. CASE s # e.path
    BY <1>10, <2>1, <2>2, <2>4
  <2> QED
    BY <2>3, <2>4
<1> QED
  BY <1>1, <1>11, <1>12, <1>13, <1>14

MappingsForward ==
  \A s \in Paths : IsMapped(mapping[s]) /\ IsMapped(mapping'[s])
                     /\ mapping'[s].page = mapping[s].page
                   => mapping'[s].epoch >= mapping[s].epoch

LEMMA SameMappings ==
  ASSUME MappingInv, mapping' = mapping
  PROVE  MappingsForward
<1> SUFFICES ASSUME NEW s \in Paths, IsMapped(mapping[s])
             PROVE  mapping[s].epoch >= mapping[s].epoch
  BY DEF MappingsForward
<1>1. mapping[s] \in Mapping
  BY DEF MappingInv, IsMapped
<1> QED
  BY <1>1 DEF Mapping

LEMMA AttributedKeeps ==
  ASSUME IInv, NEW w \in Workers, NEW r \in PageResult, Agrees(r),
         Working(PageJobs(w, r.page.page)), Attributed(w, r), page' = page
  PROVE  /\ TableInv' /\ MappingInv' /\ ProjectionIsKept' /\ MappingsForward
         /\ DOMAIN jobs \subseteq DOMAIN jobs' /\ guarded' \subseteq Protection
<1>1. PICK e : e = r.page
  OBVIOUS
<1>2. PICK K : K = PageJobs(w, e.page)
  OBVIOUS
<1>3. e \in Expected /\ e.page \in Pages /\ e.path \in Paths /\ r.held \subseteq Paths
  BY <1>1 DEF PageResult, Expected
<1>4. TableInv /\ Working(K) /\ guarded \subseteq Protection
  BY <1>1, <1>2 DEF IInv, RunInv
<1>5. Guard(e.page, r.held) \subseteq Protection /\ Guard(e.page, {e.path}) \subseteq Protection
  BY <1>3, <1>4 DEF Guard, Protection
<1>6. CASE /\ GoesOn(jobs') /\ SucceedsOnly(jobs', {}) /\ mapping' = mapping
           /\ guarded' \subseteq Protection
  <2>1. TableInv' /\ MappingInv' /\ ProjectionIsKept' /\ DOMAIN jobs \subseteq DOMAIN jobs'
    BY <1>6, TableTransaction
  <2> QED
    BY <1>6, <2>1, SameMappings DEF IInv
<1>7. CASE /\ jobs' = CurrentEnqueued(Ended(jobs, K, "superseded"), e.page)
           /\ guarded' = Guard(e.page, r.held) /\ UNCHANGED mapping
  <2>1. PICK t : t = Ended(jobs, K, "superseded")
    OBVIOUS
  <2>2. GoesOn(t) /\ SucceedsOnly(t, {})
    BY <1>4, <2>1, EndedGoesOn
  <2>3. GoesOn(jobs') /\ SucceedsOnly(jobs', {})
    BY <1>3, <1>4, <1>7, <2>1, <2>2, CurrentEnqueuedGoesOn
  <2> QED
    BY <1>5, <1>6, <1>7, <2>3
<1>8. CASE /\ jobs' = Ended(jobs, K, "failed") /\ UNCHANGED mapping
           /\ guarded' \in {Guard(e.page, r.held), Guard(e.page, {e.path})}
  <2>1. GoesOn(jobs') /\ SucceedsOnly(jobs', {})
    BY <1>4, <1>8, EndedGoesOn
  <2> QED
    BY <1>5, <1>6, <1>8, <2>1
<1>9. CASE /\ MatchesExpected(e) /\ r.status = "imported" /\ Attributable(w, e)
           /\ jobs' = Ended(jobs, K, "succeeded")
           /\ guarded' = guarded \ {[page |-> e.page, at |-> e.path]}
           /\ mapping' = Mapped(e, r)
  <2>1. GoesOn(jobs') /\ SucceedsOnly(jobs', K)
    BY <1>4, <1>9, EndedGoesOn
  <2>2. /\ MappingInv' /\ MapsPresent(e.path, e.page)'
        /\ \A p \in Pages, s \in Paths :
             MapsPresent(s, p) => \E q \in Paths : MapsPresent(q, p)'
        /\ MappingsForward
    BY <1>1, <1>9, MappedKeeps DEF MappingsForward
  <2>3. \A k \in K : k.page = e.page
    BY <1>2 DEF PageJobs
  <2>4. \A k \in K : Active(k.page) /\ k.epoch = page[k.page].epoch =>
            \E q \in Paths : MapsPresent(q, k.page)'
    BY <1>3, <2>2, <2>3
  <2>5. ProjectionIsKept'
    BY <1>4, <2>1, <2>2, <2>4, ProjectionsStay DEF IInv
  <2>6. TableInv'
    BY <1>4, <2>1, TableStays
  <2>7. DOMAIN jobs \subseteq DOMAIN jobs'
    BY <2>1 DEF GoesOn
  <2> QED
    BY <1>4, <1>9, <2>2, <2>5, <2>6, <2>7
<1> QED
  BY <1>1, <1>2, <1>7, <1>8, <1>9 DEF Attributed

LEMMA AttributePageKeeps ==
  ASSUME IInv, NEW w \in Workers, NEW r \in work[w].results, AttributePage(w, r)
  PROVE  IInv' /\ MappingsForward
<1>1. UNCHANGED <<page, file, changes, toolVars, faults>> /\ work[w].step = "attribute"
  BY DEF AttributePage, wikiVars
<1>2. CASE ~(HoldsSegment(w) /\ OwnsAll(w, PageJobs(w, r.page.page)))
  <2>1. Abandon(w) /\ UNCHANGED mapping
    BY <1>2 DEF AttributePage, Abandon, tableVars
  <2> QED
    BY <1>1, <2>1, SameFaults, AbandonKeeps, SameMappings DEF IInv
<1>3. CASE HoldsSegment(w) /\ OwnsAll(w, PageJobs(w, r.page.page))
  <2>1. /\ Attributed(w, r) /\ UNCHANGED batches
        /\ work' = [work EXCEPT ![w].results = @ \ {r}]
    BY <1>3 DEF AttributePage
  <2>2. /\ work[w] \in RunRow /\ RunOK(work[w]) /\ AllAgree(work[w].results)
        /\ OfGBrain(work[w].claims)
    BY RunFacts DEF IInv
  <2>3. r \in PageResult /\ Agrees(r)
    BY <2>2 DEF RunRow, AllAgree
  <2>4. Working(PageJobs(w, r.page.page))
    BY <1>3 DEF Working, OwnsAll, Owns
  <2>5. /\ TableInv' /\ MappingInv' /\ ProjectionIsKept' /\ MappingsForward
        /\ DOMAIN jobs \subseteq DOMAIN jobs' /\ guarded' \subseteq Protection
    BY <1>1, <2>1, <2>3, <2>4, AttributedKeeps
  <2>6. PICK run : run = [work[w] EXCEPT !.results = work[w].results \ {r}]
    OBVIOUS
  <2>7. work' = [work EXCEPT ![w] = run]
    BY <2>1, <2>6
  <2>8. /\ run \in RunRow /\ RunOK(run) /\ AllAgree(run.results)
        /\ OfGBrain(run.claims) /\ run.step = "attribute"
    BY <1>1, <2>2, <2>6 DEF RunRow, RunOK, AllAgree
  <2>9. run \in RunRow' /\ Closes(w, run)
    BY <2>1, <2>5, <2>8, RowsGrow DEF Closes
  <2>10. RunInv'
    BY <2>1, <2>5, <2>7, <2>8, <2>9, RunChanges DEF IInv
  <2>11. ToolInv' /\ CountInv'
    BY <1>1, SameFaults, OutsideStays
  <2> QED
    BY <2>5, <2>10, <2>11 DEF IInv
<1> QED
  BY <1>2, <1>3

-----------------------------------------------------------------------------
(* _attribute_deletions                                                    *)
LEMMA AtMostOne ==
  ASSUME NEW S, \A x, y \in S : x = y
  PROVE  /\ ~(Cardinality(S) > 1)
         /\ Cardinality(S) = 1 => S # {}
<1>1. Cardinality({}) = 0
  BY FS_EmptySet
<1>2. CASE S = {}
  BY <1>1, <1>2
<1>3. CASE S # {}
  <2>1. PICK x : x \in S
    BY <1>3
  <2>2. S = {x}
    BY <2>1
  <2>3. Cardinality({x}) = 1
    BY FS_Singleton
  <2> QED
    BY <1>3, <2>2, <2>3
<1> QED
  BY <1>2, <1>3

(* Of the open delete jobs of a page a batch has one at most.              *)
LEMMA OneOwner ==
  ASSUME IInv, NEW w \in Workers, work[w].step \notin {"idle", "build"},
         NEW p \in Pages, OwnsAll(w, DeleteJobs(w, p))
  PROVE  /\ Working(DeleteJobs(w, p))
         /\ \A k \in DeleteJobs(w, p) : k.op = "delete" /\ k.page = p
         /\ ~(Cardinality(DeleteJobs(w, p)) > 1)
         /\ Cardinality(DeleteJobs(w, p)) = 1 => DeleteJobs(w, p) # {}
<1>1. OfGBrain(Batch(w).members)
  BY RunFacts DEF IInv
<1>2. \A k \in DeleteJobs(w, p) :
        /\ k \in DOMAIN jobs /\ jobs[k].status = "running" /\ ~Over(jobs[k])
        /\ k.op = "delete" /\ k.page = p /\ k.target = "gbrain"
  BY <1>1 DEF OwnsAll, Owns, DeleteJobs, OfGBrain, Over
<1>3. \A k, l \in DeleteJobs(w, p) : k = l
  BY <1>2 DEF IInv, TableInv, OneOpenDelete
<1> QED
  BY <1>2, <1>3, AtMostOne DEF Working

LEMMA RemovedKeeps ==
  ASSUME IInv, NEW w \in Workers, work[w].step \notin {"idle", "build"}, NEW s \in Paths,
         NEW was \in Mapping, was = Batch(w).mapping[s],
         OwnsAll(w, DeleteJobs(w, was.page)), ReadsMapping(w, s) => mapping[s] = was,
         Removed(w, s), page' = page
  PROVE  /\ TableInv' /\ MappingInv' /\ ProjectionIsKept' /\ MappingsForward
         /\ DOMAIN jobs \subseteq DOMAIN jobs' /\ guarded' \subseteq Protection
<1>1. PICK p : p = was.page
  OBVIOUS
<1>2. PICK owners : owners = DeleteJobs(w, p)
  OBVIOUS
<1>3. p \in Pages
  BY <1>1 DEF Mapping
<1>4. /\ Working(owners) /\ \A k \in owners : k.op = "delete" /\ k.page = p
      /\ ~(Cardinality(owners) > 1) /\ (Cardinality(owners) = 1 => owners # {})
  BY <1>1, <1>2, <1>3, OneOwner
<1>5. TableInv /\ guarded \subseteq Protection
  BY DEF IInv, RunInv
<1>6. CASE /\ GoesOn(jobs') /\ SucceedsOnly(jobs', {}) /\ UNCHANGED <<mapping, guarded>>
  <2>1. TableInv' /\ MappingInv' /\ ProjectionIsKept' /\ DOMAIN jobs \subseteq DOMAIN jobs'
    BY <1>6, TableTransaction
  <2> QED
    BY <1>5, <1>6, <2>1, SameMappings DEF IInv
<1>7. CASE /\ jobs' = CurrentEnqueued(Ended(jobs, owners, "superseded"), p)
           /\ UNCHANGED <<mapping, guarded>>
  <2>1. PICK t : t = Ended(jobs, owners, "superseded")
    OBVIOUS
  <2>2. GoesOn(t) /\ SucceedsOnly(t, {})
    BY <1>4, <1>5, <2>1, EndedGoesOn
  <2>3. GoesOn(jobs') /\ SucceedsOnly(jobs', {})
    BY <1>3, <1>5, <1>7, <2>1, <2>2, CurrentEnqueuedGoesOn
  <2> QED
    BY <1>6, <1>7, <2>3
<1>8. CASE jobs' = CurrentEnqueued(jobs, p) /\ UNCHANGED <<mapping, guarded>>
  <2>1. GoesOn(jobs) /\ SucceedsOnly(jobs, {})
    BY <1>5, SameTable
  <2>2. GoesOn(jobs') /\ SucceedsOnly(jobs', {})
    BY <1>3, <1>5, <1>8, <2>1, CurrentEnqueuedGoesOn
  <2> QED
    BY <1>6, <1>8, <2>2
<1>9. CASE /\ \/ owners = {} /\ page[p].life = "deleted"
              \/ Cardinality(owners) = 1 /\ \A k \in owners : MatchesDelete(k)
           /\ mapping' = [mapping EXCEPT ![s].status = "deleted"]
           /\ guarded' = IF owners = {} THEN guarded
                         ELSE guarded \ {[page |-> p, at |-> s]}
           /\ jobs' = Ended(jobs, owners, "succeeded")
  <2>1. page[p].life = "deleted"
    BY <1>4, <1>9 DEF MatchesDelete
  <2>2. ~Active(p)
    BY <2>1 DEF Active
  <2>3. mapping[s] = was
    BY <1>1, <1>2, <1>9 DEF ReadsMapping
  <2>4. PICK gone : gone = [was EXCEPT !.status = "deleted"]
    OBVIOUS
  <2>5. mapping \in [Paths -> Mapping \cup {None}] /\ MappingsOfThePast /\ MappingsAgree
    BY DEF IInv, MappingInv
  <2>6. mapping' = [mapping EXCEPT ![s] = gone]
    BY <1>9, <2>3, <2>4
  <2>7. mapping'[s] = gone /\ \A q \in Paths \ {s} : mapping'[q] = mapping[q]
    BY <2>5, <2>6
  <2>8. /\ gone \in Mapping /\ gone.page = was.page /\ gone.rev = was.rev
        /\ gone.epoch = was.epoch /\ gone.hash = was.hash /\ gone.status = "deleted"
    BY <2>4 DEF Mapping
  <2>9. MappingInv'
    <3>1. was # None
      BY NoneAssumption
    <3>2. mapping' \in [Paths -> Mapping \cup {None}]
      BY <2>5, <2>6, <2>8
    <3>3. \A q \in Paths : mapping'[q] # None =>
            /\ mapping'[q].epoch <= page[mapping'[q].page].epoch
            /\ mapping'[q].hash = [page |-> mapping'[q].page, rev |-> mapping'[q].rev]
      BY <2>3, <2>5, <2>7, <2>8, <3>1 DEF MappingsOfThePast, MappingsAgree
    <3> QED
      BY <3>2, <3>3 DEF MappingInv, MappingsOfThePast, MappingsAgree
  <2>10. MappingsForward
    <3> SUFFICES ASSUME NEW q \in Paths, IsMapped(mapping[q]), IsMapped(mapping'[q])
                 PROVE  mapping'[q].epoch >= mapping[q].epoch
      BY DEF MappingsForward
    <3>1. q # s
      BY <2>7, <2>8 DEF IsMapped
    <3>2. mapping[q] \in Mapping
      BY <2>5 DEF IsMapped
    <3> QED
      BY <2>7, <3>1, <3>2 DEF Mapping
  <2>11. ASSUME NEW o \in Pages, NEW q \in Paths, MapsPresent(q, o)
         PROVE  \E u \in Paths : MapsPresent(u, o)'
    <3>1. o # p
      BY <2>2, <2>11 DEF MapsPresent
    <3>2. q # s
      BY <1>1, <2>3, <2>11, <3>1 DEF MapsPresent
    <3>3. MapsPresent(q, o)'
      BY <2>7, <2>11, <3>2 DEF MapsPresent, Active
    <3> QED
      BY <3>3
  <2>12. GoesOn(jobs') /\ SucceedsOnly(jobs', owners)
    BY <1>4, <1>5, <1>9, EndedGoesOn
  <2>13. \A k \in owners : Active(k.page) /\ k.epoch = page[k.page].epoch =>
            \E q \in Paths : MapsPresent(q, k.page)'
    BY <1>4, <2>2
  <2>14. ProjectionIsKept'
    BY <1>5, <2>11, <2>12, <2>13, ProjectionsStay DEF IInv
  <2>15. TableInv' /\ DOMAIN jobs \subseteq DOMAIN jobs'
    BY <1>5, <2>12, TableStays DEF GoesOn
  <2>16. guarded' \subseteq Protection
    BY <1>5, <1>9
  <2> QED
    BY <2>9, <2>10, <2>14, <2>15, <2>16
<1> QED
  BY <1>1, <1>2, <1>4, <1>7, <1>8, <1>9 DEF Removed

LEMMA AttributeDeleteKeeps ==
  ASSUME IInv, NEW w \in Workers, NEW s \in work[w].deleted, AttributeDelete(w, s)
  PROVE  IInv' /\ MappingsForward
<1>1. UNCHANGED <<page, file, changes, toolVars, faults>> /\ work[w].step = "attribute"
  BY DEF AttributeDelete, wikiVars
<1>2. CASE Abandon(w)
  <2>1. UNCHANGED mapping
    BY <1>2 DEF Abandon, tableVars
  <2> QED
    BY <1>1, <1>2, <2>1, SameFaults, AbandonKeeps, SameMappings DEF IInv
<1>3. CASE ~Abandon(w)
  <2>1. /\ work[w] \in RunRow /\ RunOK(work[w]) /\ AllAgree(work[w].results)
        /\ OfGBrain(work[w].claims) /\ Batch(w) \in BatchRow
    BY <1>1, RunFacts DEF IInv
  <2>2. s \in Paths
    BY <2>1 DEF RunRow
  <2>3. PICK run : run = [work[w] EXCEPT !.deleted = work[w].deleted \ {s}]
    OBVIOUS
  <2>4. /\ run \in RunRow /\ RunOK(run) /\ AllAgree(run.results)
        /\ OfGBrain(run.claims) /\ run.step = "attribute"
    BY <1>1, <2>1, <2>3 DEF RunRow, RunOK
  <2>5. Closes(w, run)
    BY <2>4 DEF Closes
  <2>6. PICK was : was = Batch(w).mapping[s]
    OBVIOUS
  <2>7. work' = [work EXCEPT ![w] = run] /\ UNCHANGED batches
    BY <1>3, <2>3 DEF AttributeDelete, tableVars
  <2>8. /\ TableInv' /\ MappingInv' /\ ProjectionIsKept' /\ MappingsForward
        /\ DOMAIN jobs \subseteq DOMAIN jobs' /\ guarded' \subseteq Protection
    <3>1. CASE ~IsMapped(was)
      <4>1. UNCHANGED <<jobs, mapping, guarded, batches>>
        BY <1>3, <2>6, <3>1 DEF AttributeDelete, tableVars
      <4>2. GoesOn(jobs') /\ SucceedsOnly(jobs', {})
        BY <4>1, SameTable DEF IInv
      <4>3. TableInv' /\ MappingInv' /\ ProjectionIsKept' /\ DOMAIN jobs \subseteq DOMAIN jobs'
        BY <1>1, <4>1, <4>2, TableTransaction
      <4> QED
        BY <4>1, <4>3, SameMappings DEF IInv, RunInv
    <3>2. CASE IsMapped(was)
      <4>1. was \in Mapping
        BY <2>1, <2>2, <2>6, <3>2 DEF BatchRow, IsMapped
      <4>2. /\ OwnsAll(w, DeleteJobs(w, was.page)) /\ Removed(w, s)
            /\ ReadsMapping(w, s) => mapping[s] = was
        BY <1>3, <2>6, <3>2 DEF AttributeDelete
      <4> QED
        BY <1>1, <2>2, <2>6, <4>1, <4>2, RemovedKeeps
    <3> QED
      BY <3>1, <3>2
  <2>9. run \in RunRow'
    BY <2>4, <2>7, <2>8, RowsGrow
  <2>10. RunInv'
    BY <2>4, <2>5, <2>7, <2>8, <2>9, RunChanges DEF IInv
  <2>11. ToolInv' /\ CountInv'
    BY <1>1, SameFaults, OutsideStays
  <2> QED
    BY <2>8, <2>10, <2>11 DEF IInv
<1> QED
  BY <1>2, <1>3

-----------------------------------------------------------------------------
(* The tool.                                                               *)
LEMMA ToolStep ==
  ASSUME IInv, UNCHANGED <<tableVars, page, changes, work>>, faults' \in 0 .. MaxFaults,
         ToolInv'
  PROVE  IInv'
<1>1. UNCHANGED <<jobs, mapping, guarded, batches>>
  BY DEF tableVars
<1>2. GoesOn(jobs') /\ SucceedsOnly(jobs', {}) /\ DOMAIN jobs \subseteq DOMAIN jobs'
  BY <1>1, SameTable DEF IInv
<1>3. TableInv' /\ MappingInv' /\ ProjectionIsKept'
  BY <1>1, <1>2, TableTransaction
<1>4. RunInv'
  BY <1>1, <1>2, RunsStay DEF IInv
<1> QED
  BY <1>3, <1>4 DEF IInv, CountInv

LEMMA ServiceFacts ==
  ASSUME ToolInv, serving # None
  PROVE  /\ serving \in Service /\ AllAgree(serving.results) /\ ImportedNow(serving)
         /\ serving.todo \subseteq Expected
  BY DEF ToolInv, ToolTypeOK, Service

LEMMA HeldArePaths ==
  ASSUME ToolInv, NEW e \in Expected
  PROVE  Tool!Held(e) \subseteq Paths
<1>1. e.path \in Paths
  BY DEF Expected
<1>2. \A s \in Paths : brain[s] # None => brain[s].src \in Paths
  BY DEF ToolInv, ToolTypeOK, BrainRow
<1> QED
  BY <1>1, <1>2 DEF Tool!Held, Tool!RowsOf

(* A result that imported nothing agrees with everything.                  *)
LEMMA OtherResults ==
  ASSUME NEW e \in Expected, NEW status \in {"error", "superseded", "recovery"},
         NEW held \in SUBSET Paths
  PROVE  Tool!Result(e, status, held) \in PageResult /\ Agrees(Tool!Result(e, status, held))
  BY DEF Tool!Result, PageResult, Agrees

LEMMA AcceptKeeps ==
  ASSUME ToolInv, NEW req \in inbox, Tool!Accept(req)
  PROVE  ToolInv'
<1>1. UNCHANGED <<file, brain, stored>> /\ inbox' = inbox \ {req} /\ req \in Request
  BY DEF Tool!Accept, ToolInv, ToolTypeOK
<1>2. CASE serving' = None
  BY <1>1, <1>2 DEF ToolInv, ToolTypeOK
<1>3. CASE serving' = [req |-> req, step |-> "page", todo |-> req.expected,
                       page |-> None, from |-> None, held |-> {},
                       results |-> {}, present |-> {}, deleted |-> {}]
  <2>1. serving' \in Service
    BY <1>1, <1>3 DEF Service, Request
  <2>2. AllAgree(serving'.results) /\ ImportedNow(serving)'
    BY <1>3 DEF AllAgree, ImportedNow
  <2> QED
    BY <1>1, <2>1, <2>2 DEF ToolInv, ToolTypeOK
<1> QED
  BY <1>2, <1>3 DEF Tool!Accept

LEMMA RefusePageKeeps ==
  ASSUME ToolInv, NEW e \in serving.todo, Tool!RefusePage(e)
  PROVE  ToolInv'
<1>1. /\ serving # None /\ serving.step = "page" /\ UNCHANGED <<file, brain, inbox, stored>>
      /\ serving' = [serving EXCEPT !.todo = @ \ {e},
                       !.results = @ \cup {Tool!Result(e, "error", Tool!Held(e))}]
  BY DEF Tool!RefusePage
<1>2. serving \in Service /\ AllAgree(serving.results) /\ e \in Expected
  BY <1>1, ServiceFacts
<1>3. PICK result : result = Tool!Result(e, "error", Tool!Held(e))
  OBVIOUS
<1>4. result \in PageResult /\ Agrees(result)
  BY <1>2, <1>3, HeldArePaths, OtherResults
<1>5. /\ serving' \in Service /\ serving'.step = "page"
      /\ serving'.results = serving.results \cup {result}
  BY <1>1, <1>2, <1>3, <1>4 DEF Service
<1>6. AllAgree(serving'.results) /\ ImportedNow(serving)'
  BY <1>2, <1>4, <1>5 DEF AllAgree, ImportedNow
<1> QED
  BY <1>1, <1>5, <1>6 DEF ToolInv, ToolTypeOK

LEMMA ImportPageKeeps ==
  ASSUME ToolInv, NEW e \in serving.todo, Tool!ImportPage(e)
  PROVE  ToolInv'
<1>1. PICK old : old = Tool!RowsOf(e.page)
  OBVIOUS
<1>2. PICK over : over = IF old # {} THEN old ELSE {e.path}
  OBVIOUS
<1>3. PICK gen : gen = IF \E s \in over : brain[s] # None
                       THEN brain[CHOOSE s \in over : TRUE].gen + 1 ELSE 1
  OBVIOUS
<1>4. PICK row : row = [page |-> e.page, rev |-> file[e.path].rev, gen |-> gen,
                        src |-> e.path]
  OBVIOUS
<1>5. PICK from : from = IF old = {} THEN e.path ELSE CHOOSE s \in old : TRUE
  OBVIOUS
<1>6. /\ serving # None /\ serving.step = "page" /\ Tool!FileMatches(e)
      /\ brain' = [s \in Paths |-> IF s = e.path THEN row
                                   ELSE IF s \in old THEN None ELSE brain[s]]
      /\ serving' = [serving EXCEPT !.step = "verify", !.page = e,
                                    !.held = Tool!Held(e), !.from = from]
      /\ UNCHANGED <<file, inbox, stored>>
  BY <1>1, <1>2, <1>3, <1>4, <1>5 DEF Tool!ImportPage, Tool!Importable
<1>7. serving \in Service /\ AllAgree(serving.results) /\ e \in Expected
  BY <1>6, ServiceFacts
<1>8. e.page \in Pages /\ e.rev \in Revs /\ e.path \in Paths
  BY <1>7 DEF Expected
<1>9. file[e.path].rev = e.rev
  BY <1>6 DEF Tool!FileMatches
<1>10. old \subseteq Paths /\ \A s \in old : brain[s] # None
  BY <1>1 DEF Tool!RowsOf
<1>11. from \in Paths
  BY <1>5, <1>8, <1>10
<1>12. gen \in Nat
  <2>1. CASE ~(\E s \in over : brain[s] # None)
    BY <1>3, <2>1
  <2>2. CASE \E s \in over : brain[s] # None
    <3>1. PICK s : s = CHOOSE x \in over : TRUE
      OBVIOUS
    <3>2. s \in over /\ s \in Paths /\ brain[s] # None
      BY <1>2, <1>8, <1>10, <2>2, <3>1
    <3>3. brain[s] \in BrainRow
      BY <3>2 DEF ToolInv, ToolTypeOK
    <3>4. brain[s].gen \in Nat
      BY <3>3 DEF BrainRow
    <3> QED
      BY <1>3, <2>2, <3>1, <3>4
  <2> QED
    BY <2>1, <2>2
<1>13. row \in BrainRow /\ Tool!Hash(row) = [page |-> e.page, rev |-> e.rev]
  BY <1>4, <1>8, <1>9, <1>12 DEF BrainRow, Tool!Hash
<1>14. brain' \in [Paths -> BrainRow \cup {None}] /\ brain'[e.path] = row
  BY <1>6, <1>8, <1>13 DEF ToolInv, ToolTypeOK
<1>15. Tool!Held(e) \subseteq Paths
  BY <1>7, HeldArePaths
<1>16. /\ serving' \in Service /\ serving'.results = serving.results
       /\ serving'.page = e /\ serving'.from = from
  BY <1>6, <1>7, <1>11, <1>15 DEF Service
<1>17. ImportedNow(serving)'
  BY <1>7, <1>11, <1>13, <1>14, <1>16 DEF ImportedNow, Tool!Hash
<1> QED
  BY <1>6, <1>7, <1>14, <1>16, <1>17 DEF ToolInv, ToolTypeOK

LEMMA PageDoneKeeps ==
  ASSUME ToolInv, Tool!Verifying, NEW result \in PageResult, Agrees(result),
         serving' = Tool!PageDone(result), UNCHANGED <<file, inbox, stored>>,
         brain' \in [Paths -> BrainRow \cup {None}]
  PROVE  ToolInv'
<1>1. serving \in Service /\ AllAgree(serving.results)
  BY ServiceFacts DEF Tool!Verifying
<1>2. /\ serving' \in Service /\ serving'.step = "page"
      /\ serving'.results = serving.results \cup {result}
  BY <1>1 DEF Tool!PageDone, Service
<1>3. AllAgree(serving'.results) /\ ImportedNow(serving)'
  BY <1>1, <1>2 DEF AllAgree, ImportedNow
<1> QED
  BY <1>2, <1>3 DEF ToolInv, ToolTypeOK

LEMMA VerifyPageKeeps ==
  ASSUME ToolInv, Tool!VerifyPage
  PROVE  ToolInv'
<1>1. PICK e : e = serving.page
  OBVIOUS
<1>2. Tool!Verifying /\ UNCHANGED <<file, inbox, stored>>
  BY DEF Tool!VerifyPage
<1>3. serving \in Service /\ ImportedNow(serving) /\ serving.step = "verify"
  BY <1>2, ServiceFacts DEF Tool!Verifying
<1>4. /\ e \in Expected /\ serving.from \in Paths /\ brain[e.path] \in BrainRow
      /\ Tool!Hash(brain[e.path]) = [page |-> e.page, rev |-> e.rev]
      /\ serving.held \subseteq Paths
  BY <1>1, <1>3 DEF ImportedNow, Service
<1>5. brain \in [Paths -> BrainRow \cup {None}]
  BY DEF ToolInv, ToolTypeOK
<1>6. CASE serving' = Tool!PageDone(Tool!Imported(e)) /\ UNCHANGED brain
  <2>1. Tool!Imported(e) \in PageResult /\ Agrees(Tool!Imported(e))
    <3>1. brain[e.path].gen \in Nat /\ [page |-> e.page, rev |-> e.rev] \in Bytes
      BY <1>4 DEF BrainRow, Expected, Bytes
    <3> QED
      BY <1>4, <3>1 DEF Tool!Imported, PageResult, Agrees
  <2> QED
    BY <1>2, <1>5, <1>6, <2>1, PageDoneKeeps
<1>7. CASE /\ serving' = Tool!PageDone(Tool!Result(e, "superseded", serving.held))
           /\ brain' = [s \in Paths |-> IF s = serving.from THEN brain[e.path]
                                        ELSE IF s = e.path THEN None ELSE brain[s]]
  <2>1. brain' \in [Paths -> BrainRow \cup {None}]
    BY <1>4, <1>5, <1>7
  <2>2. /\ Tool!Result(e, "superseded", serving.held) \in PageResult
        /\ Agrees(Tool!Result(e, "superseded", serving.held))
    BY <1>4, OtherResults
  <2> QED
    BY <1>2, <1>7, <2>1, <2>2, PageDoneKeeps
<1> QED
  BY <1>1, <1>6, <1>7 DEF Tool!VerifyPage

LEMMA FailCompensationKeeps ==
  ASSUME ToolInv, Tool!FailCompensation
  PROVE  ToolInv'
<1>1. PICK e : e = serving.page
  OBVIOUS
<1>2. /\ Tool!Verifying /\ UNCHANGED <<file, brain, inbox, stored>>
      /\ serving' = Tool!PageDone(Tool!Result(e, "recovery", serving.held))
  BY <1>1 DEF Tool!FailCompensation
<1>3. serving \in Service /\ ImportedNow(serving) /\ serving.step = "verify"
  BY <1>2, ServiceFacts DEF Tool!Verifying
<1>4. e \in Expected /\ serving.held \subseteq Paths
  BY <1>1, <1>3 DEF ImportedNow, Service
<1>5. /\ Tool!Result(e, "recovery", serving.held) \in PageResult
      /\ Agrees(Tool!Result(e, "recovery", serving.held))
  BY <1>4, OtherResults
<1>6. brain' \in [Paths -> BrainRow \cup {None}]
  BY <1>2 DEF ToolInv, ToolTypeOK
<1> QED
  BY <1>2, <1>5, <1>6, PageDoneKeeps

LEMMA WalkKeeps ==
  ASSUME ToolInv, Tool!Walk
  PROVE  ToolInv'
<1>1. PICK present : present = {q \in Paths : file[q] # None}
  OBVIOUS
<1>2. /\ serving # None /\ UNCHANGED <<file, brain, inbox, stored>>
      /\ serving' = [serving EXCEPT !.step = "delete", !.present = present]
  BY <1>1 DEF Tool!Walk
<1>3. serving \in Service /\ AllAgree(serving.results) /\ present \subseteq Paths
  BY <1>1, <1>2, ServiceFacts
<1>4. serving' \in Service /\ serving'.step = "delete" /\ serving'.results = serving.results
  BY <1>2, <1>3 DEF Service
<1> QED
  BY <1>2, <1>3, <1>4 DEF ToolInv, ToolTypeOK, ImportedNow

LEMMA DeleteRowsKeeps ==
  ASSUME ToolInv, Tool!DeleteRows
  PROVE  ToolInv'
<1>1. PICK gone : gone = Tool!Deletable
  OBVIOUS
<1>2. /\ serving # None /\ UNCHANGED <<file, inbox, stored>>
      /\ serving' = [serving EXCEPT !.step = "store", !.deleted = gone]
      /\ brain' = [s \in Paths |-> IF s \in gone THEN None ELSE brain[s]]
  BY <1>1 DEF Tool!DeleteRows
<1>3. serving \in Service /\ AllAgree(serving.results) /\ gone \subseteq Paths
  BY <1>1, <1>2, ServiceFacts DEF Tool!Deletable
<1>4. serving' \in Service /\ serving'.step = "store" /\ serving'.results = serving.results
  BY <1>2, <1>3 DEF Service
<1>5. brain' \in [Paths -> BrainRow \cup {None}]
  BY <1>2 DEF ToolInv, ToolTypeOK
<1> QED
  BY <1>2, <1>3, <1>4, <1>5 DEF ToolInv, ToolTypeOK, ImportedNow

LEMMA StoreKeeps ==
  ASSUME ToolInv, Tool!Store
  PROVE  ToolInv'
<1>1. PICK answer : answer = [protected |-> serving.req.protected,
                              results |-> serving.results,
                              deleted |-> serving.deleted,
                              unlisted |-> Tool!Unlisted]
  OBVIOUS
<1>2. /\ serving # None /\ UNCHANGED <<file, brain, inbox>> /\ serving' = None
      /\ stored' = [k \in DOMAIN stored \cup {serving.req.key} |->
                      IF k \in DOMAIN stored THEN stored[k] ELSE answer]
  BY <1>1 DEF Tool!Store
<1>3. serving \in Service /\ AllAgree(serving.results)
  BY <1>2, ServiceFacts
<1>4. answer \in Answer /\ AllAgree(answer.results)
  BY <1>1, <1>3 DEF Answer, Service, Request, Tool!Unlisted
<1>5. \A k \in DOMAIN stored' : stored'[k] \in Answer /\ AllAgree(stored'[k].results)
  BY <1>2, <1>4 DEF ToolInv, ToolTypeOK
<1> QED
  BY <1>2, <1>5 DEF ToolInv, ToolTypeOK

LEMMA RestartKeeps ==
  ASSUME ToolInv, Tool!Restart
  PROVE  ToolInv'
  BY DEF Tool!Restart, ToolInv, ToolTypeOK

LEMMA ServeKeeps ==
  ASSUME IInv, Serve
  PROVE  IInv'
<1>1. UNCHANGED <<tableVars, page, changes, work, faults>> /\ ToolInv
  BY DEF Serve, IInv
<1>2. ToolInv'
  BY <1>1, AcceptKeeps, RefusePageKeeps, ImportPageKeeps, VerifyPageKeeps, WalkKeeps,
     DeleteRowsKeeps, StoreKeeps
  DEF Serve, Tool!Serve
<1> QED
  BY <1>1, <1>2, SameFaults, ToolStep

-----------------------------------------------------------------------------
LEMMA InitIInv ==
  ASSUME Init
  PROVE  IInv
<1>1. /\ "gbrain" \in Targets /\ HomeOf \in [Pages -> Paths] /\ FirstRev \in Revs
      /\ Projected \subseteq Pages /\ MaxEpoch \in Nat \ {0}
      /\ MaxChanges \in Nat /\ MaxFaults \in Nat
      /\ \A p, o \in Pages : HomeOf[p] = HomeOf[o] => p = o
  BY GBrainProjectionAssumption
<1>2. NoRev \notin Revs /\ NoOwner \notin Workers /\ MaxAttempts \in Nat \ {0}
  BY ProjectionJobsAssumption
<1>3. PICK first : first = [Fresh EXCEPT !.status = "succeeded", !.attempts = 1]
  OBVIOUS
<1>4. first \in Job /\ first.status = "succeeded" /\ first.owner = NoOwner
  <2>1. 1 \in 0 .. MaxAttempts
    BY <1>2
  <2>2. first = [status |-> "succeeded", attempts |-> 1, wait |-> 0, owner |-> NoOwner,
                 lease |-> 0]
    BY <1>3 DEF Fresh
  <2> QED
    BY <2>1, <2>2 DEF Job, Statuses
<1>5. jobs = [k \in {FirstKey(p) : p \in Projected} |-> first]
  BY <1>3 DEF Init
<1>6. \A k \in DOMAIN jobs : /\ k \in Key /\ k.op = "upsert" /\ k.epoch = 1
                             /\ k.page \in Projected /\ jobs[k] = first
  BY <1>1, <1>5 DEF FirstKey, Key, Ops
<1>7. page = [p \in Pages |->
               [life |-> "active", path |-> HomeOf[p],
                rev |-> IF p \in Projected THEN FirstRev ELSE NoRev,
                epoch |-> IF p \in Projected THEN 1 ELSE 0, asked |-> TRUE]]
  BY DEF Init
<1>8. page \in [Pages -> Page]
  BY <1>1, <1>7 DEF Page
<1>9. \A p \in Projected : page[p].epoch = 1 /\ page[p].rev = FirstRev
  BY <1>1, <1>7
<1>10. TableInv
  <2>1. TableOK(jobs)
    BY <1>4, <1>6 DEF TableOK, IsTable, Disciplined
  <2>2. JobsOfThePast
    BY <1>6, <1>9 DEF JobsOfThePast
  <2>3. OneOpenDelete
    BY <1>6 DEF OneOpenDelete
  <2> QED
    BY <1>8, <2>1, <2>2, <2>3 DEF TableInv
<1>11. \A q \in Paths : HomePages(q) # {} =>
         /\ (CHOOSE p \in HomePages(q) : TRUE) \in Projected
         /\ HomeOf[CHOOSE p \in HomePages(q) : TRUE] = q
  <2> SUFFICES ASSUME NEW q \in Paths, HomePages(q) # {}
               PROVE  (CHOOSE p \in HomePages(q) : TRUE) \in HomePages(q)
    BY DEF HomePages
  <2> QED
    OBVIOUS
<1>12. PICK home : home = [q \in Paths |-> CHOOSE p \in HomePages(q) : TRUE]
  OBVIOUS
<1>13. mapping = [q \in Paths |->
         IF HomePages(q) = {} THEN None
         ELSE [page |-> home[q], rev |-> FirstRev, epoch |-> 1, gen |-> 1,
               hash |-> [page |-> home[q], rev |-> FirstRev], status |-> "current"]]
  BY <1>12 DEF Init, AtHome
<1>14. \A q \in Paths : HomePages(q) # {} => home[q] \in Projected /\ HomeOf[home[q]] = q
  BY <1>11, <1>12
<1>15. \A q \in Paths : mapping[q] # None =>
         /\ mapping[q] \in Mapping /\ mapping[q].page = home[q] /\ home[q] \in Projected
         /\ mapping[q].epoch = 1 /\ mapping[q].rev = FirstRev
         /\ mapping[q].hash = [page |-> home[q], rev |-> FirstRev]
  BY <1>1, <1>13, <1>14 DEF Mapping, Bytes
<1>16. MappingInv
  <2>1. mapping \in [Paths -> Mapping \cup {None}]
    BY <1>13, <1>15
  <2>2. MappingsOfThePast
    <3> SUFFICES ASSUME NEW s \in Paths, mapping[s] # None
                 PROVE  mapping[s].epoch <= page[mapping[s].page].epoch
      BY DEF MappingsOfThePast
    <3>1. mapping[s].epoch = 1 /\ page[mapping[s].page].epoch = 1
      BY <1>9, <1>15
    <3> QED
      BY <3>1
  <2>3. MappingsAgree
    BY <1>15 DEF MappingsAgree
  <2> QED
    BY <2>1, <2>2, <2>3 DEF MappingInv
<1>17. RunInv
  <2>1. guarded = {} /\ batches = << >> /\ work = [w \in Workers |-> Idle]
    BY DEF Init
  <2>2. batches \in Seq(BatchRow) /\ DOMAIN batches = {}
    BY <2>1
  <2> QED
    BY <2>1, <2>2, IdleRun DEF RunInv, MembersOfGBrain
<1>18. ToolInv
  <2>1. file = [q \in Paths |-> IF HomePages(q) = {} THEN None
                                ELSE [page |-> home[q], rev |-> FirstRev]]
    BY <1>12 DEF Init, AtHome
  <2>2. brain = [q \in Paths |-> IF HomePages(q) = {} THEN None
                   ELSE [page |-> home[q], rev |-> FirstRev, gen |-> 1, src |-> q]]
    BY <1>12 DEF Init, AtHome
  <2>3. file \in [Paths -> Bytes \cup {None}] /\ brain \in [Paths -> BrainRow \cup {None}]
    BY <1>1, <1>14, <2>1, <2>2 DEF Bytes, BrainRow
  <2>4. inbox = {} /\ serving = None /\ stored = << >>
    BY DEF Init
  <2>5. DOMAIN stored = {}
    BY <2>4
  <2> QED
    BY <2>3, <2>4, <2>5 DEF ToolInv, ToolTypeOK
<1>19. CountInv
  <2>1. changes = 0 /\ faults = 0
    BY DEF Init
  <2> QED
    BY <1>1, <2>1 DEF CountInv
<1>20. ProjectionIsKept
  <2> SUFFICES ASSUME NEW p \in Pages, Active(p)
               PROVE  \E s \in Paths : MapsPresent(s, p)
    BY DEF ProjectionIsKept
  <2>1. p \in Projected
    BY <1>7 DEF Active
  <2>2. HomeOf[p] \in Paths /\ p \in HomePages(HomeOf[p])
    BY <1>1, <2>1 DEF HomePages
  <2>3. home[HomeOf[p]] = p
    BY <1>1, <1>14, <2>2
  <2>4. PICK m : m = mapping[HomeOf[p]]
    OBVIOUS
  <2>5. /\ m.page = p /\ m.rev = FirstRev /\ m.epoch = 1 /\ m.status = "current"
        /\ m.hash = [page |-> p, rev |-> FirstRev] /\ m.gen = 1
        /\ m = [page |-> p, rev |-> FirstRev, epoch |-> 1, gen |-> 1,
                hash |-> [page |-> p, rev |-> FirstRev], status |-> "current"]
    BY <1>13, <2>2, <2>3, <2>4
  <2>6. m \in Mapping
    BY <1>1, <2>5 DEF Mapping, Bytes
  <2>7. m # None
    BY <2>6, NoneAssumption
  <2>8. MapsPresent(HomeOf[p], p)
    BY <1>9, <2>1, <2>4, <2>5, <2>7 DEF MapsPresent
  <2> QED
    BY <2>2, <2>8
<1> QED
  BY <1>10, <1>16, <1>17, <1>18, <1>19, <1>20 DEF IInv

LEMMA NextIInv ==
  ASSUME IInv, [Next]_vars
  PROVE  IInv'
<1>1. CASE Wiki
  BY <1>1, WikiKeeps
<1>2. ASSUME NEW w \in Workers, Run(w)
      PROVE  IInv'
  BY <1>2, ClaimKeeps, ResumeKeeps, RefuseClaimsKeeps, CreateKeeps, SendKeeps, ReceiveKeeps,
     RefusedKeeps, AttributePageKeeps, AttributeDeleteKeeps, FinishSegmentKeeps,
     FinishJobsKeeps, FinishBatchKeeps
  DEF Run
<1>3. CASE Serve
  BY <1>3, ServeKeeps
<1>4. CASE Fault
  <2>1. CASE \E w \in Workers : Timeout(w) \/ Crash(w) \/ Stall(w)
    BY <2>1, TimeoutKeeps, CrashKeeps, StallKeeps
  <2>2. CASE RestartGBrain
    BY <2>2, FaultCounts, RestartKeeps, ToolStep DEF RestartGBrain, IInv
  <2>3. CASE FailCompensation
    BY <2>3, FaultCounts, FailCompensationKeeps, ToolStep DEF FailCompensation, IInv
  <2> QED
    BY <1>4, <2>1, <2>2, <2>3 DEF Fault
<1>5. CASE Tick
  BY <1>5, TickKeeps
<1>6. CASE UNCHANGED vars
  <2>1. UNCHANGED <<mapping, guarded, batches, work, page, file, changes, toolVars, jobs, faults>>
    BY <1>6 DEF vars, tableVars, wikiVars
  <2>2. GoesOn(jobs') /\ SucceedsOnly(jobs', {}) /\ DOMAIN jobs' = DOMAIN jobs
    BY <2>1, SameTable DEF IInv
  <2> QED
    BY <2>1, <2>2, SameFaults, LeaseStepKeeps
<1> QED
  BY <1>1, <1>2, <1>3, <1>4, <1>5, <1>6 DEF Next

LEMMA NextMappings ==
  ASSUME IInv, [Next]_vars
  PROVE  MappingsForward
<1>1. CASE UNCHANGED mapping
  BY <1>1, SameMappings DEF IInv
<1>2. CASE Wiki
  BY <1>1, <1>2 DEF Wiki, Install, RemoveFile, MoveFile, FileChange, tableVars,
     Finalize, DeletePage, RenamePage, Bump
<1>3. ASSUME NEW w \in Workers, Run(w)
      PROVE  MappingsForward
  <2>1. CASE \E r \in work[w].results : AttributePage(w, r)
    BY <2>1, AttributePageKeeps
  <2>2. CASE \E s \in work[w].deleted : AttributeDelete(w, s)
    BY <2>2, AttributeDeleteKeeps
  <2>3. CASE Claim(w) \/ RefuseClaims(w) \/ Resume(w) \/ Create(w) \/ Receive(w)
    BY <1>1, <2>3 DEF Claim, RefuseClaims, Resume, Create, Receive, Abandon, tableVars
  <2>4. CASE Send(w) \/ Refused(w)
    BY <1>1, <2>4 DEF Send, SendSegment, Refused, TransportFailed, Abandon, tableVars
  <2>5. CASE FinishSegment(w) \/ FinishJobs(w) \/ FinishBatch(w)
    BY <1>1, <2>5 DEF FinishSegment, FinishJobs, FinishBatch, Abandon, tableVars
  <2> QED
    BY <1>3, <2>1, <2>2, <2>3, <2>4, <2>5 DEF Run
<1>4. CASE Serve \/ Fault \/ Tick \/ UNCHANGED vars
  BY <1>1, <1>4 DEF Serve, Fault, Tick, vars, tableVars, Timeout, TransportFailed, Crash,
     Abandon, Stall, RestartGBrain, FailCompensation
<1> QED
  BY <1>2, <1>3, <1>4 DEF Next

LEMMA Invariance == Spec => []IInv
<1>1. Init => IInv
  BY InitIInv
<1>2. IInv /\ [Next]_vars => IInv'
  BY NextIInv
<1> QED
  BY <1>1, <1>2, PTL DEF Spec

(* Every variable keeps its type: a batch that succeeded has no segment    *)
(* left, a run waits exactly while it has a request.                       *)
THEOREM GBrainTypeCorrect == Spec => []TypeOK
<1>1. IInv => TypeOK
  BY DEF IInv, TableInv, TableOK, MappingInv, RunInv, ToolInv, CountInv, TypeOK
<1> QED
  BY <1>1, Invariance, PTL

(* What is cited as evidence for a page is its present revision            *)
(* (map_gbrain_hit): the hash goes unchanged from the import through the   *)
(* stored answer into the mapping.                                         *)
THEOREM EvidenceCorrect == Spec => []EvidenceIsCurrent
<1>1. ASSUME IInv, NEW s \in Paths, NEW p \in Pages, Cited(s, p)
      PROVE  brain[s].page = p /\ brain[s].rev = page[p].rev
  <2>1. /\ mapping[s] # None /\ mapping[s].page = p /\ mapping[s].rev = page[p].rev
        /\ [page |-> brain[s].page, rev |-> brain[s].rev] = mapping[s].hash
    BY <1>1 DEF Cited, MapsPresent, Tool!Hash
  <2>2. mapping[s].hash = [page |-> p, rev |-> page[p].rev]
    BY <1>1, <2>1 DEF IInv, MappingInv, MappingsAgree
  <2> QED
    BY <2>1, <2>2
<1>2. IInv => EvidenceIsCurrent
  BY <1>1 DEF EvidenceIsCurrent
<1> QED
  BY <1>2, Invariance, PTL

(* The projection of an active page never ends in nothing                  *)
(* (_attribute_page_success, _attribute_deletions): where its jobs have    *)
(* all succeeded, its present epoch is mapped, unless it is the epoch of a *)
(* compile that enqueued none (wiki_revisions.py:7777).                    *)
THEOREM ProjectionsAreKept == Spec => []ProjectionIsKept
<1>1. IInv => ProjectionIsKept
  BY DEF IInv
<1> QED
  BY <1>1, Invariance, PTL

(* A late answer never replaces the mapping of a later epoch               *)
(* (_page_matches_expected).                                               *)
THEOREM MappingForward == Spec => MappingNeverGoesBack
<1>1. IInv /\ [Next]_vars =>
        [\A p \in Pages, s \in Paths :
           IsMapped(mapping[s]) /\ IsMapped(mapping'[s])
             /\ mapping'[s].page = p /\ mapping[s].page = p
           => mapping'[s].epoch >= mapping[s].epoch]_vars
  BY NextMappings DEF MappingsForward
<1> QED
  BY <1>1, Invariance, PTL DEF Spec, MappingNeverGoesBack

-----------------------------------------------------------------------------
(* With one worker, what it waits for protects what is guarded.            *)
OneWorker == \A v, w \in Workers : v = w

HasDelete(K, p) == \E k \in K : k.op = "delete" /\ k.page = p
Covers(req, K) ==
  req.mode = "reconcile" =>
    \A g \in guarded : g.at \in req.protected \/ HasDelete(K, g.page)

WaitCovers(w) ==
  work[w].step = "wait" =>
    work[w].req.key[1] = work[w].batch /\ Covers(work[w].req, Batch(w).members)
NotServedAgain(w) ==
  work[w].step = "attribute" => work[w].req \notin inbox /\ ~InService(work[w].req)
DeletesReconcile ==
  serving # None /\ serving.step = "delete" => serving.req.mode = "reconcile"

RequestInv ==
  DeletesReconcile /\ \A w \in Workers : WaitCovers(w) /\ NotServedAgain(w)

LEMMA WorkerRequests ==
  ASSUME OneWorker, RequestInv, NEW w \in Workers, UNCHANGED <<inbox, serving>>,
         WaitCovers(w)', NotServedAgain(w)'
  PROVE  RequestInv'
  BY DEF OneWorker, RequestInv, DeletesReconcile

LEMMA OtherRunRequests ==
  ASSUME OneWorker, RequestInv, IInv, NEW w \in Workers, UNCHANGED <<inbox, serving>>,
         NEW run, work' = [work EXCEPT ![w] = run], run.step \notin {"wait", "attribute"}
  PROVE  RequestInv'
<1>1. work'[w] = run
  BY DEF IInv, RunInv
<1> QED
  BY <1>1, WorkerRequests DEF WaitCovers, NotServedAgain

LEMMA StepRequests ==
  ASSUME OneWorker, RequestInv, IInv, NEW w \in Workers, UNCHANGED <<inbox, serving>>,
         NEW step \in Steps \ {"wait", "attribute"}, work'[w].step = step
  PROVE  RequestInv'
  BY WorkerRequests DEF WaitCovers, NotServedAgain

LEMMA AbandonRequests ==
  ASSUME OneWorker, RequestInv, IInv, NEW w \in Workers, UNCHANGED <<inbox, serving>>,
         work' = [work EXCEPT ![w] = Idle]
  PROVE  RequestInv'
  BY OtherRunRequests DEF Idle

LEMMA SendRequests ==
  ASSUME OneWorker, RequestInv, IInv, NEW w \in Workers, Send(w)
  PROVE  RequestInv'
<1>1. PICK i \in Left(w) : SendSegment(w, i)
  BY DEF Send, FirstLeft
<1>2. work[w].step = "send" /\ UNCHANGED serving
  BY DEF Send
<1>3. CASE ~(HoldsBatch(w) /\ HoldsMembers(w))
  BY <1>1, <1>2, <1>3, AbandonRequests DEF SendSegment, Abandon
<1>4. CASE HoldsBatch(w) /\ HoldsMembers(w)
  <2>1. PICK req : req =
          [key |-> <<work[w].batch, i>>, mode |-> Batch(w).segs[i].mode,
           expected |-> Batch(w).segs[i].expected,
           protected |-> IF Batch(w).segs[i].mode = "incremental" THEN work[w].known
                         ELSE {g.at : g \in {h \in guarded : ~GivesWay(w, h)}}]
    OBVIOUS
  <2>2. /\ batches' = [batches EXCEPT ![work[w].batch].segs[i].status = "running"]
        /\ work' = [work EXCEPT ![w].step = "wait", ![w].seg = i, ![w].req = req]
        /\ UNCHANGED guarded
    BY <1>1, <1>4, <2>1 DEF SendSegment
  <2>3. /\ work[w].batch \in DOMAIN batches /\ Batch(w) \in BatchRow
        /\ work \in [Workers -> RunRow] /\ batches \in Seq(BatchRow)
    BY <1>2, RunFacts DEF IInv, RunInv
  <2>4. PICK run : run = [work[w] EXCEPT !.step = "wait", !.seg = i, !.req = req]
    OBVIOUS
  <2>5. work' = [work EXCEPT ![w] = run]
    BY <2>2, <2>3, <2>4 DEF RunRow
  <2>6. work'[w] = run /\ run.step = "wait" /\ run.req = req /\ run.batch = work[w].batch
    BY <2>3, <2>4, <2>5 DEF RunRow
  <2>7. batches'[work[w].batch].members = Batch(w).members
    <3>1. PICK row : row = [batches[work[w].batch] EXCEPT !.segs[i].status = "running"]
      OBVIOUS
    <3>2. batches' = [batches EXCEPT ![work[w].batch] = row]
      BY <2>2, <3>1
    <3>3. row.members = Batch(w).members
      BY <2>3, <3>1 DEF Batch, BatchRow
    <3> QED
      BY <2>3, <3>2, <3>3
  <2>8. req.key[1] = work[w].batch
    BY <2>1
  <2>9. Covers(req, Batch(w).members)'
    <3> SUFFICES ASSUME req.mode = "reconcile", NEW g \in guarded, g.at \notin req.protected
                 PROVE  HasDelete(Batch(w).members, g.page)
      BY <2>2, <2>6, <2>7 DEF Covers, Batch
    <3>1. req.protected = {h.at : h \in {f \in guarded : ~GivesWay(w, f)}}
      BY <2>1
    <3>2. GivesWay(w, g)
      BY <3>1
    <3>3. Cardinality(DeleteJobs(w, g.page)) = 1
      BY <3>2 DEF GivesWay
    <3>4. DeleteJobs(w, g.page) # {}
      BY <3>3, FS_EmptySet
    <3> QED
      BY <3>4 DEF DeleteJobs, HasDelete
  <2>10. WaitCovers(w)' /\ NotServedAgain(w)'
    BY <2>6, <2>8, <2>9 DEF WaitCovers, NotServedAgain, Covers, Batch
  <2> QED
    BY <1>2, <2>10 DEF OneWorker, RequestInv, DeletesReconcile
<1> QED
  BY <1>3, <1>4

LEMMA AnswerRequests ==
  ASSUME OneWorker, RequestInv, IInv, NEW w \in Workers,
         \/ Receive(w)
         \/ \E r \in work[w].results : AttributePage(w, r)
         \/ \E s \in work[w].deleted : AttributeDelete(w, s)
  PROVE  RequestInv'
<1>1. UNCHANGED <<inbox, serving>>
  BY DEF Receive, AttributePage, AttributeDelete, toolVars
<1>2. work[w] \in RunRow /\ work \in [Workers -> RunRow]
  BY DEF IInv, RunInv
<1>3. CASE Abandon(w)
  BY <1>1, <1>3, AbandonRequests DEF Abandon
<1>4. CASE Receive(w) /\ ~Abandon(w)
  <2>0. PICK answer : answer = stored[work[w].req.key]
    OBVIOUS
  <2>1. work'[w].step = "attribute" /\ work'[w].req = work[w].req
    <3>1. work' = [work EXCEPT
             ![w].step = "attribute", ![w].results = answer.results,
             ![w].deleted = answer.deleted,
             ![w].known = @ \cup answer.unlisted \cup UNION {r.held : r \in answer.results}]
      BY <1>4, <2>0 DEF Receive
    <3> QED
      BY <1>2, <3>1 DEF RunRow
  <2>2. work[w].req \notin inbox /\ ~InService(work[w].req)
    BY <1>4 DEF Receive, Answered
  <2>3. WaitCovers(w)' /\ NotServedAgain(w)'
    BY <1>1, <2>1, <2>2 DEF WaitCovers, NotServedAgain, InService
  <2> QED
    BY <1>1, <2>3, WorkerRequests
<1>5. CASE /\ \/ \E r \in work[w].results : AttributePage(w, r)
              \/ \E s \in work[w].deleted : AttributeDelete(w, s)
           /\ ~Abandon(w)
  <2>1. /\ work[w].step = "attribute"
        /\ \/ \E r : work' = [work EXCEPT ![w].results = @ \ {r}]
           \/ \E s : work' = [work EXCEPT ![w].deleted = @ \ {s}]
    BY <1>5 DEF AttributePage, AttributeDelete
  <2>2. work'[w].step = "attribute" /\ work'[w].req = work[w].req
    BY <1>2, <2>1 DEF RunRow
  <2>3. WaitCovers(w)' /\ NotServedAgain(w)'
    BY <1>1, <2>1, <2>2 DEF WaitCovers, NotServedAgain, InService, RequestInv
  <2> QED
    BY <1>1, <2>3, WorkerRequests
<1> QED
  BY <1>3, <1>4, <1>5

LEMMA ToolRequests ==
  ASSUME RequestInv, IInv, UNCHANGED <<guarded, batches, work>>,
         Tool!Serve \/ Tool!Restart \/ Tool!FailCompensation
  PROVE  RequestInv'
<1>1. ASSUME serving' = None, inbox' \subseteq inbox
      PROVE  RequestInv'
  BY <1>1 DEF RequestInv, DeletesReconcile, WaitCovers, NotServedAgain, InService,
     Covers, Batch
<1>2. ASSUME serving # None, inbox' = inbox, serving'.req = serving.req,
             serving'.step = "delete" => serving.req.mode = "reconcile"
      PROVE  RequestInv'
  BY <1>2 DEF RequestInv, DeletesReconcile, WaitCovers, NotServedAgain, InService,
     Covers, Batch
<1>3. serving # None => serving \in Service
  BY ServiceFacts DEF IInv
<1>4. ASSUME NEW req \in inbox, Tool!Accept(req)
      PROVE  RequestInv'
  <2>1. CASE serving' = None
    BY <1>1, <1>4, <2>1 DEF Tool!Accept
  <2>2. CASE serving' = [req |-> req, step |-> "page", todo |-> req.expected,
                         page |-> None, from |-> None, held |-> {},
                         results |-> {}, present |-> {}, deleted |-> {}]
    <3>1. serving'.req = req /\ serving'.step = "page" /\ inbox' \subseteq inbox
      BY <1>4, <2>2 DEF Tool!Accept
    <3>2. \A w \in Workers : NotServedAgain(w)'
      BY <3>1 DEF RequestInv, NotServedAgain, InService
    <3> QED
      BY <3>1, <3>2 DEF RequestInv, DeletesReconcile, WaitCovers, Covers, Batch
  <2> QED
    BY <1>4, <2>1, <2>2 DEF Tool!Accept
<1>5. ASSUME serving # None, NEW e \in serving.todo, Tool!RefusePage(e) \/ Tool!ImportPage(e)
      PROVE  RequestInv'
  <2>1. inbox' = inbox /\ serving'.req = serving.req /\ serving'.step # "delete"
    BY <1>3, <1>5 DEF Tool!RefusePage, Tool!ImportPage, Service
  <2> QED
    BY <1>2, <1>5, <2>1
<1>6. CASE Tool!VerifyPage \/ Tool!FailCompensation
  <2>1. serving # None /\ inbox' = inbox /\ \E result : serving' = Tool!PageDone(result)
    BY <1>6 DEF Tool!VerifyPage, Tool!FailCompensation, Tool!Verifying
  <2>2. serving'.req = serving.req /\ serving'.step = "page"
    BY <1>3, <2>1 DEF Tool!PageDone, Service
  <2> QED
    BY <1>2, <2>1, <2>2
<1>7. CASE Tool!Walk \/ Tool!DeleteRows
  <2>1. /\ serving # None /\ inbox' = inbox /\ serving'.req = serving.req
        /\ serving'.step = "delete" => serving.req.mode = "reconcile"
    BY <1>3, <1>7 DEF Tool!Walk, Tool!DeleteRows, Service
  <2> QED
    BY <1>2, <2>1
<1>8. CASE Tool!Store \/ Tool!Restart
  BY <1>1, <1>8 DEF Tool!Store, Tool!Restart
<1> QED
  BY <1>4, <1>5, <1>6, <1>7, <1>8 DEF Tool!Serve

LEMMA SameRequests ==
  ASSUME RequestInv, UNCHANGED <<guarded, batches, work, inbox, serving>>
  PROVE  RequestInv'
  BY DEF RequestInv, DeletesReconcile, WaitCovers, NotServedAgain, InService, Covers, Batch

LEMMA NextRequests ==
  ASSUME OneWorker, RequestInv, IInv, [Next]_vars
  PROVE  RequestInv'
<1>1. CASE Wiki
  BY <1>1, SameRequests DEF Wiki, Install, RemoveFile, MoveFile, FileChange, Change,
     tableVars, toolVars, Finalize, DeletePage, RenamePage, Bump
<1>2. ASSUME NEW w \in Workers, Run(w)
      PROVE  RequestInv'
  <2>0. work[w] \in RunRow /\ work \in [Workers -> RunRow]
    BY DEF IInv, RunInv
  <2>1. CASE Abandon(w) /\ UNCHANGED <<inbox, serving>>
    BY <2>1, AbandonRequests DEF Abandon
  <2>2. CASE RefuseClaims(w) \/ Refused(w) \/ FinishBatch(w)
    <3>1. work' = [work EXCEPT ![w] = Idle] /\ UNCHANGED <<inbox, serving>>
      BY <2>2 DEF RefuseClaims, Refused, TransportFailed, FinishBatch, Abandon, toolVars
    <3> QED
      BY <3>1, AbandonRequests
  <2>3. CASE Claim(w)
    <3>1. UNCHANGED <<guarded, batches, inbox, serving>> /\ work[w].step = "idle"
      BY <2>3 DEF Claim, toolVars
    <3>2. work'[w].step \in {"idle", "build"}
      BY <2>0, <2>3, <3>1 DEF Claim, Idle
    <3> QED
      BY <3>1, <3>2, StepRequests DEF Steps
  <2>4. CASE Resume(w) /\ ~Abandon(w)
    <3>1. work'[w].step = "send" /\ UNCHANGED <<inbox, serving>>
      BY <2>0, <2>4 DEF Resume, toolVars, RunRow
    <3> QED
      BY <3>1, StepRequests DEF Steps
  <2>5. CASE Create(w) /\ ~Abandon(w)
    <3>1. work'[w].step \in {"idle", "send"} /\ UNCHANGED <<inbox, serving>>
      <4>1. \/ work' = [work EXCEPT ![w] = Idle]
            \/ \E b, known : work' = [work EXCEPT ![w].step = "send", ![w].batch = b,
                                                  ![w].known = known]
        BY <2>5 DEF Create
      <4>2. UNCHANGED <<inbox, serving>>
        BY <2>5 DEF Create, toolVars
      <4>3. ASSUME NEW b, NEW known,
                   work' = [work EXCEPT ![w].step = "send", ![w].batch = b,
                                        ![w].known = known]
            PROVE  work'[w].step = "send"
        BY <2>0, <4>3 DEF RunRow
      <4>4. work' = [work EXCEPT ![w] = Idle] => work'[w].step = "idle"
        BY <2>0 DEF Idle
      <4> QED
        BY <4>1, <4>2, <4>3, <4>4
    <3> QED
      BY <3>1, StepRequests DEF Steps
  <2>6. CASE FinishSegment(w) /\ ~Abandon(w)
    <3>1. work'[w].step = "send" /\ UNCHANGED <<inbox, serving>>
      BY <2>0, <2>6 DEF FinishSegment, toolVars, RunRow
    <3> QED
      BY <3>1, StepRequests DEF Steps
  <2>7. CASE FinishJobs(w) /\ ~Abandon(w)
    <3>1. work'[w].step = "close" /\ UNCHANGED <<inbox, serving>>
      BY <2>0, <2>7 DEF FinishJobs, Goto, toolVars, RunRow
    <3> QED
      BY <3>1, StepRequests DEF Steps
  <2>8. CASE Send(w)
    BY <2>8, SendRequests
  <2>9. CASE \/ Receive(w)
             \/ \E r \in work[w].results : AttributePage(w, r)
             \/ \E s \in work[w].deleted : AttributeDelete(w, s)
    BY <2>9, AnswerRequests
  <2>10. Resume(w) \/ Create(w) \/ FinishSegment(w) \/ FinishJobs(w)
           => UNCHANGED <<inbox, serving>>
    BY DEF Resume, Create, FinishSegment, FinishJobs, toolVars
  <2> QED
    BY <1>2, <2>1, <2>2, <2>3, <2>4, <2>5, <2>6, <2>7, <2>8, <2>9, <2>10 DEF Run
<1>3. CASE Serve \/ RestartGBrain \/ FailCompensation
  BY <1>3, ToolRequests DEF Serve, RestartGBrain, FailCompensation, tableVars
<1>4. ASSUME NEW w \in Workers, Timeout(w) \/ Crash(w) \/ Stall(w)
      PROVE  RequestInv'
  <2>1. CASE Stall(w)
    BY <2>1, SameRequests DEF Stall, toolVars
  <2>2. CASE Timeout(w) \/ Crash(w)
    <3>1. work' = [work EXCEPT ![w] = Idle] /\ UNCHANGED <<inbox, serving>>
      BY <2>2 DEF Timeout, Crash, TransportFailed, Abandon, toolVars
    <3> QED
      BY <3>1, AbandonRequests
  <2> QED
    BY <1>4, <2>1, <2>2
<1>5. CASE Tick \/ UNCHANGED vars
  BY <1>5, SameRequests DEF Tick, vars, tableVars, toolVars
<1> QED
  BY <1>1, <1>2, <1>3, <1>4, <1>5 DEF Next, Fault

LEMMA InitRequests ==
  ASSUME Init
  PROVE  RequestInv
  BY DEF Init, RequestInv, DeletesReconcile, WaitCovers, NotServedAgain, Idle

(* One worker's request never deletes the row of a slug that a protection  *)
(* holds, but for the delete job of the protected page in its own batch    *)
(* (_protected_mappings, reconcileDeletedPages).                           *)
THEOREM ProtectedStay ==
  ASSUME OneWorker
  PROVE  Spec => ProtectedRowsStay
<1> DEFINE Inv == IInv /\ RequestInv
<1>1. Init => Inv
  BY InitIInv, InitRequests
<1>2. Inv /\ [Next]_vars => Inv'
  BY NextIInv, NextRequests
<1>3. ASSUME IInv, RequestInv, Next, NEW s \in Paths,
             brain[s] # None, brain'[s] = None, serving.step = "delete",
             NEW w \in Workers, work[w].req = serving.req, NEW g \in guarded, g.at = s
      PROVE  \E k \in batches[serving.req.key[1]].members :
               k.op = "delete" /\ k.page = g.page
  <2>1. brain' # brain
    BY <1>3
  <2>2. Serve \/ FailCompensation
    BY <1>3, <2>1 DEF Next, Wiki, Install, RemoveFile, MoveFile, FileChange, Change,
       Finalize, DeletePage, RenamePage, Bump, toolVars, Run, Claim, Resume, RefuseClaims,
       Create, Send, Receive, Refused, AttributePage, AttributeDelete, FinishSegment,
       FinishJobs, FinishBatch, Fault, Timeout, Crash, Stall, RestartGBrain, Tool!Restart,
       Tick
  <2>3. Tool!DeleteRows
    BY <1>3, <2>1, <2>2 DEF Serve, FailCompensation, Tool!Serve, Tool!Accept,
       Tool!RefusePage, Tool!ImportPage, Tool!VerifyPage, Tool!Verifying,
       Tool!FailCompensation, Tool!Walk, Tool!Store
  <2>4. serving # None /\ s \in Tool!Deletable
    BY <1>3, <2>3 DEF Tool!DeleteRows
  <2>5. s \notin serving.req.protected
    BY <2>4 DEF Tool!Deletable, Tool!Protected
  <2>6. serving.req.mode = "reconcile" /\ serving.req # None
    <3>1. serving \in Service
      BY <1>3, <2>4, ServiceFacts DEF IInv
    <3> QED
      BY <1>3, <2>4, <3>1, NoneAssumption DEF RequestInv, DeletesReconcile, Service
  <2>7. work[w].step = "wait"
    <3>1. RunOK(work[w]) /\ NotServedAgain(w)
      BY <1>3 DEF IInv, RunInv, RequestInv
    <3> QED
      BY <1>3, <2>4, <2>6, <3>1 DEF RunOK, NotServedAgain, InService
  <2>8. serving.req.key[1] = work[w].batch /\ Covers(serving.req, Batch(w).members)
    BY <1>3, <2>7 DEF RequestInv, WaitCovers
  <2> QED
    BY <1>3, <2>5, <2>6, <2>8 DEF Covers, HasDelete, Batch
<1>4. Inv /\ [Next]_vars =>
        [\A s \in Paths :
           /\ brain[s] # None /\ brain'[s] = None /\ serving.step = "delete"
           /\ \E w \in Workers : work[w].req = serving.req
           => \A g \in guarded : g.at = s =>
                \E k \in batches[serving.req.key[1]].members :
                  k.op = "delete" /\ k.page = g.page]_vars
  BY <1>3
<1> QED
  BY <1>1, <1>2, <1>4, PTL DEF Spec, ProtectedRowsStay
=============================================================================
