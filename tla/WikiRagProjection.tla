-------------------------- MODULE WikiRagProjection --------------------------
(***************************************************************************)
(* The projection of wiki pages into the retrieval rows wiki_chunks        *)
(* (app/wiki_rag_projection.py), driven by the outbox and by worker        *)
(* processes (app/projection_worker.py), while page transactions           *)
(* (app/wiki_revisions.py) move the pages on.                              *)
(*                                                                         *)
(* A projection is a sequence of transactions: read the page, write rows   *)
(* (without looking at the lease), then switch the page's watermark and    *)
(* finish the job together.  Anything may happen between two of them.      *)
(* All the chunks of one page, revision and epoch are one row here.        *)
(***************************************************************************)
EXTENDS ProjectionJobs

CONSTANTS
  NoJob,         \* a worker between two projections
  ClaimLimit,    \* projection_claim_limit
  MaxEpoch,      \* bound: page transactions per page
  MaxFaults      \* bound: crashes, and exceptions after rows were written

ASSUME WikiRagProjectionAssumption ==
  /\ "rag" \in Targets
  /\ NoJob \notin Key
  /\ ClaimLimit \in Nat \ {0}
  /\ MaxEpoch \in Nat
  /\ MaxFaults \in Nat

VARIABLES
  jobs,     \* knowledge_projection_jobs
  page,     \* wiki_pages
  chunks,   \* wiki_chunks
  pc,       \* pc[w]: the next transaction of w's projection thread
  current,  \* current[w]: the job in that thread
  queue,    \* queue[w]: claimed jobs not yet started
  renewing, \* FALSE once w's renewal task has cancelled the run
  faults    \* faults so far

vars == <<jobs, page, chunks, pc, current, queue, renewing, faults>>
workerVars == <<pc, current, queue, renewing>>

Lives == {"active", "deleted", "invalid"}
NoEpoch == -1

Page == [life : Lives, rev : Revs \cup {NoRev}, epoch : 0 .. MaxEpoch,
         visRev : Revs \cup {NoRev}, visEpoch : NoEpoch .. MaxEpoch]
Chunk == [page : Pages, rev : Revs, epoch : 1 .. MaxEpoch]

Steps == {"idle", "load", "write", "commit", "supersede", "cleanup", "delete"}

TypeOK ==
  /\ IsTable(jobs)
  /\ page \in [Pages -> Page]
  /\ chunks \subseteq Chunk
  /\ pc \in [Workers -> Steps]
  /\ current \in [Workers -> DOMAIN jobs \cup {NoJob}]
  /\ \A w \in Workers : current[w] = NoJob <=> pc[w] = "idle"
  /\ queue \in [Workers -> SUBSET DOMAIN jobs]
  /\ renewing \in [Workers -> BOOLEAN]
  /\ faults \in 0 .. MaxFaults

Init ==
  /\ jobs = NoJobs
  /\ page = [p \in Pages |-> [life |-> "active", rev |-> NoRev, epoch |-> 0,
                              visRev |-> NoRev, visEpoch |-> NoEpoch]]
  /\ chunks = {}
  /\ pc = [w \in Workers |-> "idle"]
  /\ current = [w \in Workers |-> NoJob]
  /\ queue = [w \in Workers |-> {}]
  /\ renewing = [w \in Workers |-> TRUE]
  /\ faults = 0

-----------------------------------------------------------------------------
(* Page transactions.  Each one that changes what should be projected      *)
(* raises the epoch, clears the watermark and enqueues, all at once.       *)
Moved(p, life, rev) ==
  [page EXCEPT ![p].life = life, ![p].rev = rev, ![p].epoch = @ + 1,
               ![p].visRev = NoRev, ![p].visEpoch = NoEpoch]

Bump(p, life, rev, op, kept) ==
  /\ page[p].epoch < MaxEpoch
  /\ page' = Moved(p, life, rev)
  /\ jobs' = Enqueued(kept, StateKeys(Targets, op, p,
                                      IF op = "delete" THEN NoRev ELSE rev,
                                      page[p].epoch + 1))
  /\ UNCHANGED <<chunks, workerVars, faults>>

Superseding(p) == StaleSuperseded(jobs, p, page[p].epoch + 1)

(* finalize_intent leaves the jobs of older epochs for the worker to drop. *)
Finalize(p, rev) == Bump(p, "active", rev, "upsert", jobs)

DeletePage(p) ==
  /\ page[p].rev # NoRev
  /\ page[p].life # "deleted"
  /\ Bump(p, "deleted", page[p].rev, "delete", Superseding(p))

(* An unreadable file, or a recovery that fails closed.                    *)
Invalidate(p) == Bump(p, "invalid", page[p].rev, "delete", Superseding(p))

(* rename_page keeps the lifecycle, whatever it is.                        *)
RenamePage(p) ==
  /\ page[p].rev # NoRev
  /\ Bump(p, page[p].life, page[p].rev, "rename", Superseding(p))

(* ensure_projection_jobs, run by the startup reconcile.                   *)
EnsureJobs(p) ==
  LET here == page[p]
      op == IF here.life = "active" THEN "upsert" ELSE "delete"
      rev == IF op = "delete" THEN NoRev ELSE here.rev
  IN  /\ op = "delete" \/ rev # NoRev
      /\ jobs' = Enqueued(StaleSuperseded(jobs, p, here.epoch),
                          StateKeys(Targets, op, p, rev, here.epoch))
      /\ UNCHANGED <<page, chunks, workerVars, faults>>

-----------------------------------------------------------------------------
(* The worker loop of a process: claim a batch, run it job by job.         *)
Claim(w) ==
  LET live == ExpiredOut(jobs, "rag")
  IN  /\ pc[w] = "idle" /\ queue[w] = {}
      /\ \E B \in Batches(live, "rag", ClaimLimit) :
           /\ jobs' = Claimed(live, B, w)
           /\ queue' = [queue EXCEPT ![w] = B]
      /\ renewing' = [renewing EXCEPT ![w] = TRUE]
      /\ UNCHANGED <<page, chunks, pc, current, faults>>

Start(w, k) ==
  /\ pc[w] = "idle"
  /\ pc' = [pc EXCEPT ![w] = IF k.op = "delete" THEN "delete" ELSE "load"]
  /\ current' = [current EXCEPT ![w] = k]
  /\ queue' = [queue EXCEPT ![w] = @ \ {k}]
  /\ UNCHANGED <<jobs, page, chunks, renewing, faults>>

Goto(w, step) ==
  /\ pc' = [pc EXCEPT ![w] = step]
  /\ UNCHANGED <<current, queue, renewing>>

Done(w) ==
  /\ pc' = [pc EXCEPT ![w] = "idle"]
  /\ current' = [current EXCEPT ![w] = NoJob]
  /\ UNCHANGED <<queue, renewing>>

(* Mutant: a projection is current whatever its epoch.                     *)
MatchesRevision(k) ==
  k.rev # NoRev /\ page[k.page].rev = k.rev /\ page[k.page].life = "active"

(* _page_matches_job *)
Matches(k) ==
  /\ k.rev # NoRev
  /\ page[k.page].rev = k.rev
  /\ page[k.page].epoch = k.epoch
  /\ page[k.page].life = "active"

RowOf(k) == [page |-> k.page, rev |-> k.rev, epoch |-> k.epoch]

(* _load_snapshot, in a read transaction of its own.                       *)
LoadSnapshot(w) ==
  /\ pc[w] = "load"
  /\ Goto(w, IF Matches(current[w]) THEN "write" ELSE "supersede")
  /\ UNCHANGED <<jobs, page, chunks, faults>>

(* _write_physical_rows: an upsert, whatever has happened since the read.  *)
WriteRows(w) ==
  /\ pc[w] = "write"
  /\ chunks' = chunks \cup {RowOf(current[w])}
  /\ Goto(w, "commit")
  /\ UNCHANGED <<jobs, page, faults>>

(* Mutants: cleanup looks at what is visible only, or at what runs only.   *)
NeededByReaders(k, table) ==
  LET here == page[k.page]
  IN  /\ here.life = "active" /\ here.rev # NoRev
      /\ here.visRev = here.rev /\ here.visEpoch = k.epoch

NeededByWorkers(k, table) ==
  \E j \in DOMAIN table : /\ j.target = "rag" /\ j.page = k.page
                          /\ j.epoch = k.epoch /\ table[j].status = "running"

(* _cleanup_epoch, inside a transaction that sees the job table as table:  *)
(* the rows left of the chunks when those of k's page and epoch go, unless *)
(* they are visible, or owned by a job that runs or succeeded.             *)
Needed(k, table) ==
  LET here == page[k.page]
      owners == {j \in DOMAIN table :
                   j.target = "rag" /\ j.page = k.page /\ j.epoch = k.epoch}
      isCurrent == here.life = "active" /\ here.epoch = k.epoch
  IN  \/ isCurrent /\ here.rev # NoRev /\ here.visRev = here.rev
                   /\ here.visEpoch = k.epoch
      \/ isCurrent /\ \E j \in owners : /\ table[j].status = "succeeded"
                                        /\ j.op = "upsert" /\ j.rev = here.rev
      \/ \E j \in owners : table[j].status = "running"

CleanedUp(k, table) ==
  IF Needed(k, table) THEN chunks
  ELSE {c \in chunks : ~(c.page = k.page /\ c.epoch = k.epoch)}

(* Mutant: without the lease the rows are left behind.                     *)
DropSupersededOnly(w) ==
  LET k == current[w]
      table == FinishedAs(jobs, k, "superseded")
  IN  IF Owns(jobs, k, w)
      THEN jobs' = table /\ chunks' = CleanedUp(k, table) /\ Done(w)
      ELSE Done(w) /\ UNCHANGED <<jobs, chunks>>

(* Finish the job as superseded and clean up in one transaction; without   *)
(* the lease, roll back and clean up in another one.                       *)
DropSuperseded(w) ==
  LET k == current[w]
      table == FinishedAs(jobs, k, "superseded")
  IN  IF Owns(jobs, k, w)
      THEN /\ jobs' = table
           /\ chunks' = CleanedUp(k, table)
           /\ Done(w)
      ELSE /\ Goto(w, "cleanup")
           /\ UNCHANGED <<jobs, chunks>>

FinishSuperseded(w) ==
  /\ pc[w] = "supersede"
  /\ DropSuperseded(w)
  /\ UNCHANGED <<page, faults>>

(* The last transaction of project.                                        *)
SwitchVisible(w) ==
  LET k == current[w]
  IN  IF Owns(jobs, k, w)
      THEN /\ page' = [page EXCEPT ![k.page].visRev = k.rev,
                                   ![k.page].visEpoch = k.epoch]
           /\ jobs' = FinishedAs(jobs, k, "succeeded")
           /\ Done(w)
      ELSE /\ Goto(w, "cleanup")
           /\ UNCHANGED <<page, jobs>>

Commit(w) ==
  /\ pc[w] = "commit"
  /\ \/ Matches(current[w]) /\ SwitchVisible(w) /\ UNCHANGED chunks
     \/ ~Matches(current[w]) /\ DropSuperseded(w) /\ UNCHANGED page
  /\ UNCHANGED faults

(* cleanup_epoch after a lost lease.                                       *)
Cleanup(w) ==
  /\ pc[w] = "cleanup"
  /\ chunks' = CleanedUp(current[w], jobs)
  /\ Done(w)
  /\ UNCHANGED <<jobs, page, faults>>

(* _project_rag_delete: one transaction, which a lost lease rolls back.    *)
ProjectDelete(w) ==
  LET k == current[w]
      matches == /\ page[k.page].life \in {"deleted", "invalid"}
                 /\ page[k.page].epoch = k.epoch
  IN  /\ pc[w] = "delete"
      /\ \/ ~Owns(jobs, k, w) /\ UNCHANGED <<jobs, page, chunks>>
         \/ /\ Owns(jobs, k, w) /\ ~matches
            /\ jobs' = FinishedAs(jobs, k, "superseded")
            /\ UNCHANGED <<page, chunks>>
         \/ /\ Owns(jobs, k, w) /\ matches
            /\ jobs' = FinishedAs(jobs, k, "succeeded")
            /\ page' = [page EXCEPT ![k.page].visRev = NoRev,
                                    ![k.page].visEpoch = NoEpoch]
            /\ chunks' = {c \in chunks : c.page # k.page}
      /\ Done(w)
      /\ UNCHANGED faults

(* Any of these raises (the embedding service, the database): the open     *)
(* transaction rolls back and the worker marks the job failed, or leaves   *)
(* it to its lease when the run was cancelled.                             *)
Raise(w) ==
  /\ pc[w] # "idle"
  /\ IF pc[w] \in {"commit", "supersede", "cleanup"}
     THEN faults < MaxFaults /\ faults' = faults + 1
     ELSE UNCHANGED faults
  /\ jobs' = IF renewing[w] /\ Owns(jobs, current[w], w)
             THEN MarkedFailed(jobs, current[w]) ELSE jobs
  /\ Done(w)
  /\ UNCHANGED <<page, chunks>>

-----------------------------------------------------------------------------
(* _renew_claims.  A lost lease ends the run, though not the thread: what  *)
(* it was doing goes on.                                                   *)
Working(w) == queue[w] \cup ({current[w]} \ {NoJob})

RenewLease(w, k) ==
  /\ renewing[w]
  /\ LeaseKept(jobs, k, w)
  /\ jobs' = Renewed(jobs, k, w)
  /\ UNCHANGED <<page, chunks, workerVars, faults>>

CancelRun(w, k) ==
  /\ renewing[w]
  /\ ~LeaseKept(jobs, k, w)
  /\ renewing' = [renewing EXCEPT ![w] = FALSE]
  /\ queue' = [queue EXCEPT ![w] = {}]
  /\ UNCHANGED <<jobs, page, chunks, pc, current, faults>>

(* The process dies; its successor starts with nothing in hand.            *)
Crash(w) ==
  /\ Working(w) # {}
  /\ faults < MaxFaults
  /\ faults' = faults + 1
  /\ pc' = [pc EXCEPT ![w] = "idle"]
  /\ current' = [current EXCEPT ![w] = NoJob]
  /\ queue' = [queue EXCEPT ![w] = {}]
  /\ UNCHANGED <<jobs, page, chunks, renewing>>

Tick ==
  /\ jobs' = Aged(jobs)
  /\ UNCHANGED <<page, chunks, workerVars, faults>>

-----------------------------------------------------------------------------
Transact(p) ==
  \/ \E rev \in Revs : Finalize(p, rev)
  \/ DeletePage(p)
  \/ Invalidate(p)
  \/ RenamePage(p)
  \/ EnsureJobs(p)

Project(w) ==
  \/ LoadSnapshot(w)
  \/ WriteRows(w)
  \/ FinishSuperseded(w)
  \/ Commit(w)
  \/ Cleanup(w)
  \/ ProjectDelete(w)

Work(w) == Claim(w) \/ (\E k \in queue[w] : Start(w, k)) \/ Project(w)

Next ==
  \/ \E p \in Pages : Transact(p)
  \/ \E w \in Workers :
       \/ Work(w)
       \/ Raise(w)
       \/ \E k \in Working(w) : RenewLease(w, k) \/ CancelRun(w, k)
       \/ Crash(w)
  \/ Tick

Spec == Init /\ [][Next]_vars

(* The loop polls, its thread makes progress or raises, time passes.       *)
Fairness ==
  /\ WF_vars(Tick)
  /\ \A w \in Workers : WF_vars(Work(w))

FairSpec == Spec /\ Fairness

-----------------------------------------------------------------------------
(* The watermark names nothing but the present revision and epoch of an    *)
(* active page, although projections of older epochs finish at any time.   *)
WatermarkIsCurrent ==
  \A p \in Pages :
    page[p].visRev # NoRev =>
      /\ page[p].life = "active"
      /\ page[p].visRev = page[p].rev
      /\ page[p].visEpoch = page[p].epoch

(* Rows under the watermark are there: no cleanup by a late or superseded  *)
(* projection takes the rows away that a winner wrote for the same epoch.  *)
VisibleHasRows ==
  \A p \in Pages :
    page[p].visRev # NoRev =>
      [page |-> p, rev |-> page[p].visRev, epoch |-> page[p].visEpoch] \in chunks

(* An active page that retrieval cannot find yet has a job that will show  *)
(* it, or that failed where the operator sees it: superseding and dropping *)
(* old jobs never loses the present one.                                   *)
NoLostProjection ==
  \A p \in Pages :
    page[p].life = "active" /\ page[p].rev # NoRev /\ page[p].visRev = NoRev =>
      \E k \in DOMAIN jobs :
        /\ k.target = "rag" /\ k.op # "delete" /\ k.page = p
        /\ k.rev = page[p].rev /\ k.epoch = page[p].epoch
        /\ jobs[k].status \notin {"succeeded", "superseded"}

(* Once the delete job of a withdrawn page has succeeded and no projection *)
(* of the page is under way, none of its rows is left, even if an upsert   *)
(* of an older epoch wrote some after the deletion.  A process that dies   *)
(* after such a write, or an exception there, does leave them behind.      *)
WithdrawnLeavesNoRows ==
  \A p \in Pages :
    /\ faults = 0
    /\ page[p].life # "active"
    /\ \E k \in DOMAIN jobs :
         /\ k.target = "rag" /\ k.op = "delete" /\ k.page = p
         /\ k.epoch = page[p].epoch /\ jobs[k].status = "succeeded"
    /\ \A w \in Workers : pc[w] # "idle" => current[w].page # p
    => \A c \in chunks : c.page # p

(* load_visible_wiki_rows: what retrieval reads of a page, in one query.   *)
VisibleRows(p) ==
  {c \in chunks :
     /\ c.page = p
     /\ page[p].life = "active"
     /\ c.rev = page[p].rev /\ c.rev = page[p].visRev
     /\ c.epoch = page[p].visEpoch /\ c.epoch = page[p].epoch}

Wanted == [p \in Pages |-> IF page[p].life = "active" THEN page[p].rev ELSE NoRev]
Shown ==
  [p \in Pages |->
     IF VisibleRows(p) = {} THEN NoRev ELSE (CHOOSE c \in VisibleRows(p) : TRUE).rev]
Version == [p \in Pages |-> page[p].epoch]

Retrieval == INSTANCE RagVisibility
               WITH version <- Version, wanted <- Wanted, shown <- Shown

(* Retrieval sees nothing of a page, or the whole of its wanted revision;  *)
(* and what it sees goes away only with a change of the page.              *)
RetrievalSafe == Retrieval!Spec

(* When the page transactions have come to an end, every active page is    *)
(* found, unless all the attempts of its job were used up.                 *)
ActivePagesShown ==
  <>[](\A p \in Pages :
         Wanted[p] # NoRev =>
           \/ Shown[p] = Wanted[p]
           \/ \E k \in DOMAIN jobs :
                /\ k.target = "rag" /\ k.page = p /\ k.epoch = page[p].epoch
                /\ jobs[k].status = "failed" /\ Settled(jobs[k]))
=============================================================================
