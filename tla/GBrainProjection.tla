-------------------------- MODULE GBrainProjection --------------------------
(***************************************************************************)
(* The projection of wiki pages into GBrain (app/gbrain_projection.py),    *)
(* composed with the tool that does the import (LgdoVaultSync): workers    *)
(* turn claimed jobs into a batch of segments, send each segment to the    *)
(* tool, and write what it answers into gbrain_page_projections, page by   *)
(* page, each in a transaction of its own that checks the leases.          *)
(*                                                                         *)
(* Revisions and files move on all the while; answers are lost, leases     *)
(* lapse, workers and GBrain crash.  Pages are numbered, in the order of   *)
(* their ids.                                                              *)
(***************************************************************************)
EXTENDS ProjectionJobs, Sequences

CONSTANTS
  Paths,        \* paths below wiki/, and the slugs made of them
  None,         \* no file, no mapping, no request
  HomeOf,       \* HomeOf[p]: the path page p begins with
  FirstRev,     \* the revision of the pages projected at the beginning
  Projected,    \* the pages projected at the beginning
  SegmentSize,  \* 100 in the code
  ClaimLimit,   \* projection_claim_limit, 500 in the code
  ImportOnCompile, \* gbrain_import_on_compile, FALSE by default
  FileWays,     \* bound: what an editor does to files
  MaxEpoch,     \* bound: page transactions per page
  MaxChanges,   \* bound: page transactions and file changes together
  MaxBatches,   \* bound: batches
  MaxFaults     \* bound: faults

ASSUME GBrainProjectionAssumption ==
  /\ "gbrain" \in Targets
  /\ Pages \subseteq Nat /\ IsFiniteSet(Pages)
  /\ HomeOf \in [Pages -> Paths]
  /\ \A p, o \in Pages : HomeOf[p] = HomeOf[o] => p = o
  /\ FirstRev \in Revs
  /\ Projected \subseteq Pages
  /\ SegmentSize \in Nat \ {0}
  /\ ClaimLimit \in Nat \ {0}
  /\ ImportOnCompile \in BOOLEAN
  /\ MaxEpoch \in Nat \ {0}
  /\ MaxChanges \in Nat /\ MaxBatches \in Nat /\ MaxFaults \in Nat

VARIABLES
  jobs,     \* knowledge_projection_jobs, target gbrain
  page,     \* wiki_pages
  mapping,  \* gbrain_page_projections, by slug
  guarded,  \* active gbrain_projection_protections
  batches,  \* gbrain_projection_batches with their segments, by number
  work,     \* work[w]: the run of worker w
  changes,  \* changes of pages and files so far
  faults,   \* faults so far
  file, brain, inbox, serving, stored  \* LgdoVaultSync

Tool == INSTANCE LgdoVaultSync

toolVars == <<brain, inbox, serving, stored>>
wikiVars == <<page, file, changes>>
tableVars == <<jobs, mapping, guarded, batches>>
vars == <<tableVars, wikiVars, work, faults, toolVars>>

-----------------------------------------------------------------------------
NoPage == -1  \* page_id NULL

Page == [life : {"active", "deleted"}, rev : Revs \cup {NoRev},
         epoch : 0 .. MaxEpoch, path : Paths,
         asked : BOOLEAN]  \* auxiliary: the transaction of this epoch enqueued a job
Bytes == [page : Pages, rev : Revs]
Mapping == [page : Pages, rev : Revs, epoch : Nat, gen : Nat, hash : Bytes,
            status : {"current", "stale", "deleted"}]
Expected == [page : Pages, rev : Revs, epoch : Nat, path : Paths]
Protection == [page : Pages \cup {NoPage}, at : Paths]
Segment == [mode : {"incremental", "reconcile"}, expected : SUBSET Expected,
            status : {"pending", "running", "failed", "succeeded"}]
Request == [key : Nat \X Nat, mode : {"incremental", "reconcile"},
            expected : SUBSET Expected, protected : SUBSET Paths]

ASSUME NoneAssumption == None \notin Mapping /\ None \notin Request

(* The tool: its rows, its answers, the request in service.                *)
BrainRow == [page : Pages, rev : Revs, gen : Nat, src : Paths]
PageResult == [page : Expected, gen : Nat, hash : Bytes \cup {None},
               status : {"imported", "error", "superseded", "recovery"},
               held : SUBSET Paths]
Answer == [protected : SUBSET Paths, results : SUBSET PageResult,
           deleted : SUBSET Paths, unlisted : SUBSET Paths]
Service == [req : Request, step : {"page", "verify", "delete", "store"},
            todo : SUBSET Expected, page : Expected \cup {None},
            from : Paths \cup {None}, held : SUBSET Paths,
            results : SUBSET PageResult, present : SUBSET Paths,
            deleted : SUBSET Paths]

ToolTypeOK ==
  /\ file \in [Paths -> Bytes \cup {None}]
  /\ brain \in [Paths -> BrainRow \cup {None}]
  /\ inbox \subseteq Request
  /\ serving \in Service \cup {None}
  /\ \A k \in DOMAIN stored : stored[k] \in Answer

Steps == {"idle", "build", "send", "wait", "attribute", "finish", "close"}

Idle == [step |-> "idle", claims |-> {}, batch |-> 0, seg |-> 0, req |-> None,
         results |-> {}, deleted |-> {}, known |-> {}]

BatchRow == [status : {"running", "failed", "succeeded"}, owner : Workers,
             members : SUBSET DOMAIN jobs, segs : Seq(Segment),
             mapping : [Paths -> Mapping \cup {None}], guarded : SUBSET Paths]
RunRow == [step : Steps, claims : SUBSET DOMAIN jobs, batch : DOMAIN batches \cup {0},
           seg : Nat, req : Request \cup {None}, results : SUBSET PageResult,
           deleted : SUBSET Paths, known : SUBSET Paths]

Done(segs) == \A i \in DOMAIN segs : segs[i].status = "succeeded"

BatchOK(batch) == batch.status = "succeeded" => Done(batch.segs)

RunOK(run) ==
  /\ run.step \in {"idle", "build"} <=> run.batch = 0
  /\ run.step \in {"wait", "attribute"} <=> run.req # None

TypeOK ==
  /\ IsTable(jobs)
  /\ page \in [Pages -> Page]
  /\ mapping \in [Paths -> Mapping \cup {None}]
  /\ guarded \subseteq Protection
  /\ batches \in Seq(BatchRow)
  /\ \A b \in DOMAIN batches : BatchOK(batches[b])
  /\ work \in [Workers -> RunRow]
  /\ \A w \in Workers : RunOK(work[w])
  /\ changes \in 0 .. MaxChanges
  /\ faults \in 0 .. MaxFaults
  /\ ToolTypeOK

FirstKey(p) ==
  [target |-> "gbrain", op |-> "upsert", page |-> p, rev |-> FirstRev, epoch |-> 1]
HomePages(q) == {p \in Projected : HomeOf[p] = q}
AtHome(q, value(_)) ==
  IF HomePages(q) = {} THEN None ELSE value(CHOOSE p \in HomePages(q) : TRUE)

Init ==
  /\ jobs = [k \in {FirstKey(p) : p \in Projected} |->
               [Fresh EXCEPT !.status = "succeeded", !.attempts = 1]]
  /\ page = [p \in Pages |->
               [life |-> "active", path |-> HomeOf[p],
                rev |-> IF p \in Projected THEN FirstRev ELSE NoRev,
                epoch |-> IF p \in Projected THEN 1 ELSE 0, asked |-> TRUE]]
  /\ mapping = [q \in Paths |->
       AtHome(q, LAMBDA p : [page |-> p, rev |-> FirstRev, epoch |-> 1, gen |-> 1,
                             hash |-> [page |-> p, rev |-> FirstRev],
                             status |-> "current"])]
  /\ brain = [q \in Paths |->
       AtHome(q, LAMBDA p : [page |-> p, rev |-> FirstRev, gen |-> 1, src |-> q])]
  /\ file = [q \in Paths |->
       AtHome(q, LAMBDA p : [page |-> p, rev |-> FirstRev])]
  /\ guarded = {}
  /\ batches = << >>
  /\ work = [w \in Workers |-> Idle]
  /\ changes = 0
  /\ faults = 0
  /\ inbox = {}
  /\ serving = None
  /\ stored = << >>

-----------------------------------------------------------------------------
(* Files.  A revision is installed before it is published, a file is gone  *)
(* before its page is deleted, and moved before the row follows.           *)
Change ==
  /\ changes < MaxChanges
  /\ changes' = changes + 1
  /\ UNCHANGED <<work, faults, toolVars>>

OwnerAt(q) == IF file[q] = None THEN NoPage ELSE file[q].page

FileChange == Change /\ UNCHANGED <<tableVars, page>>

Install(p, r) ==
  /\ "install" \in FileWays
  /\ file[page[p].path] # [page |-> p, rev |-> r]
  /\ OwnerAt(page[p].path) \in {NoPage, p}
  /\ page[p].life = "active" /\ r = page[p].rev => "undo" \in FileWays
  /\ file' = [file EXCEPT ![page[p].path] = [page |-> p, rev |-> r]]
  /\ FileChange

RemoveFile(p) ==
  /\ "remove" \in FileWays
  /\ OwnerAt(page[p].path) = p
  /\ file' = [file EXCEPT ![page[p].path] = None]
  /\ FileChange

MoveFile(p, q) ==
  /\ "move" \in FileWays
  /\ OwnerAt(page[p].path) = p
  /\ file[q] = None
  /\ file' = [file EXCEPT ![q] = file[page[p].path], ![page[p].path] = None]
  /\ FileChange

(* Page transactions, as in ProjectionOutbox and WikiRagProjection.        *)
Bump(p, life, rev, path, op, kept, targets) ==
  /\ page[p].epoch < MaxEpoch
  /\ page' = [page EXCEPT ![p] = [life |-> life, rev |-> rev, path |-> path,
                                  epoch |-> @.epoch + 1,
                                  asked |-> "gbrain" \in targets]]
  /\ jobs' = Enqueued(kept, StateKeys(targets, op, p,
                                      IF op = "delete" THEN NoRev ELSE rev,
                                      page[p].epoch + 1))
  /\ UNCHANGED <<mapping, guarded, batches, file>>
  /\ UNCHANGED <<work, faults, toolVars, changes>>

Superseding(p) == StaleSuperseded(jobs, p, page[p].epoch + 1)

(* Without gbrain_import_on_compile a compile enqueues no gbrain job, while *)
(* what an editor has written does.                                        *)
FinalizeTargets ==
  {Targets} \cup (IF ImportOnCompile THEN {} ELSE {Targets \ {"gbrain"}})

Finalize(p) ==
  LET there == file[page[p].path]
  IN  /\ OwnerAt(page[p].path) = p
      /\ page[p].life = "deleted" \/ there.rev # page[p].rev
      /\ \E targets \in FinalizeTargets :
           Bump(p, "active", there.rev, page[p].path, "upsert", jobs, targets)

DeletePage(p) ==
  /\ page[p].life = "active" /\ page[p].rev # NoRev
  /\ \A q \in Paths : OwnerAt(q) # p
  /\ Bump(p, "deleted", page[p].rev, page[p].path, "delete", Superseding(p), Targets)

RenamePage(p, q) ==
  /\ page[p].rev # NoRev
  /\ file[q] = [page |-> p, rev |-> page[p].rev]
  /\ \A o \in Pages : page[o].path # q
  /\ Bump(p, page[p].life, page[p].rev, q, "rename", Superseding(p), Targets)

-----------------------------------------------------------------------------
(* What a transaction of the worker looks at.                              *)
Active(p) == page[p].life = "active" /\ page[p].rev # NoRev

Wanted(p) == [page |-> p, rev |-> page[p].rev, epoch |-> page[p].epoch,
              path |-> page[p].path]

MatchesJob(k) ==
  Active(k.page) /\ page[k.page].rev = k.rev /\ page[k.page].epoch = k.epoch

(* Mutant: only the page's life is looked at.                              *)
StillActive(e) == Active(e.page)

MatchesExpected(e) ==
  Active(e.page) /\ page[e.page].rev = e.rev /\ page[e.page].epoch = e.epoch

MatchesDelete(k) ==
  /\ page[k.page].life = "deleted" /\ page[k.page].epoch = k.epoch
  /\ k.rev \in {NoRev, page[k.page].rev}

(* _enqueue_current_page                                                   *)
CurrentEnqueued(table, p) ==
  IF Active(p)
  THEN Enqueued(table, StateKeys({"gbrain"}, "upsert", p, page[p].rev,
                                 page[p].epoch))
  ELSE table

Ended(table, K, status) ==
  [k \in DOMAIN table |-> IF k \in K THEN Released(table[k], status) ELSE table[k]]

OwnsAll(w, K) == \A k \in K : Owns(jobs, k, w)

(* Every claim still owned is marked failed, with its backoff.             *)
ClaimsFailed(w) ==
  [k \in DOMAIN jobs |->
     IF k \in work[w].claims /\ Owns(jobs, k, w)
     THEN MarkedFailed(jobs, k)[k] ELSE jobs[k]]

(* ProjectionLeaseLost: the run ends and leaves its claims as they are.    *)
Abandon(w) ==
  /\ work' = [work EXCEPT ![w] = Idle]
  /\ UNCHANGED tableVars

Goto(w, step) == work' = [work EXCEPT ![w].step = step]

-----------------------------------------------------------------------------
(* claim                                                                   *)
Claim(w) ==
  LET live == ExpiredOut(jobs, "gbrain")
  IN  /\ work[w].step = "idle"
      /\ \E B \in Batches(live, "gbrain", ClaimLimit) :
           /\ jobs' = Claimed(live, B, w)
           /\ work' = IF B = {} THEN work
                      ELSE [work EXCEPT ![w] = [Idle EXCEPT !.step = "build",
                                                           !.claims = B]]
      /\ UNCHANGED <<mapping, guarded, batches, wikiVars, faults, toolVars>>

(* create_batch: one transaction.  A claimed job that belongs to a batch   *)
(* not yet succeeded takes that batch up again, with all its open members. *)
(* (What a succeeded segment has stored as protected is active for good,   *)
(* being protected for no page: it is among GuardedPaths.)                 *)
Unfinished(K) ==
  {b \in DOMAIN batches :
     batches[b].status \in {"running", "failed"} /\ batches[b].members \cap K # {}}
Open(b) == {k \in batches[b].members : jobs[k].status \notin TerminalStatuses}

GuardedPaths == {g.at : g \in guarded}

Reopened(segs) ==
  [i \in DOMAIN segs |->
     IF segs[i].status = "succeeded" THEN segs[i]
     ELSE [segs[i] EXCEPT !.status = "pending"]]

Resume(w) ==
  LET B == work[w].claims
  IN  /\ work[w].step = "build"
      /\ \E b \in Unfinished(B) :
           /\ Unfinished(B) = {b}
           /\ IF Open(b) = B /\ OwnsAll(w, B)
              THEN /\ batches' = [batches EXCEPT
                                   ![b].status = "running", ![b].owner = w,
                                   ![b].segs = Reopened(@)]
                   /\ work' = [work EXCEPT
                        ![w].step = "send", ![w].batch = b,
                        ![w].known = batches[b].guarded \cup GuardedPaths]
                   /\ UNCHANGED <<jobs, mapping, guarded>>
              ELSE Abandon(w)
      /\ UNCHANGED <<wikiVars, faults, toolVars>>

(* Two unfinished batches: a protocol error.                               *)
RefuseClaims(w) ==
  /\ work[w].step = "build"
  /\ Cardinality(Unfinished(work[w].claims)) > 1
  /\ jobs' = ClaimsFailed(w)
  /\ work' = [work EXCEPT ![w] = Idle]
  /\ UNCHANGED <<mapping, guarded, batches, wikiVars, faults, toolVars>>

(* build_segments: pages in the order of their ids, the last one deletes.  *)
Segments(mode, expected) ==
  LET rank(e) == Cardinality({f \in expected : f.page < e.page})
      count == (Cardinality(expected) + SegmentSize - 1) \div SegmentSize
      last == IF mode = "reconcile" /\ count = 0 THEN 1 ELSE count
  IN  [i \in 1 .. last |->
         [mode |-> IF mode = "reconcile" /\ i = last THEN mode ELSE "incremental",
          expected |-> {e \in expected : rank(e) \div SegmentSize = i - 1},
          status |-> "pending"]]

Stale(B) == {k \in B : k.op # "delete" /\ ~MatchesJob(k)}

Requeued(table, K) ==
  LET now == {[target |-> "gbrain", op |-> "upsert", page |-> k.page,
               rev |-> page[k.page].rev, epoch |-> page[k.page].epoch] :
                k \in {j \in K : Active(j.page)}}
  IN  Enqueued(Ended(table, K, "superseded"), now)

Create(w) ==
  LET B == work[w].claims
      mode == IF \E k \in B : k.op # "upsert" THEN "reconcile" ELSE "incremental"
      kept == B \ Stale(B)
      expected == IF mode = "reconcile" THEN {Wanted(p) : p \in {q \in Pages : Active(q)}}
                  ELSE {Wanted(k.page) : k \in kept}
      b == Len(batches) + 1
  IN  /\ work[w].step = "build"
      /\ Unfinished(B) = {}
      /\ IF ~OwnsAll(w, B) THEN Abandon(w)
         ELSE /\ jobs' = Requeued(jobs, Stale(B))
              /\ UNCHANGED <<mapping, guarded>>
              /\ IF kept = {} /\ mode = "incremental"
                 THEN work' = [work EXCEPT ![w] = Idle] /\ UNCHANGED batches
                 ELSE /\ b <= MaxBatches
                      /\ batches' = Append(batches,
                           [status |-> "running", owner |-> w, members |-> kept,
                            segs |-> Segments(mode, expected),
                            mapping |-> mapping, guarded |-> GuardedPaths])
                      /\ work' = [work EXCEPT ![w].step = "send", ![w].batch = b,
                                              ![w].known = GuardedPaths]
      /\ UNCHANGED <<wikiVars, faults, toolVars>>

-----------------------------------------------------------------------------
(* execute_batch, segment by segment.                                      *)
Batch(w) == batches[work[w].batch]
Left(w) == {i \in DOMAIN Batch(w).segs : Batch(w).segs[i].status # "succeeded"}
Running(K) == {k \in K : jobs[k].status = "running"}

HoldsBatch(w) == Batch(w).status = "running" /\ Batch(w).owner = w
HoldsSegment(w) ==
  HoldsBatch(w) /\ Batch(w).segs[work[w].seg].status = "running"
HoldsMembers(w) == OwnsAll(w, Running(Batch(w).members))

LeasesRenewed(w) ==
  [k \in DOMAIN jobs |-> IF k \in Running(Batch(w).members)
                          THEN [jobs[k] EXCEPT !.lease = LeaseTime] ELSE jobs[k]]

DeleteJobs(w, p) == {k \in Batch(w).members : k.op = "delete" /\ k.page = p}

IsMapped(m) == m # None /\ m.status # "deleted"

(* A protection gives way to the one running delete job of its page.       *)
GivesWay(w, g) ==
  LET owners == DeleteJobs(w, g.page)
      was == Batch(w).mapping[g.at]
  IN  /\ Cardinality(owners) = 1
      /\ \A k \in owners : Owns(jobs, k, w) /\ MatchesDelete(k)
      /\ IsMapped(was) /\ was.page = g.page
      /\ mapping[g.at] = was

FirstLeft(w) == {n \in Left(w) : \A m \in Left(w) : n <= m}

SendSegment(w, i) ==
  LET seg == Batch(w).segs[i]
      req == [key |-> <<work[w].batch, i>>, mode |-> seg.mode,
              expected |-> seg.expected,
              protected |-> IF seg.mode = "incremental" THEN work[w].known
                            ELSE {g.at : g \in {h \in guarded : ~GivesWay(w, h)}}]
  IN  IF HoldsBatch(w) /\ HoldsMembers(w)
      THEN /\ jobs' = LeasesRenewed(w)
           /\ batches' = [batches EXCEPT
                           ![work[w].batch].segs[i].status = "running"]
           /\ inbox' = inbox \cup {req}
           /\ work' = [work EXCEPT ![w].step = "wait", ![w].seg = i,
                                   ![w].req = req]
           /\ UNCHANGED <<mapping, guarded>>
      ELSE Abandon(w) /\ UNCHANGED inbox

Send(w) ==
  /\ work[w].step = "send"
  /\ \E i \in FirstLeft(w) : SendSegment(w, i)
  /\ UNCHANGED <<wikiVars, faults, brain, serving, stored>>

InService(req) == serving # None /\ serving.req = req

Answered(w) ==
  /\ work[w].step = "wait"
  /\ work[w].req \notin inbox
  /\ ~InService(work[w].req)

HasResult(w) ==
  /\ work[w].req.key \in DOMAIN stored
  /\ stored[work[w].req.key].protected = work[w].req.protected

(* What the walk found unlisted is protected, for no page in particular.   *)
Receive(w) ==
  /\ Answered(w) /\ HasResult(w)
  /\ LET answer == stored[work[w].req.key]
     IN  IF HoldsSegment(w) /\ HoldsMembers(w)
         THEN /\ jobs' = LeasesRenewed(w)
              /\ guarded' = guarded \cup {[page |-> NoPage, at |-> q] :
                                            q \in answer.unlisted}
              /\ work' = [work EXCEPT
                   ![w].step = "attribute",
                   ![w].results = answer.results,
                   ![w].deleted = answer.deleted,
                   ![w].known = @ \cup answer.unlisted
                                  \cup UNION {r.held : r \in answer.results}]
              /\ UNCHANGED <<mapping, batches>>
         ELSE Abandon(w)
  /\ UNCHANGED <<wikiVars, faults, toolVars>>

(* Network, protocol and tool errors: segment and batch fail, then the     *)
(* worker fails its claims.                                                *)
TransportFailed(w) ==
  IF HoldsSegment(w)
  THEN /\ batches' = [batches EXCEPT
                       ![work[w].batch].status = "failed",
                       ![work[w].batch].segs[work[w].seg].status = "failed"]
       /\ jobs' = ClaimsFailed(w)
       /\ work' = [work EXCEPT ![w] = Idle]
       /\ UNCHANGED <<mapping, guarded>>
  ELSE Abandon(w)

(* idempotency_conflict, or the request went down with GBrain.             *)
Refused(w) ==
  /\ Answered(w) /\ ~HasResult(w)
  /\ TransportFailed(w)
  /\ UNCHANGED <<wikiVars, faults, toolVars>>

-----------------------------------------------------------------------------
(* _attribute_page_success and _attribute_page_failure                     *)
PageJobs(w, p) == {k \in Batch(w).members : k.op # "delete" /\ k.page = p}

Guard(p, paths) == guarded \cup {[page |-> p, at |-> q] : q \in paths}

Attributable(w, e) ==
  /\ ~(IsMapped(mapping[e.path]) /\ mapping[e.path].page # e.page)
  /\ \A k \in PageJobs(w, e.page) : k.rev = e.rev /\ k.epoch = e.epoch

MappingOf(e, r) ==
  [page |-> e.page, rev |-> e.rev, epoch |-> e.epoch,
   gen |-> r.gen, hash |-> r.hash, status |-> "current"]

Mapped(e, r) ==
  [q \in Paths |->
     IF q = e.path THEN MappingOf(e, r)
     ELSE IF mapping[q] # None /\ mapping[q].page = e.page
               /\ mapping[q].status = "current"
          THEN [mapping[q] EXCEPT !.status = "stale"]
     ELSE mapping[q]]

(* Mutant: a page that has moved on fails its job like any other.          *)
AttributedWithoutRequeue(w, r) ==
  /\ jobs' = Ended(jobs, PageJobs(w, r.page.page),
                   IF r.status = "imported" THEN "succeeded" ELSE "failed")
  /\ guarded' = Guard(r.page.page, r.held)
  /\ mapping' = IF r.status = "imported" THEN Mapped(r.page, r) ELSE mapping

Attributed(w, r) ==
  LET e == r.page
      K == PageJobs(w, e.page)
  IN  \/ /\ ~MatchesExpected(e) \/ r.status = "superseded"
         /\ jobs' = CurrentEnqueued(Ended(jobs, K, "superseded"), e.page)
         /\ guarded' = Guard(e.page, r.held)
         /\ UNCHANGED mapping
      \/ /\ MatchesExpected(e) /\ r.status \in {"error", "recovery"}
         /\ jobs' = Ended(jobs, K, "failed")
         /\ guarded' = Guard(e.page, r.held)
         /\ UNCHANGED mapping
      \/ /\ MatchesExpected(e) /\ r.status = "imported" /\ ~Attributable(w, e)
         /\ jobs' = Ended(jobs, K, "failed")
         /\ guarded' = Guard(e.page, {e.path})
         /\ UNCHANGED mapping
      \/ /\ MatchesExpected(e) /\ r.status = "imported" /\ Attributable(w, e)
         /\ jobs' = Ended(jobs, K, "succeeded")
         /\ guarded' = guarded \ {[page |-> e.page, at |-> e.path]}
         /\ mapping' = Mapped(e, r)

AttributePage(w, r) ==
  /\ work[w].step = "attribute" /\ r \in work[w].results
  /\ IF HoldsSegment(w) /\ OwnsAll(w, PageJobs(w, r.page.page))
     THEN /\ Attributed(w, r)
          /\ work' = [work EXCEPT ![w].results = @ \ {r}]
          /\ UNCHANGED batches
     ELSE Abandon(w)
  /\ UNCHANGED <<wikiVars, faults, toolVars>>

(* _attribute_deletions, one slug of the answer.                           *)
Removed(w, s) ==
  LET was == Batch(w).mapping[s]
      p == was.page
      owners == DeleteJobs(w, p)
  IN  \/ /\ Cardinality(owners) > 1
         /\ mapping' = [mapping EXCEPT ![s].status = "stale"]
         /\ guarded' = Guard(p, {s})
         /\ jobs' = Ended(jobs, owners, "failed")
      \/ /\ Cardinality(owners) = 1 /\ \E k \in owners : ~MatchesDelete(k)
         /\ jobs' = CurrentEnqueued(Ended(jobs, owners, "superseded"), p)
         /\ UNCHANGED <<mapping, guarded>>
      \/ /\ owners = {} /\ page[p].life # "deleted"
         /\ jobs' = CurrentEnqueued(jobs, p)
         /\ UNCHANGED <<mapping, guarded>>
      \/ /\ \/ owners = {} /\ page[p].life = "deleted"
            \/ Cardinality(owners) = 1 /\ \A k \in owners : MatchesDelete(k)
         /\ mapping' = [mapping EXCEPT ![s].status = "deleted"]
         /\ guarded' = IF owners = {} THEN guarded
                       ELSE guarded \ {[page |-> p, at |-> s]}
         /\ jobs' = Ended(jobs, owners, "succeeded")

(* The mapping is written only as the batch saw it.                        *)
ReadsMapping(w, s) ==
  LET was == Batch(w).mapping[s]
      owners == DeleteJobs(w, was.page)
  IN  \/ Cardinality(owners) > 1
      \/ owners = {} /\ page[was.page].life = "deleted"
      \/ Cardinality(owners) = 1 /\ \A k \in owners : MatchesDelete(k)

AttributeDelete(w, s) ==
  LET was == Batch(w).mapping[s]
  IN  /\ work[w].step = "attribute" /\ work[w].results = {}
      /\ s \in work[w].deleted
      /\ IF ~HoldsSegment(w) THEN Abandon(w)
         ELSE IF ~IsMapped(was)
         THEN /\ work' = [work EXCEPT ![w].deleted = @ \ {s}]
              /\ UNCHANGED tableVars
         ELSE IF /\ OwnsAll(w, DeleteJobs(w, was.page))
                 /\ ReadsMapping(w, s) => mapping[s] = was
         THEN /\ Removed(w, s)
              /\ work' = [work EXCEPT ![w].deleted = @ \ {s}]
              /\ UNCHANGED batches
         ELSE Abandon(w)
      /\ UNCHANGED <<wikiVars, faults, toolVars>>

-----------------------------------------------------------------------------
FinishSegment(w) ==
  /\ work[w].step = "attribute"
  /\ work[w].results = {} /\ work[w].deleted = {}
  /\ IF HoldsSegment(w)
     THEN /\ batches' = [batches EXCEPT
                          ![work[w].batch].segs[work[w].seg].status = "succeeded"]
          /\ work' = [work EXCEPT ![w].step = "send", ![w].seg = 0, ![w].req = None]
          /\ UNCHANGED <<jobs, mapping, guarded>>
     ELSE Abandon(w)
  /\ UNCHANGED <<wikiVars, faults, toolVars>>

(* _finish_remaining_jobs: what no segment settled was not attributable.   *)
FinishJobs(w) ==
  /\ work[w].step = "send" /\ Left(w) = {}
  /\ IF HoldsBatch(w) /\ HoldsMembers(w)
     THEN /\ jobs' = Ended(jobs, Running(Batch(w).members), "failed")
          /\ Goto(w, "close")
          /\ UNCHANGED <<mapping, guarded, batches>>
     ELSE Abandon(w)
  /\ UNCHANGED <<wikiVars, faults, toolVars>>

FinishBatch(w) ==
  /\ work[w].step = "close"
  /\ IF HoldsBatch(w)
     THEN /\ batches' = [batches EXCEPT ![work[w].batch].status = "succeeded"]
          /\ work' = [work EXCEPT ![w] = Idle]
          /\ UNCHANGED <<jobs, mapping, guarded>>
     ELSE Abandon(w)
  /\ UNCHANGED <<wikiVars, faults, toolVars>>

-----------------------------------------------------------------------------
(* Faults, and the passing of time: a run renews the leases of its claims, *)
(* the leases of claims left behind lapse.                                 *)
Faulty == faults < MaxFaults /\ faults' = faults + 1

Timeout(w) ==
  /\ work[w].step = "wait"
  /\ Faulty
  /\ TransportFailed(w)
  /\ UNCHANGED <<wikiVars, toolVars>>

Crash(w) ==
  /\ work[w].step # "idle"
  /\ Faulty
  /\ Abandon(w)
  /\ UNCHANGED <<wikiVars, toolVars>>

Stall(w) ==
  /\ work[w].step # "idle"
  /\ Faulty
  /\ jobs' = [k \in DOMAIN jobs |-> IF Owns(jobs, k, w)
                                     THEN [jobs[k] EXCEPT !.lease = -1] ELSE jobs[k]]
  /\ UNCHANGED <<mapping, guarded, batches, work, wikiVars, toolVars>>

RestartGBrain ==
  Faulty /\ Tool!Restart /\ UNCHANGED <<tableVars, page, changes, work>>

FailCompensation ==
  Faulty /\ Tool!FailCompensation /\ UNCHANGED <<tableVars, page, changes, work>>

Kept(k) == \E w \in Workers : k \in work[w].claims /\ jobs[k].owner = w
Tick ==
  LET aged == Aged(jobs)
  IN  /\ jobs' = [k \in DOMAIN jobs |->
                    IF jobs[k].status = "running" /\ Kept(k) THEN jobs[k] ELSE aged[k]]
      /\ jobs' # jobs
      /\ UNCHANGED <<mapping, guarded, batches, work, wikiVars, faults, toolVars>>

-----------------------------------------------------------------------------
Wiki ==
  \/ \E p \in Pages, r \in Revs : Install(p, r)
  \/ \E p \in Pages : RemoveFile(p) \/ Finalize(p) \/ DeletePage(p)
  \/ \E p \in Pages, q \in Paths : MoveFile(p, q) \/ RenamePage(p, q)

Run(w) ==
  \/ Claim(w) \/ Resume(w) \/ RefuseClaims(w) \/ Create(w)
  \/ Send(w) \/ Receive(w) \/ Refused(w)
  \/ \E r \in work[w].results : AttributePage(w, r)
  \/ \E s \in work[w].deleted : AttributeDelete(w, s)
  \/ FinishSegment(w) \/ FinishJobs(w) \/ FinishBatch(w)

Serve == Tool!Serve /\ UNCHANGED <<tableVars, page, changes, work, faults>>

Fault ==
  \/ \E w \in Workers : Timeout(w) \/ Crash(w) \/ Stall(w)
  \/ RestartGBrain \/ FailCompensation

Next == Wiki \/ (\E w \in Workers : Run(w)) \/ Serve \/ Fault \/ Tick

Spec == Init /\ [][Next]_vars

-----------------------------------------------------------------------------
(* Properties.                                                             *)

(* A hit on slug s becomes a citation (map_gbrain_hit in app/citations.py) *)
(* when the mapping is current, names the row's hash, generation and path, *)
(* and belongs to the present epoch of an active page.                     *)
MapsPresent(s, p) ==
  /\ mapping[s] # None /\ mapping[s].status = "current" /\ mapping[s].page = p
  /\ Active(p) /\ mapping[s].rev = page[p].rev /\ mapping[s].epoch = page[p].epoch

Cited(s, p) ==
  /\ MapsPresent(s, p)
  /\ brain[s] # None /\ brain[s].src = s
  /\ Tool!Hash(brain[s]) = mapping[s].hash /\ brain[s].gen = mapping[s].gen

(* What is cited as evidence for a page is its present revision, whatever  *)
(* was imported, renamed, undone or answered late in between: the hash     *)
(* that a result, the stored answer and the mapping pass on is that of the *)
(* revision the page had been expected with.                               *)
EvidenceIsCurrent ==
  \A s \in Paths, p \in Pages :
    Cited(s, p) => brain[s].page = p /\ brain[s].rev = page[p].rev

JobsOf(p) ==
  {k \in DOMAIN jobs : k.target = "gbrain" /\ k.page = p /\ k.epoch = page[p].epoch}

(* An epoch that nobody has asked GBrain to project, neither its own       *)
(* transaction (wiki_revisions.py:7777) nor a worker that came upon it.    *)
Unrequested(p) == ~page[p].asked /\ JobsOf(p) = {}

(* The projection of an active page never ends in nothing: its present     *)
(* epoch is mapped, or a job of that epoch is open or ended in another way *)
(* than by success, unless the epoch is a compile's that none was asked    *)
(* for.  Attributing an answer, removing a slug and ending a job are each  *)
(* guarded by an epoch of their own; together they may not leave a         *)
(* succeeded job without the mapping it stands for.                        *)
ProjectionIsKept ==
  \A p \in Pages : Active(p) =>
    \/ \E s \in Paths : MapsPresent(s, p)
    \/ \E k \in JobsOf(p) : jobs[k].status # "succeeded"
    \/ Unrequested(p)

(* An answer of an earlier epoch, however late, never replaces the mapping *)
(* of a later one (_page_matches_expected before every write).             *)
MappingNeverGoesBack ==
  [][\A p \in Pages, s \in Paths :
       IsMapped(mapping[s]) /\ IsMapped(mapping'[s])
         /\ mapping'[s].page = p /\ mapping[s].page = p
       => mapping'[s].epoch >= mapping[s].epoch]_vars

(* A row that an active protection holds is not deleted by a request that  *)
(* a worker still waits for, but for the delete job of the protected page. *)
(* Protections are written after one segment and read before the next, and *)
(* the tool adds those of the pages that failed in the request itself.     *)
ProtectedRowsStay ==
  [][\A s \in Paths :
       /\ brain[s] # None /\ brain'[s] = None /\ serving.step = "delete"
       /\ \E w \in Workers : work[w].req = serving.req
       => \A g \in guarded : g.at = s =>
            \E k \in batches[serving.req.key[1]].members :
              k.op = "delete" /\ k.page = g.page]_vars

Quiet ==
  /\ \A k \in DOMAIN jobs : Settled(jobs[k])
  /\ \A w \in Workers : work[w].step = "idle"
  /\ serving = None /\ inbox = {}
  /\ \A q \in Paths : file[q] # None =>
        Active(file[q].page) /\ page[file[q].page].path = q
          /\ file[q].rev = page[file[q].page].rev
  /\ \A p \in Pages : Active(p) => OwnerAt(page[p].path) = p

(* When nothing moves any more, nothing failed and files and rows agree,   *)
(* every active page whose projection was asked for is citable and no      *)
(* deleted page has a row: "the key and the hash make a retry safe".  See  *)
(* README, Findings.                                                       *)
QuietMeansEvident ==
  Quiet /\ faults = 0 => \A p \in Pages :
    \/ \E k \in JobsOf(p) : jobs[k].status \in {"failed", "superseded"}
    \/ Unrequested(p)
    \/ Active(p) /\ Cited(page[p].path, p)
    \/ ~Active(p) /\ Tool!RowsOf(p) = {}

=============================================================================
