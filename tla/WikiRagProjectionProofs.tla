----------------------- MODULE WikiRagProjectionProofs -----------------------
(***************************************************************************)
(* The safety of the retrieval projection for any pages, revisions,        *)
(* workers, limits and number of faults: the watermark names nothing but   *)
(* what is current and has its rows, no projection is lost, a withdrawn    *)
(* page keeps no rows, and retrieval implements RagVisibility.             *)
(***************************************************************************)
EXTENDS WikiRagProjection, ProjectionJobsProofs

Over(job) == job.status \in {"succeeded", "superseded"}

(* A page that was never published has no revision.                        *)
NeverPublished ==
  \A p \in Pages : page[p].epoch = 0 => page[p].life = "active" /\ page[p].rev = NoRev

(* Jobs are of epochs there have been.                                     *)
JobsOfThePast == \A k \in DOMAIN jobs : k.epoch \in 1 .. page[k.page].epoch

(* What a projection at work knows of its page: one that writes has seen   *)
(* the page match, which lasts as long as the epoch; one that gives up has *)
(* seen that it does not, which lasts for ever.                            *)
SeenToMatch(k) == k.rev # NoRev /\ (k.epoch = page[k.page].epoch => Matches(k))

Hand(w) ==
  pc[w] # "idle" =>
    /\ current[w].target = "rag"
    /\ pc[w] = "delete" => current[w].op = "delete"
    /\ pc[w] # "delete" => current[w].op # "delete"
    /\ pc[w] = "supersede" => ~Matches(current[w])
    /\ pc[w] \in {"write", "commit"} => SeenToMatch(current[w])

HandsKnow ==
  /\ \A w \in Workers : Hand(w)
  /\ \A w \in Workers : \A k \in queue[w] : k.target = "rag"

(* A projection that would win still has the rows it wrote: while it owns  *)
(* its job, no cleanup takes them.                                         *)
Written(w) ==
  pc[w] = "commit" /\ Owns(jobs, current[w], w) /\ Matches(current[w])
    => RowOf(current[w]) \in chunks
WinnersHaveRows == \A w \in Workers : Written(w)

(* A withdrawn page has no rows of its present epoch, and no job of an     *)
(* older one that anybody could still take up.                             *)
RowsAreOld ==
  \A c \in chunks :
    /\ c.epoch <= page[c.page].epoch
    /\ page[c.page].life # "active" => c.epoch # page[c.page].epoch

OldJobsAreOver ==
  \A k \in DOMAIN jobs :
    page[k.page].life # "active" /\ k.epoch # page[k.page].epoch => Over(jobs[k])

(* Once its delete job has succeeded, each row left of a withdrawn page    *)
(* has a projection that goes on to clean it up.                           *)
DeleteDone(p) ==
  /\ page[p].life # "active"
  /\ \E k \in DOMAIN jobs :
       /\ k.target = "rag" /\ k.op = "delete" /\ k.page = p
       /\ k.epoch = page[p].epoch /\ jobs[k].status = "succeeded"

CleansUp(w) == pc[w] \in {"commit", "cleanup"}
Accounts(w, c) ==
  CleansUp(w) /\ current[w].page = c.page /\ current[w].epoch = c.epoch
RowsAccounted ==
  faults = 0 => \A c \in chunks :
                  DeleteDone(c.page) => \E w \in Workers : Accounts(w, c)

RagTyped == TypeOK /\ TableOK(jobs)

IInv ==
  /\ RagTyped /\ NeverPublished /\ JobsOfThePast /\ HandsKnow
  /\ WinnersHaveRows /\ RowsAreOld /\ OldJobsAreOver /\ RowsAccounted
  /\ WatermarkIsCurrent /\ VisibleHasRows /\ NoLostProjection

(* The initial state satisfies the invariant.                              *)
LEMMA InitIInv == Init => IInv
<1> SUFFICES ASSUME Init PROVE IInv
  OBVIOUS
<1>1. DOMAIN jobs = {} /\ chunks = {}
  BY DEF Init, NoJobs
<1>2. RagTyped
  <2>1. TableOK(jobs)
    BY <1>1 DEF TableOK, IsTable, Disciplined
  <2>2. page \in [Pages -> Page]
    BY WikiRagProjectionAssumption DEF Init, Page, Lives, NoEpoch
  <2>3. pc \in [Workers -> Steps] /\ renewing \in [Workers -> BOOLEAN]
    BY DEF Init, Steps
  <2> QED
    BY <1>1, <2>1, <2>2, <2>3, WikiRagProjectionAssumption
    DEF Init, RagTyped, TypeOK, TableOK
<1>3. NeverPublished /\ JobsOfThePast /\ RowsAreOld /\ OldJobsAreOver /\ RowsAccounted
  BY <1>1 DEF Init, NeverPublished, JobsOfThePast, RowsAreOld, OldJobsAreOver, RowsAccounted
<1>4. HandsKnow /\ WinnersHaveRows
  BY DEF Init, HandsKnow, Hand, WinnersHaveRows, Written
<1>5. WatermarkIsCurrent /\ VisibleHasRows /\ NoLostProjection
  BY DEF Init, WatermarkIsCurrent, VisibleHasRows, NoLostProjection
<1> QED
  BY <1>2, <1>3, <1>4, <1>5 DEF IInv

-----------------------------------------------------------------------------
(* What the transactions of the outbox do to the status of rows.           *)

(* A step of the table that no page transaction makes: the same rows, and  *)
(* what is over stays so.                                                  *)
TableGoesOn ==
  /\ TableOK(jobs') /\ DOMAIN jobs' = DOMAIN jobs
  /\ \A k \in DOMAIN jobs : Over(jobs[k]) => jobs'[k].status = jobs[k].status

(* Nobody gets a row, and no row gets over.                                *)
NobodyGains ==
  /\ TableGoesOn
  /\ \A k \in DOMAIN jobs : Over(jobs'[k]) => Over(jobs[k])
  /\ \A k \in DOMAIN jobs : \A w \in Workers : Owns(jobs', k, w) => Owns(jobs, k, w)

(* The outcome of a projection that owns its job.                          *)
Finishes(k, status) ==
  /\ TableGoesOn
  /\ jobs'[k].status = status
  /\ \A j \in DOMAIN jobs \ {k} : jobs'[j] = jobs[j]
  /\ \A w \in Workers : ~Owns(jobs', k, w)

(* finish_claimed.                                                         *)
LEMMA FinishedEffect ==
  ASSUME TableOK(jobs), NEW w \in Workers, NEW k, Owns(jobs, k, w),
         NEW status \in {"succeeded", "superseded"}, jobs' = FinishedAs(jobs, k, status)
  PROVE  Finishes(k, status)
<1>1. k \in DOMAIN jobs /\ ~Over(jobs[k])
  BY DEF Owns, Over
<1>2. /\ TableOK(jobs') /\ DOMAIN jobs' = DOMAIN jobs
      /\ \A j \in DOMAIN jobs \ {k} : jobs'[j] = jobs[j]
  BY <1>1, FinishedTable
<1>3. jobs'[k].status = status
  BY <1>1 DEF FinishedAs, Released
<1> QED
  BY <1>1, <1>2, <1>3 DEF Finishes, TableGoesOn, Owns

(* mark_failed.                                                            *)
LEMMA MarkedFailedEffect ==
  ASSUME TableOK(jobs), NEW w \in Workers, NEW k, Owns(jobs, k, w),
         jobs' = MarkedFailed(jobs, k)
  PROVE  NobodyGains
<1>1. k \in DOMAIN jobs /\ ~Over(jobs[k])
  BY DEF Owns, Over
<1>2. /\ TableOK(jobs') /\ DOMAIN jobs' = DOMAIN jobs
      /\ \A j \in DOMAIN jobs \ {k} : jobs'[j] = jobs[j]
  BY <1>1, MarkedFailedTable
<1>3. jobs'[k].status = "failed"
  BY <1>1 DEF MarkedFailed, Released
<1> QED
  BY <1>1, <1>2, <1>3 DEF NobodyGains, TableGoesOn, Owns, Over

(* No transaction at all.                                                  *)
LEMMA NoEffect ==
  ASSUME TableOK(jobs), jobs' = jobs
  PROVE  NobodyGains
  BY DEF NobodyGains, TableGoesOn

(* renew_lease, and time.                                                  *)
LEMMA TimersEffect ==
  ASSUME TableOK(jobs), jobs' = Aged(jobs) \/ \E k, w : jobs' = Renewed(jobs, k, w)
  PROVE  NobodyGains
<1>1. /\ TableOK(jobs') /\ DOMAIN jobs' = DOMAIN jobs
      /\ \A j \in DOMAIN jobs : /\ jobs'[j].owner = jobs[j].owner
                                /\ jobs'[j].status = jobs[j].status
  BY AgedTable, RenewedTable
<1> QED
  BY <1>1 DEF NobodyGains, TableGoesOn, Owns, Over

(* claim gets rows for one worker, and they were not over.                 *)
LEMMA ClaimEffect ==
  ASSUME TableOK(jobs), NEW w \in Workers, Claim(w)
  PROVE  /\ TableGoesOn
         /\ \A k \in DOMAIN jobs : Over(jobs'[k]) => Over(jobs[k])
         /\ \A k \in DOMAIN jobs : \A v \in Workers \ {w} :
              Owns(jobs', k, v) => Owns(jobs, k, v)
         /\ \E B \in SUBSET {k \in DOMAIN jobs : k.target = "rag"} :
              queue' = [queue EXCEPT ![w] = B]
<1> DEFINE live == ExpiredOut(jobs, "rag")
<1>1. /\ TableOK(live) /\ DOMAIN live = DOMAIN jobs
      /\ \A k \in DOMAIN jobs :
           /\ live[k].owner \in {jobs[k].owner, NoOwner}
           /\ jobs[k].status # "running" => live[k].status = jobs[k].status
  BY ExpiredOutTable
<1>2. \A k \in DOMAIN jobs : /\ Over(live[k]) => Over(jobs[k])
                             /\ live[k].status = "running" => live[k] = jobs[k]
  BY DEF ExpiredOut, Released, Over
<1>3. PICK B \in Batches(live, "rag", ClaimLimit) :
        jobs' = Claimed(live, B, w) /\ queue' = [queue EXCEPT ![w] = B]
  BY DEF Claim
<1> HIDE DEF live
<1>4. B \in SUBSET Due(live, "rag")
  BY BatchIsDue
<1>5. /\ TableOK(Claimed(live, B, w)) /\ DOMAIN Claimed(live, B, w) = DOMAIN live
      /\ \A k \in DOMAIN live \ B : Claimed(live, B, w)[k] = live[k]
      /\ \A k \in B : /\ live[k].attempts + 1 \in 1 .. MaxAttempts
                      /\ Claimed(live, B, w)[k].owner = w
                      /\ Claimed(live, B, w)[k].attempts = live[k].attempts + 1
  BY <1>1, <1>4, ClaimedTable
<1>6. \A k \in B : /\ k \in DOMAIN live /\ k.target = "rag"
                   /\ ~Over(live[k])
                   /\ Claimed(live, B, w)[k].status = "running"
  BY <1>4 DEF Due, Claimed, Lapsed, Over
<1>7. \A k \in DOMAIN jobs : Over(jobs[k]) => k \notin B
  BY <1>1, <1>6 DEF Over
<1>8. TableGoesOn
  BY <1>1, <1>3, <1>5, <1>7 DEF TableGoesOn, Over
<1>9. \A k \in DOMAIN jobs : Over(jobs'[k]) => Over(jobs[k])
  BY <1>1, <1>2, <1>3, <1>5, <1>6 DEF Over
<1>10. \A k \in DOMAIN jobs : \A v \in Workers \ {w} :
         Owns(jobs', k, v) => Owns(jobs, k, v)
  BY <1>1, <1>2, <1>3, <1>5, <1>6 DEF Owns
<1>11. B \in SUBSET {k \in DOMAIN jobs : k.target = "rag"}
  BY <1>1, <1>6
<1> QED
  BY <1>3, <1>8, <1>9, <1>10, <1>11

-----------------------------------------------------------------------------
(* What a step of worker w (or of time, with NoOwner for w) may do; that   *)
(* it does no more is shown for every action, and that this is enough for  *)
(* the invariant is shown once.                                            *)
PageSame ==
  /\ page' \in [Pages -> Page]
  /\ \A p \in Pages : /\ page'[p].life = page[p].life
                      /\ page'[p].rev = page[p].rev
                      /\ page'[p].epoch = page[p].epoch

Frame(w) ==
  /\ RagTyped' /\ PageSame /\ TableGoesOn
  /\ faults' = 0 => faults = 0
  /\ \A v \in Workers \ {w} :
       /\ pc'[v] = pc[v] /\ current'[v] = current[v] /\ queue'[v] \subseteq queue[v]
       /\ \A k \in DOMAIN jobs : Owns(jobs', k, v) => Owns(jobs, k, v)

HandStep(w) ==
  w \in Workers =>
    /\ Hand(w)' /\ Written(w)'
    /\ \A k \in queue'[w] : k.target = "rag"

(* Rows come from what is in hand only; rows that are visible or have a    *)
(* running owner stay; and a cleanup that is due is not forgotten.         *)
Spared(c) ==
  \/ /\ page'[c.page].visRev # NoRev
     /\ c.rev = page'[c.page].visRev /\ c.epoch = page'[c.page].visEpoch
  \/ /\ page[c.page].life = "active"
     /\ \E j \in DOMAIN jobs : /\ j.target = "rag" /\ j.page = c.page
                              /\ j.epoch = c.epoch /\ jobs'[j].status = "running"

RowStep(w) ==
  /\ \A c \in chunks' \ chunks :
       /\ w \in Workers /\ c = RowOf(current[w])
       /\ pc[w] = "write" /\ pc'[w] = "commit" /\ current'[w] = current[w]
  /\ \A c \in chunks \ chunks' : ~Spared(c)
  /\ faults' = 0 =>
       \A c \in chunks' : page[c.page].life # "active" /\ Accounts(w, c) => Accounts(w, c)'

(* A job is over when it has been done, or when nothing is left of it to   *)
(* do; and a delete job succeeds only with the rows gone.                  *)
JobStep ==
  \A k \in DOMAIN jobs :
    /\ Over(jobs'[k]) => \/ Over(jobs[k]) \/ k.op = "delete"
                         \/ ~Matches(k) \/ page'[k.page].visRev # NoRev
    /\ jobs'[k].status = "succeeded" /\ k.op = "delete" =>
         jobs[k].status = "succeeded" \/ \A c \in chunks' : c.page # k.page

(* The watermark is set to what is current and has its rows, and cleared   *)
(* for withdrawn pages only.                                               *)
MarkStep ==
  /\ WatermarkIsCurrent'
  /\ \A p \in Pages :
       /\ page'[p].visRev = NoRev /\ page[p].life = "active" => page[p].visRev = NoRev
       /\ page'[p].visRev # NoRev =>
            [page |-> p, rev |-> page'[p].visRev, epoch |-> page'[p].visEpoch] \in chunks

WorkerStep(w) == Frame(w) /\ HandStep(w) /\ RowStep(w) /\ JobStep /\ MarkStep

(* What is in hand is of a page, and of an epoch there was.                *)
LEMMA JobsAreTyped ==
  ASSUME RagTyped, JobsOfThePast, NEW k \in DOMAIN jobs
  PROVE  /\ k \in Key /\ k # NoJob /\ k.page \in Pages
         /\ k.epoch \in Nat /\ k.epoch >= 1 /\ k.epoch <= page[k.page].epoch
         /\ page[k.page].epoch \in 0 .. MaxEpoch
  BY WikiRagProjectionAssumption
  DEF RagTyped, TypeOK, IsTable, JobsOfThePast, Key, Page

LEMMA HandsAreTyped ==
  ASSUME RagTyped, NEW w \in Workers, pc[w] # "idle"
  PROVE  current[w] \in DOMAIN jobs
  BY DEF RagTyped, TypeOK

(* A step that does no more keeps the invariant.                           *)
LEMMA WorkerStepKeeps ==
  ASSUME IInv, NEW w \in Workers \cup {NoOwner}, WorkerStep(w)
  PROVE  IInv'
<1> USE DEF WorkerStep, IInv
<1>0. NoOwner \notin Workers
  BY ProjectionJobsAssumption
<1>1. NeverPublished' /\ JobsOfThePast'
  <2>1. \A k \in DOMAIN jobs : k.page \in Pages
    BY JobsAreTyped
  <2> QED
    BY <2>1 DEF Frame, PageSame, TableGoesOn, NeverPublished, JobsOfThePast
<1>2. \A v \in Workers : Hand(v)'
  <2> SUFFICES ASSUME NEW v \in Workers, v # w PROVE Hand(v)'
    BY DEF HandStep
  <2>1. pc'[v] = pc[v] /\ current'[v] = current[v] /\ Hand(v)
    BY DEF Frame, HandsKnow
  <2>2. CASE pc[v] = "idle"
    BY <2>1, <2>2 DEF Hand
  <2>3. CASE pc[v] # "idle"
    <3>1. current[v].page \in Pages
      BY <2>3, HandsAreTyped, JobsAreTyped
    <3>2. /\ Matches(current[v])' <=> Matches(current[v])
          /\ SeenToMatch(current[v])' <=> SeenToMatch(current[v])
      BY <2>1, <3>1 DEF Frame, PageSame, Matches, SeenToMatch
    <3> QED
      BY <2>1, <2>3, <3>2 DEF Hand
  <2> QED
    BY <2>2, <2>3
<1>3. HandsKnow'
  BY <1>2 DEF HandsKnow, HandStep, Frame
<1>4. WinnersHaveRows'
  <2> SUFFICES ASSUME NEW v \in Workers, v # w, pc[v] = "commit",
                      Owns(jobs, current[v], v), Owns(jobs', current[v], v),
                      Matches(current[v])'
               PROVE  RowOf(current[v]) \in chunks'
    <3>1. \A v \in Workers : pc[v] # "idle" => current[v] \in DOMAIN jobs
      BY HandsAreTyped
    <3> QED
      BY <3>1 DEF WinnersHaveRows, Written, HandStep, Frame, RowOf
  <2> DEFINE k == current[v]
  <2>1. k \in DOMAIN jobs /\ k.page \in Pages /\ k.target = "rag" /\ k' = k
    BY HandsAreTyped, JobsAreTyped DEF HandsKnow, Hand, Frame
  <2>2. Matches(k)
    BY <2>1 DEF Frame, PageSame, Matches
  <2>3. RowOf(k) \in chunks
    BY <2>2 DEF WinnersHaveRows, Written
  <2>4. Spared(RowOf(k))
    BY <2>1, <2>2 DEF Spared, Matches, RowOf, Owns
  <2> QED
    BY <2>3, <2>4 DEF RowStep
<1>5. RowsAreOld'
  <2> SUFFICES ASSUME NEW c \in chunks'
               PROVE  /\ c.epoch <= page[c.page].epoch
                      /\ page[c.page].life # "active" => c.epoch # page[c.page].epoch
    <3>1. chunks' \subseteq Chunk
      BY DEF Frame, RagTyped, TypeOK
    <3>2. \A c \in chunks' : c.page \in Pages
      BY <3>1 DEF Chunk
    <3> QED
      BY <3>2 DEF RowsAreOld, Frame, PageSame
  <2>1. CASE c \in chunks
    BY <2>1 DEF RowsAreOld
  <2>2. CASE c \notin chunks
    <3>1. w \in Workers /\ c = RowOf(current[w]) /\ pc[w] = "write"
      BY <2>2 DEF RowStep
    <3>2. SeenToMatch(current[w])
      BY <3>1 DEF HandsKnow, Hand
    <3>3. current[w].epoch <= page[current[w].page].epoch
      BY <3>1, HandsAreTyped, JobsAreTyped
    <3> QED
      BY <3>1, <3>2, <3>3 DEF SeenToMatch, Matches, RowOf
  <2> QED
    BY <2>1, <2>2
<1>6. OldJobsAreOver'
  <2>1. \A k \in DOMAIN jobs : k.page \in Pages
    BY JobsAreTyped
  <2> QED
    BY <2>1 DEF OldJobsAreOver, Frame, PageSame, TableGoesOn, Over
<1>7. RowsAccounted'
  <2> SUFFICES ASSUME faults' = 0, NEW c \in chunks', DeleteDone(c.page)'
               PROVE  \E v \in Workers : Accounts(v, c)'
    BY DEF RowsAccounted
  <2>1. c.page \in Pages
    BY DEF Frame, RagTyped, TypeOK, Chunk
  <2>2. DeleteDone(c.page)
    BY <2>1 DEF DeleteDone, Frame, PageSame, TableGoesOn, JobStep
  <2>3. CASE c \notin chunks
    BY <2>3 DEF RowStep, Accounts, CleansUp, RowOf
  <2>4. CASE c \in chunks
    <3>1. PICK v \in Workers : Accounts(v, c)
      BY <2>2, <2>4 DEF RowsAccounted, Frame
    <3>2. CASE v = w
      BY <2>2, <3>1, <3>2 DEF RowStep, DeleteDone
    <3>3. CASE v # w
      BY <3>1, <3>3 DEF Frame, Accounts, CleansUp
    <3> QED
      BY <3>2, <3>3
  <2> QED
    BY <2>3, <2>4
<1>8. WatermarkIsCurrent' /\ VisibleHasRows'
  <2> SUFFICES ASSUME NEW p \in Pages, page'[p].visRev # NoRev
               PROVE  [page |-> p, rev |-> page'[p].visRev,
                       epoch |-> page'[p].visEpoch] \in chunks'
    BY DEF MarkStep, VisibleHasRows
  <2> DEFINE c == [page |-> p, rev |-> page'[p].visRev, epoch |-> page'[p].visEpoch]
  <2>1. c \in chunks
    BY DEF MarkStep
  <2>2. Spared(c)
    BY DEF Spared
  <2> QED
    BY <2>1, <2>2 DEF RowStep
<1>9. NoLostProjection'
  <2> SUFFICES ASSUME NEW p \in Pages, page[p].life = "active",
                      page[p].rev # NoRev, page'[p].visRev = NoRev
               PROVE  \E k \in DOMAIN jobs' :
                        /\ k.target = "rag" /\ k.op # "delete" /\ k.page = p
                        /\ k.rev = page[p].rev /\ k.epoch = page[p].epoch
                        /\ jobs'[k].status \notin {"succeeded", "superseded"}
    BY DEF NoLostProjection, Frame, PageSame
  <2>1. PICK k \in DOMAIN jobs :
          /\ k.target = "rag" /\ k.op # "delete" /\ k.page = p
          /\ k.rev = page[p].rev /\ k.epoch = page[p].epoch
          /\ ~Over(jobs[k])
    BY DEF MarkStep, NoLostProjection, Over
  <2>2. Matches(k)
    BY <2>1 DEF Matches
  <2>3. ~Over(jobs'[k])
    BY <2>1, <2>2 DEF JobStep
  <2> QED
    BY <2>1, <2>3 DEF Frame, TableGoesOn, Over
<1> QED
  BY <1>1, <1>3, <1>4, <1>5, <1>6, <1>7, <1>8, <1>9 DEF Frame

-----------------------------------------------------------------------------
(* The steps of a worker's thread.                                         *)

(* The thread goes on to its next transaction with the same job.           *)
LEMMA GotoEffect ==
  ASSUME RagTyped, RagTyped', NEW w \in Workers, NEW step \in Steps, Goto(w, step)
  PROVE  /\ pc'[w] = step /\ current' = current /\ queue' = queue
         /\ \A v \in Workers \ {w} : pc'[v] = pc[v]
  BY DEF Goto, RagTyped, TypeOK

(* The thread has done with its job.                                       *)
LEMMA DoneEffect ==
  ASSUME RagTyped, NEW w \in Workers, Done(w)
  PROVE  /\ pc' \in [Workers -> Steps] /\ current' \in [Workers -> DOMAIN jobs \cup {NoJob}]
         /\ \A v \in Workers : current'[v] = NoJob <=> pc'[v] = "idle"
         /\ pc'[w] = "idle" /\ queue' = queue /\ renewing' = renewing
         /\ \A v \in Workers \ {w} : pc'[v] = pc[v] /\ current'[v] = current[v]
  BY DEF Done, RagTyped, TypeOK, Steps

(* A thread with nothing in hand knows nothing.                            *)
LEMMA IdleHand ==
  ASSUME IInv, NEW w \in Workers, pc'[w] = "idle", queue'[w] \subseteq queue[w]
  PROVE  HandStep(w)
  BY DEF HandStep, Hand, Written, IInv, HandsKnow

(* The pages as they were: the watermark is as good as it was.             *)
LEMMA PagesStay ==
  ASSUME IInv, page' = page
  PROVE  PageSame /\ MarkStep
  BY DEF IInv, RagTyped, TypeOK, PageSame, MarkStep, WatermarkIsCurrent, VisibleHasRows

(* A step that makes no job over.                                          *)
LEMMA NoJobOver ==
  ASSUME NobodyGains
  PROVE  JobStep
  BY DEF NobodyGains, TableGoesOn, JobStep, Over

(* _cleanup_epoch takes no row away that a reader sees or an owner needs,  *)
(* and leaves none of an old epoch of a withdrawn page.                    *)
LEMMA CleanedUpRows ==
  ASSUME IInv, TableGoesOn, page' = page, NEW k \in DOMAIN jobs,
         chunks' = CleanedUp(k, jobs')
  PROVE  /\ chunks' \subseteq chunks
         /\ \A c \in chunks \ chunks' : ~Spared(c)
         /\ page[k.page].life # "active" =>
              \A c \in chunks' : ~(c.page = k.page /\ c.epoch = k.epoch)
<1>1. chunks' \subseteq chunks
  BY DEF CleanedUp
<1>2. ASSUME NEW c \in chunks, c \notin chunks'
      PROVE  ~Spared(c)
  <2>1. ~Needed(k, jobs') /\ c.page = k.page /\ c.epoch = k.epoch
    BY <1>2 DEF CleanedUp
  <2>2. k.page \in Pages
    BY JobsAreTyped DEF IInv
  <2> QED
    BY <2>1, <2>2 DEF Spared, Needed, IInv, WatermarkIsCurrent, TableGoesOn
<1>3. ASSUME page[k.page].life # "active", NEW c \in chunks,
             c.page = k.page, c.epoch = k.epoch
      PROVE  c \notin chunks'
  <2>1. k.epoch # page[k.page].epoch
    BY <1>3 DEF IInv, RowsAreOld
  <2>2. \A j \in DOMAIN jobs : j.page = k.page /\ j.epoch = k.epoch => jobs'[j].status # "running"
    BY <1>3, <2>1 DEF IInv, OldJobsAreOver, TableGoesOn, Over
  <2>3. ~Needed(k, jobs')
    BY <1>3, <2>2 DEF Needed, TableGoesOn
  <2> QED
    BY <1>3, <2>3 DEF CleanedUp
<1> QED
  BY <1>1, <1>2, <1>3

(* Where rows and pages stay and no job gets over, only what is in hand    *)
(* matters.                                                                *)
LEMMA QuietStep ==
  ASSUME IInv, NEW w \in Workers \cup {NoOwner}, RagTyped', NobodyGains,
         UNCHANGED <<page, chunks>>, faults' \in {faults, faults + 1},
         \A v \in Workers \ {w} : /\ pc'[v] = pc[v] /\ current'[v] = current[v]
                                  /\ queue'[v] \subseteq queue[v],
         HandStep(w),
         \A c \in chunks : Accounts(w, c) => faults' = faults + 1 \/ Accounts(w, c)'
  PROVE  IInv'
<1>1. PageSame /\ MarkStep /\ JobStep
  BY PagesStay, NoJobOver
<1>2. faults \in Nat
  BY WikiRagProjectionAssumption DEF IInv, RagTyped, TypeOK
<1>3. RowStep(w)
  BY <1>2 DEF RowStep
<1>4. Frame(w)
  BY <1>1, <1>2 DEF Frame, NobodyGains
<1> QED
  BY <1>1, <1>3, <1>4, WorkerStepKeeps DEF WorkerStep

LEMMA StartKeeps ==
  ASSUME IInv, NEW w \in Workers, NEW k \in queue[w], Start(w, k)
  PROVE  IInv'
<1>1. k \in DOMAIN jobs /\ k # NoJob /\ k.target = "rag"
  BY JobsAreTyped DEF IInv, HandsKnow, RagTyped, TypeOK
<1>2. NobodyGains
  BY NoEffect DEF IInv, RagTyped, Start
<1>3. RagTyped'
  BY <1>1, <1>2 DEF IInv, RagTyped, TypeOK, Start, NobodyGains, TableGoesOn, Steps
<1>4. /\ pc'[w] = (IF k.op = "delete" THEN "delete" ELSE "load")
      /\ current'[w] = k /\ queue'[w] = queue[w] \ {k}
      /\ \A v \in Workers \ {w} : /\ pc'[v] = pc[v] /\ current'[v] = current[v]
                                   /\ queue'[v] = queue[v]
  BY DEF IInv, RagTyped, TypeOK, Start
<1>5. HandStep(w)
  BY <1>1, <1>4 DEF HandStep, Hand, Written, IInv, HandsKnow
<1> QED
  BY <1>2, <1>3, <1>4, <1>5, QuietStep DEF Start, Accounts, CleansUp

LEMMA LoadSnapshotKeeps ==
  ASSUME IInv, NEW w \in Workers, LoadSnapshot(w)
  PROVE  IInv'
<1> DEFINE step == IF Matches(current[w]) THEN "write" ELSE "supersede"
<1>1. NobodyGains
  BY NoEffect DEF IInv, RagTyped, LoadSnapshot
<1>2. RagTyped'
  BY <1>1 DEF IInv, RagTyped, TypeOK, LoadSnapshot, Goto, NobodyGains, TableGoesOn, Steps
<1>3. /\ pc'[w] = step /\ current' = current /\ queue' = queue
      /\ \A v \in Workers \ {w} : pc'[v] = pc[v]
  BY <1>2, GotoEffect DEF LoadSnapshot, IInv, Steps
<1>4. Hand(w) /\ pc[w] = "load"
  BY DEF LoadSnapshot, IInv, HandsKnow
<1>5. Hand(w)'
  BY <1>3, <1>4 DEF Hand, Matches, SeenToMatch, LoadSnapshot
<1>6. HandStep(w)
  BY <1>3, <1>5 DEF HandStep, Written, IInv, HandsKnow
<1> QED
  BY <1>1, <1>2, <1>3, <1>4, <1>6, QuietStep DEF LoadSnapshot, Accounts, CleansUp

LEMMA RaiseKeeps ==
  ASSUME IInv, NEW w \in Workers, Raise(w)
  PROVE  IInv'
<1>1. NobodyGains
  BY NoEffect, MarkedFailedEffect DEF IInv, RagTyped, Raise
<1>2. /\ pc'[w] = "idle" /\ queue' = queue
      /\ \A v \in Workers \ {w} : pc'[v] = pc[v] /\ current'[v] = current[v]
  BY DoneEffect DEF Raise, IInv
<1>3. RagTyped'
  <2>1. TableOK(jobs') /\ DOMAIN jobs' = DOMAIN jobs
    BY <1>1 DEF NobodyGains, TableGoesOn
  <2>2. faults' \in 0 .. MaxFaults
    BY WikiRagProjectionAssumption DEF Raise, IInv, RagTyped, TypeOK
  <2>3. Done(w) /\ UNCHANGED <<page, chunks>>
    BY DEF Raise
  <2>4. RagTyped
    BY DEF IInv
  <2> QED
    BY <2>1, <2>2, <2>3, <2>4, DoneEffect DEF RagTyped, TypeOK, TableOK
<1>4. HandStep(w)
  BY <1>2, IdleHand
<1>5. faults' \in {faults, faults + 1}
  BY DEF Raise
<1>6. CleansUp(w) => faults' = faults + 1
  BY DEF Raise, CleansUp
<1> QED
  BY <1>1, <1>2, <1>3, <1>4, <1>5, <1>6, QuietStep DEF Raise, Accounts

LEMMA CrashKeeps ==
  ASSUME IInv, NEW w \in Workers, Crash(w)
  PROVE  IInv'
<1>1. NobodyGains
  BY NoEffect DEF IInv, RagTyped, Crash
<1>2. /\ pc'[w] = "idle" /\ queue'[w] = {}
      /\ \A v \in Workers \ {w} : /\ pc'[v] = pc[v] /\ current'[v] = current[v]
                                   /\ queue'[v] = queue[v]
  BY DEF Crash, IInv, RagTyped, TypeOK
<1>3. RagTyped'
  BY <1>1, WikiRagProjectionAssumption
  DEF IInv, RagTyped, TypeOK, Crash, NobodyGains, TableGoesOn, Steps
<1>4. HandStep(w)
  BY <1>2, IdleHand
<1> QED
  BY <1>1, <1>2, <1>3, <1>4, QuietStep DEF Crash

LEMMA CancelRunKeeps ==
  ASSUME IInv, NEW w \in Workers, NEW k, CancelRun(w, k)
  PROVE  IInv'
<1>1. NobodyGains
  BY NoEffect DEF IInv, RagTyped, CancelRun
<1>2. RagTyped'
  BY <1>1 DEF IInv, RagTyped, TypeOK, CancelRun, NobodyGains, TableGoesOn
<1>3. \A v \in Workers : queue'[v] \subseteq queue[v]
  BY DEF CancelRun, IInv, RagTyped, TypeOK
<1>4. NoOwner \notin Workers
  BY ProjectionJobsAssumption
<1>5. HandStep(NoOwner)
  BY <1>4 DEF HandStep
<1>6. \A c \in chunks : Accounts(NoOwner, c) => Accounts(NoOwner, c)'
  BY DEF Accounts, CleansUp, CancelRun
<1> QED
  BY <1>1, <1>2, <1>3, <1>5, <1>6, QuietStep DEF CancelRun

LEMMA TimersKeep ==
  ASSUME IInv, Tick \/ \E w, k : RenewLease(w, k)
  PROVE  IInv'
<1>1. NobodyGains
  BY TimersEffect DEF IInv, RagTyped, Tick, RenewLease
<1>2. UNCHANGED <<page, chunks, pc, current, queue, renewing, faults>>
  BY DEF Tick, RenewLease, workerVars
<1>3. RagTyped'
  BY <1>1, <1>2 DEF IInv, RagTyped, TypeOK, NobodyGains, TableGoesOn, TableOK
<1>4. NoOwner \notin Workers
  BY ProjectionJobsAssumption
<1>5. HandStep(NoOwner)
  BY <1>4 DEF HandStep
<1>6. \A c \in chunks : Accounts(NoOwner, c) => Accounts(NoOwner, c)'
  BY <1>2 DEF Accounts, CleansUp
<1> QED
  BY <1>1, <1>2, <1>3, <1>5, <1>6, QuietStep

LEMMA ClaimKeeps ==
  ASSUME IInv, NEW w \in Workers, Claim(w)
  PROVE  IInv'
<1>1. /\ TableGoesOn
      /\ \A k \in DOMAIN jobs : Over(jobs'[k]) => Over(jobs[k])
      /\ \A k \in DOMAIN jobs : \A v \in Workers \ {w} :
           Owns(jobs', k, v) => Owns(jobs, k, v)
  BY ClaimEffect DEF IInv, RagTyped
<1>2. PICK B \in SUBSET {k \in DOMAIN jobs : k.target = "rag"} :
        queue' = [queue EXCEPT ![w] = B]
  BY ClaimEffect DEF IInv, RagTyped
<1>3. /\ pc[w] = "idle" /\ renewing' = [renewing EXCEPT ![w] = TRUE]
      /\ UNCHANGED <<page, chunks, pc, current, faults>>
  BY DEF Claim
<1>4. RagTyped'
  BY <1>1, <1>2, <1>3 DEF IInv, RagTyped, TypeOK, TableGoesOn, TableOK
<1>5. /\ queue'[w] = B /\ \A v \in Workers \ {w} : queue'[v] = queue[v]
  BY <1>2 DEF IInv, RagTyped, TypeOK
<1>6. PageSame /\ MarkStep
  BY <1>3, PagesStay
<1>7. Frame(w)
  BY <1>1, <1>3, <1>4, <1>5, <1>6 DEF Frame
<1>8. HandStep(w)
  BY <1>3, <1>5 DEF HandStep, Hand, Written
<1>9. RowStep(w) /\ JobStep
  BY <1>1, <1>3 DEF RowStep, Accounts, CleansUp, JobStep, TableGoesOn, Over
<1> QED
  BY <1>6, <1>7, <1>8, <1>9, WorkerStepKeeps DEF WorkerStep

LEMMA WriteRowsKeeps ==
  ASSUME IInv, NEW w \in Workers, WriteRows(w)
  PROVE  IInv'
<1> DEFINE k == current[w]
<1>1. /\ k \in DOMAIN jobs /\ k \in Key /\ k.rev # NoRev
      /\ k.epoch >= 1 /\ k.epoch <= page[k.page].epoch
      /\ page[k.page].epoch \in 0 .. MaxEpoch
  BY HandsAreTyped, JobsAreTyped DEF WriteRows, IInv, HandsKnow, Hand, SeenToMatch
<1>2. RowOf(k) \in Chunk
  BY <1>1, WikiRagProjectionAssumption DEF RowOf, Chunk, Key
<1>3. NobodyGains
  BY NoEffect DEF IInv, RagTyped, WriteRows
<1>4. RagTyped'
  BY <1>2, <1>3 DEF IInv, RagTyped, TypeOK, WriteRows, Goto, NobodyGains, TableGoesOn, Steps
<1>5. /\ pc'[w] = "commit" /\ current' = current /\ queue' = queue
      /\ \A v \in Workers \ {w} : pc'[v] = pc[v]
  BY <1>4, GotoEffect DEF WriteRows, IInv, Steps
<1>6. Hand(w) /\ pc[w] = "write"
  BY DEF WriteRows, IInv, HandsKnow
<1>7. Hand(w)' /\ Written(w)'
  BY <1>5, <1>6 DEF Hand, Written, Matches, SeenToMatch, RowOf, WriteRows
<1>8. HandStep(w)
  BY <1>5, <1>7 DEF HandStep, IInv, HandsKnow
<1>9. RowStep(w)
  BY <1>5, <1>6 DEF RowStep, WriteRows, Accounts, CleansUp
<1>10. PageSame /\ MarkStep /\ JobStep
  BY <1>3, PagesStay, NoJobOver DEF WriteRows
<1>11. Frame(w)
  BY <1>3, <1>4, <1>5, <1>10 DEF Frame, NobodyGains, WriteRows
<1> QED
  BY <1>8, <1>9, <1>10, <1>11, WorkerStepKeeps DEF WorkerStep

(* Without the lease the transaction rolls back; a cleanup follows.        *)
LEMMA GiveUpKeeps ==
  ASSUME IInv, NEW w \in Workers, pc[w] \in {"commit", "supersede"},
         Goto(w, "cleanup"), UNCHANGED <<jobs, page, chunks, faults>>
  PROVE  IInv'
<1>1. NobodyGains
  BY NoEffect DEF IInv, RagTyped
<1>2. RagTyped'
  BY <1>1 DEF IInv, RagTyped, TypeOK, Goto, NobodyGains, TableGoesOn, Steps
<1>3. /\ pc'[w] = "cleanup" /\ current' = current /\ queue' = queue
      /\ \A v \in Workers \ {w} : pc'[v] = pc[v]
  BY <1>2, GotoEffect DEF IInv, Steps
<1>4. HandStep(w)
  BY <1>3 DEF HandStep, Hand, Written, IInv, HandsKnow
<1> QED
  BY <1>1, <1>2, <1>3, <1>4, QuietStep DEF Accounts, CleansUp

(* A finished job: nobody has gained one, and the thread is idle.          *)
LEMMA FinishFrame ==
  ASSUME IInv, NEW w \in Workers, pc[w] # "idle", Owns(jobs, current[w], w),
         NEW status \in {"succeeded", "superseded"},
         jobs' = FinishedAs(jobs, current[w], status), Done(w),
         page' \in [Pages -> Page], PageSame, chunks' \subseteq chunks, faults' = faults
  PROVE  Frame(w) /\ HandStep(w) /\ Finishes(current[w], status)
<1>1. Finishes(current[w], status)
  BY FinishedEffect DEF IInv, RagTyped
<1>2. TableOK(jobs') /\ DOMAIN jobs' = DOMAIN jobs
  BY <1>1 DEF Finishes, TableGoesOn
<1>3. \A k \in DOMAIN jobs, v \in Workers : Owns(jobs', k, v) => Owns(jobs, k, v)
  BY <1>1, <1>2 DEF Finishes, Owns
<1>4. RagTyped'
  BY <1>2, DoneEffect DEF IInv, RagTyped, TypeOK, TableOK
<1>5. Frame(w)
  BY <1>1, <1>3, <1>4, DoneEffect DEF Frame, Finishes, IInv
<1>6. HandStep(w)
  BY DoneEffect, IdleHand DEF IInv
<1> QED
  BY <1>1, <1>5, <1>6

LEMMA DropSupersededKeeps ==
  ASSUME IInv, NEW w \in Workers, pc[w] \in {"commit", "supersede"},
         ~Matches(current[w]), DropSuperseded(w), UNCHANGED <<page, faults>>
  PROVE  IInv'
<1> DEFINE k == current[w]
<1>1. CASE Owns(jobs, k, w)
  <2>1. /\ jobs' = FinishedAs(jobs, k, "superseded")
        /\ chunks' = CleanedUp(k, jobs') /\ Done(w)
    BY <1>1 DEF DropSuperseded
  <2>2. PageSame /\ MarkStep /\ page' \in [Pages -> Page]
    BY PagesStay DEF PageSame
  <2>3. chunks' \subseteq chunks
    BY <2>1 DEF CleanedUp
  <2>4. Frame(w) /\ HandStep(w) /\ Finishes(k, "superseded")
    BY <1>1, <2>1, <2>2, <2>3, FinishFrame
  <2>5. /\ \A c \in chunks \ chunks' : ~Spared(c)
        /\ page[k.page].life # "active" =>
             \A c \in chunks' : ~(c.page = k.page /\ c.epoch = k.epoch)
    BY <1>1, <2>1, <2>4, CleanedUpRows DEF Frame, Owns
  <2>6. RowStep(w)
    BY <2>3, <2>5 DEF RowStep, Accounts
  <2>7. JobStep
    BY <2>4 DEF JobStep, Finishes, Over
  <2> QED
    BY <2>2, <2>4, <2>6, <2>7, WorkerStepKeeps DEF WorkerStep
<1>2. CASE ~Owns(jobs, k, w)
  BY <1>2, GiveUpKeeps DEF DropSuperseded
<1> QED
  BY <1>1, <1>2

LEMMA CommitKeeps ==
  ASSUME IInv, NEW w \in Workers, Commit(w)
  PROVE  IInv'
<1> DEFINE k == current[w]
<1>0. pc[w] = "commit" /\ faults' = faults
  BY DEF Commit
<1>1. CASE ~Matches(k)
  BY <1>0, <1>1, DropSupersededKeeps DEF Commit
<1>2. CASE Matches(k) /\ ~Owns(jobs, k, w)
  BY <1>0, <1>2, GiveUpKeeps DEF Commit, SwitchVisible
<1>3. CASE Matches(k) /\ Owns(jobs, k, w)
  <2>1. /\ page' = [page EXCEPT ![k.page].visRev = k.rev, ![k.page].visEpoch = k.epoch]
        /\ jobs' = FinishedAs(jobs, k, "succeeded") /\ Done(w) /\ chunks' = chunks
    BY <1>3 DEF Commit, SwitchVisible
  <2>2. /\ k \in Key /\ k.page \in Pages /\ k.epoch \in Nat
        /\ k.op # "delete" /\ page \in [Pages -> Page]
    BY <1>0, HandsAreTyped, JobsAreTyped DEF IInv, RagTyped, TypeOK, HandsKnow, Hand
  <2>3. /\ k.rev # NoRev /\ page[k.page].rev = k.rev
        /\ page[k.page].epoch = k.epoch /\ page[k.page].life = "active"
    BY <1>3 DEF Matches
  <2>4. k.rev \in Revs \cup {NoRev} /\ k.epoch \in NoEpoch .. MaxEpoch
    BY <2>2, <2>3, WikiRagProjectionAssumption DEF Page, Key, NoEpoch
  <2>5. /\ \A p \in Pages \ {k.page} : page'[p] = page[p]
        /\ page'[k.page] = [page[k.page] EXCEPT !.visRev = k.rev, !.visEpoch = k.epoch]
    BY <2>1, <2>2
  <2>6. /\ page'[k.page] \in Page
        /\ page'[k.page].visRev = k.rev /\ page'[k.page].visEpoch = k.epoch
        /\ page'[k.page].life = page[k.page].life
        /\ page'[k.page].rev = page[k.page].rev
        /\ page'[k.page].epoch = page[k.page].epoch
    <3>1. page[k.page] \in Page
      BY <2>2
    <3> QED
      BY <2>4, <2>5, <3>1 DEF Page
  <2>7. page' \in [Pages -> Page] /\ PageSame
    <3>1. page' \in [Pages -> Page]
      BY <2>1, <2>2, <2>5, <2>6
    <3> QED
      BY <2>5, <2>6, <3>1 DEF PageSame
  <2>8. [page |-> k.page, rev |-> k.rev, epoch |-> k.epoch] \in chunks
    BY <1>0, <1>3 DEF IInv, WinnersHaveRows, Written, RowOf
  <2>9. MarkStep
    <3>1. ASSUME NEW p \in Pages, p # k.page
          PROVE  page'[p] = page[p]
      BY <2>5, <3>1
    <3>2. WatermarkIsCurrent'
      BY <2>3, <2>6, <3>1 DEF IInv, WatermarkIsCurrent
    <3>3. \A p \in Pages :
            page'[p].visRev # NoRev =>
              [page |-> p, rev |-> page'[p].visRev, epoch |-> page'[p].visEpoch] \in chunks
      BY <2>6, <2>8, <3>1 DEF IInv, VisibleHasRows
    <3>4. \A p \in Pages : page'[p].visRev = NoRev => page[p].visRev = NoRev
      BY <2>3, <2>6, <3>1
    <3> QED
      BY <3>2, <3>3, <3>4 DEF MarkStep
  <2>10. Frame(w) /\ HandStep(w) /\ Finishes(k, "succeeded")
    BY <1>0, <1>3, <2>1, <2>7, FinishFrame
  <2>11. RowStep(w)
    BY <2>1, <2>3 DEF RowStep, Accounts
  <2>12. JobStep
    BY <2>2, <2>3, <2>6, <2>10 DEF JobStep, Finishes, Over
  <2> QED
    BY <2>9, <2>10, <2>11, <2>12, WorkerStepKeeps DEF WorkerStep
<1> QED
  BY <1>1, <1>2, <1>3

LEMMA CleanupKeeps ==
  ASSUME IInv, NEW w \in Workers, Cleanup(w)
  PROVE  IInv'
<1> DEFINE k == current[w]
<1>1. /\ pc[w] = "cleanup" /\ chunks' = CleanedUp(k, jobs') /\ Done(w)
      /\ UNCHANGED <<jobs, page, faults>>
  BY DEF Cleanup
<1>2. k \in DOMAIN jobs /\ NobodyGains
  BY <1>1, HandsAreTyped, NoEffect DEF IInv, RagTyped
<1>3. /\ chunks' \subseteq chunks
      /\ \A c \in chunks \ chunks' : ~Spared(c)
      /\ page[k.page].life # "active" =>
           \A c \in chunks' : ~(c.page = k.page /\ c.epoch = k.epoch)
  BY <1>1, <1>2, CleanedUpRows DEF NobodyGains
<1>4. RagTyped'
  BY <1>1, <1>3, DoneEffect DEF IInv, RagTyped, TypeOK
<1>5. PageSame /\ MarkStep /\ JobStep
  BY <1>1, <1>2, PagesStay, NoJobOver
<1>6. Frame(w)
  BY <1>1, <1>2, <1>4, <1>5, DoneEffect DEF Frame, NobodyGains, IInv
<1>7. HandStep(w)
  BY <1>1, DoneEffect, IdleHand DEF IInv
<1>8. RowStep(w)
  BY <1>3 DEF RowStep, Accounts
<1> QED
  BY <1>5, <1>6, <1>7, <1>8, WorkerStepKeeps DEF WorkerStep

LEMMA ProjectDeleteKeeps ==
  ASSUME IInv, NEW w \in Workers, ProjectDelete(w)
  PROVE  IInv'
<1> DEFINE k == current[w]
           matches == /\ page[k.page].life \in {"deleted", "invalid"}
                      /\ page[k.page].epoch = k.epoch
<1>1. /\ pc[w] = "delete" /\ Done(w) /\ faults' = faults
      /\ \A c : ~Accounts(w, c)
  BY DEF ProjectDelete, Accounts, CleansUp
<1>2. k \in DOMAIN jobs /\ k.page \in Pages /\ k.op = "delete" /\ k.target = "rag"
  BY <1>1, HandsAreTyped, JobsAreTyped DEF IInv, HandsKnow, Hand
<1>3. CASE ~Owns(jobs, k, w)
  <2>1. UNCHANGED <<jobs, page, chunks>>
    BY <1>3 DEF ProjectDelete
  <2>2. NobodyGains
    BY <2>1, NoEffect DEF IInv, RagTyped
  <2>3. RagTyped'
    BY <1>1, <2>1, DoneEffect DEF IInv, RagTyped, TypeOK
  <2>4. /\ HandStep(w)
        /\ \A v \in Workers \ {w} : /\ pc'[v] = pc[v] /\ current'[v] = current[v]
                                     /\ queue'[v] \subseteq queue[v]
    BY <1>1, DoneEffect, IdleHand DEF IInv
  <2> QED
    BY <1>1, <2>1, <2>2, <2>3, <2>4, QuietStep
<1>4. CASE Owns(jobs, k, w) /\ ~matches
  <2>1. jobs' = FinishedAs(jobs, k, "superseded") /\ UNCHANGED <<page, chunks>>
    BY <1>4 DEF ProjectDelete
  <2>2. PageSame /\ MarkStep /\ page' \in [Pages -> Page]
    BY <2>1, PagesStay DEF PageSame
  <2>3. Frame(w) /\ HandStep(w) /\ Finishes(k, "superseded")
    BY <1>1, <1>4, <2>1, <2>2, FinishFrame
  <2>4. RowStep(w) /\ JobStep
    BY <1>1, <1>2, <2>1, <2>3 DEF RowStep, JobStep, Finishes, Over
  <2> QED
    BY <2>2, <2>3, <2>4, WorkerStepKeeps DEF WorkerStep
<1>5. CASE Owns(jobs, k, w) /\ matches
  <2>1. /\ jobs' = FinishedAs(jobs, k, "succeeded")
        /\ page' = [page EXCEPT ![k.page].visRev = NoRev, ![k.page].visEpoch = NoEpoch]
        /\ chunks' = {c \in chunks : c.page # k.page}
    BY <1>5 DEF ProjectDelete
  <2>2. page \in [Pages -> Page] /\ page[k.page] \in Page
    BY <1>2 DEF IInv, RagTyped, TypeOK
  <2>3. /\ \A p \in Pages \ {k.page} : page'[p] = page[p]
        /\ page'[k.page] = [page[k.page] EXCEPT !.visRev = NoRev, !.visEpoch = NoEpoch]
    BY <1>2, <2>1, <2>2
  <2>4. NoEpoch \in NoEpoch .. MaxEpoch
    BY WikiRagProjectionAssumption DEF NoEpoch
  <2>5. /\ page'[k.page] \in Page /\ page'[k.page].visRev = NoRev
        /\ page'[k.page].life = page[k.page].life
        /\ page'[k.page].rev = page[k.page].rev
        /\ page'[k.page].epoch = page[k.page].epoch
    BY <2>2, <2>3, <2>4 DEF Page
  <2>6. page' \in [Pages -> Page] /\ PageSame
    <3>1. page' \in [Pages -> Page]
      BY <1>2, <2>1, <2>2, <2>3, <2>5
    <3> QED
      BY <2>3, <2>5, <3>1 DEF PageSame
  <2>7. chunks' \subseteq chunks
    BY <2>1
  <2>8. Frame(w) /\ HandStep(w) /\ Finishes(k, "succeeded")
    BY <1>1, <1>5, <2>1, <2>6, <2>7, FinishFrame
  <2>9. \A c \in chunks \ chunks' : ~Spared(c)
    BY <1>5, <2>1, <2>5 DEF Spared
  <2>10. RowStep(w)
    BY <1>1, <2>7, <2>9 DEF RowStep
  <2>11. JobStep
    BY <1>2, <2>1, <2>8 DEF JobStep, Finishes, Over
  <2>12. MarkStep
    BY <1>5, <2>3, <2>5 DEF MarkStep, IInv, WatermarkIsCurrent, VisibleHasRows
  <2> QED
    BY <2>8, <2>10, <2>11, <2>12, WorkerStepKeeps DEF WorkerStep
<1> QED
  BY <1>3, <1>4, <1>5

-----------------------------------------------------------------------------
(* The page transactions.                                                  *)

(* What one of page p that enqueues for epoch e does to the table.         *)
Grows(p, e) ==
  /\ TableOK(jobs') /\ DOMAIN jobs \subseteq DOMAIN jobs'
  /\ \A k \in DOMAIN jobs :
       /\ k.page # p \/ k.epoch >= e => jobs'[k] = jobs[k]
       /\ Over(jobs[k]) => jobs'[k].status = jobs[k].status
       /\ jobs'[k].status = "succeeded" => jobs[k].status = "succeeded"
       /\ \A v \in Workers : Owns(jobs', k, v) => Owns(jobs, k, v)
  /\ \A k \in DOMAIN jobs' \ DOMAIN jobs :
       k.page = p /\ k.epoch = e /\ jobs'[k].status = "pending"

LEMMA EnqueuingGrows ==
  ASSUME IInv, NEW p \in Pages, NEW op \in Ops, NEW rev \in Revs \cup {NoRev}, NEW e \in Nat,
         NEW kept, kept = jobs \/ kept = StaleSuperseded(jobs, p, e),
         jobs' = Enqueued(kept, StateKeys(Targets, op, p, rev, e))
  PROVE  /\ Grows(p, e)
         /\ [target |-> "rag", op |-> op, page |-> p, rev |-> rev, epoch |-> e] \in DOMAIN jobs'
         /\ kept = StaleSuperseded(jobs, p, e) =>
              \A k \in DOMAIN jobs : k.page = p /\ k.epoch < e => Over(jobs'[k])
<1> DEFINE K == StateKeys(Targets, op, p, rev, e)
<1>1. TableOK(jobs) /\ \A k \in DOMAIN jobs : k.epoch \in Nat /\ jobs[k].status \in Statuses
  BY JobsAreTyped DEF IInv, RagTyped, TypeOK, IsTable, Job
<1>2. TableOK(kept) /\ DOMAIN kept = DOMAIN jobs
  BY <1>1, StaleSupersededTable
<1>3. K \in SUBSET Key
  BY StateKeysAreKeys
<1>4. /\ \A k \in K : k.page = p /\ k.epoch = e
      /\ [target |-> "rag", op |-> op, page |-> p, rev |-> rev, epoch |-> e] \in K
  BY WikiRagProjectionAssumption DEF StateKeys
<1>5. \A k \in DOMAIN jobs :
        /\ k.page # p \/ k.epoch >= e => kept[k] = jobs[k]
        /\ Over(jobs[k]) => kept[k].status = jobs[k].status
        /\ kept[k].status = "succeeded" => jobs[k].status = "succeeded"
        /\ kept[k].status = "running" => kept[k] = jobs[k]
  BY <1>1 DEF StaleSuperseded, Released, Over
<1>6. kept = StaleSuperseded(jobs, p, e) =>
        \A k \in DOMAIN jobs : k.page = p /\ k.epoch < e => Over(kept[k])
  BY <1>1 DEF StaleSuperseded, Released, Over, Statuses
<1>7. /\ TableOK(jobs') /\ DOMAIN jobs' = DOMAIN jobs \cup K
      /\ \A k \in DOMAIN jobs : jobs'[k] = kept[k]
      /\ \A k \in K \ DOMAIN jobs : jobs'[k].status = "pending"
  <2>1. TableOK(jobs')
    BY <1>2, <1>3, EnqueuedTable
  <2> QED
    BY <1>2, <2>1 DEF Enqueued, Fresh
<1>8. Grows(p, e)
  BY <1>4, <1>5, <1>7 DEF Grows, Owns
<1> QED
  BY <1>4, <1>6, <1>7, <1>8

(* Neither workers nor rows are touched.                                   *)
LEMMA GrownTyped ==
  ASSUME IInv, NEW p, NEW e, Grows(p, e), page' \in [Pages -> Page],
         UNCHANGED <<chunks, workerVars, faults>>
  PROVE  RagTyped'
<1>1. DOMAIN jobs \subseteq DOMAIN jobs' /\ TableOK(jobs')
  BY DEF Grows
<1>2. RagTyped /\ UNCHANGED <<pc, current, queue, renewing, chunks, faults>>
  BY DEF IInv, workerVars
<1> QED
  BY <1>1, <1>2 DEF RagTyped, TypeOK, TableOK

(* ensure_projection_jobs adds what is missing and drops what is stale.    *)
LEMMA EnsureJobsKeeps ==
  ASSUME IInv, NEW p \in Pages, EnsureJobs(p)
  PROVE  IInv'
<1> DEFINE e == page[p].epoch
           op == IF page[p].life = "active" THEN "upsert" ELSE "delete"
           rev == IF op = "delete" THEN NoRev ELSE page[p].rev
<1>1. /\ op = "delete" \/ rev # NoRev
      /\ jobs' = Enqueued(StaleSuperseded(jobs, p, e), StateKeys(Targets, op, p, rev, e))
      /\ UNCHANGED <<page, chunks, workerVars, faults>>
  BY DEF EnsureJobs
<1>2. page[p] \in Page /\ page \in [Pages -> Page]
  BY DEF IInv, RagTyped, TypeOK
<1>3. e \in Nat /\ e >= 1
  BY <1>1, <1>2 DEF IInv, NeverPublished, Page
<1>4. Grows(p, e)
  BY <1>1, <1>2, <1>3, EnqueuingGrows DEF Ops, Page
<1> HIDE DEF op, rev, e
<1>5. RagTyped'
  BY <1>1, <1>2, <1>4, GrownTyped
<1>6. UNCHANGED <<page, chunks, pc, current, queue, faults>>
  BY <1>1 DEF workerVars
<1>7. \A k \in DOMAIN jobs : k.page = p => k.epoch \in Nat /\ k.epoch <= page[p].epoch
  BY JobsAreTyped DEF IInv
<1>8. NeverPublished' /\ JobsOfThePast' /\ RowsAreOld'
  BY <1>3, <1>4, <1>6 DEF IInv, NeverPublished, JobsOfThePast, RowsAreOld, Grows, e
<1>9. HandsKnow'
  BY <1>6 DEF IInv, HandsKnow, Hand, Matches, SeenToMatch
<1>10. WinnersHaveRows'
  <2>1. \A w \in Workers : pc[w] # "idle" => current[w] \in DOMAIN jobs
    BY HandsAreTyped DEF IInv
  <2> QED
    BY <1>4, <1>6, <2>1 DEF IInv, WinnersHaveRows, Written, Grows, Matches, RowOf
<1>11. OldJobsAreOver'
  BY <1>4, <1>6 DEF IInv, OldJobsAreOver, Grows, Over, e
<1>12. RowsAccounted'
  <2>1. \A q \in Pages : DeleteDone(q)' => DeleteDone(q)
    BY <1>4, <1>6 DEF DeleteDone, Grows
  <2>2. \A c \in chunks : c.page \in Pages
    BY DEF IInv, RagTyped, TypeOK, Chunk
  <2> QED
    BY <1>6, <2>1, <2>2 DEF IInv, RowsAccounted, Accounts, CleansUp, DeleteDone
<1>13. WatermarkIsCurrent' /\ VisibleHasRows'
  BY <1>6 DEF IInv, WatermarkIsCurrent, VisibleHasRows
<1>14. NoLostProjection'
  BY <1>4, <1>6, <1>3 DEF IInv, NoLostProjection, Grows, e
<1> QED
  BY <1>5, <1>8, <1>9, <1>10, <1>11, <1>12, <1>13, <1>14 DEF IInv

(* A change of the page: whatever was under way for it is of an old epoch. *)
LEMMA BumpKeeps ==
  ASSUME IInv, NEW p \in Pages, NEW life \in Lives, NEW rev \in Revs \cup {NoRev},
         NEW op \in Ops, NEW kept, kept = jobs \/ kept = Superseding(p),
         life = "active" => op # "delete",
         life # "active" => kept = Superseding(p),
         Bump(p, life, rev, op, kept)
  PROVE  IInv'
<1> DEFINE e == page[p].epoch + 1
           jobRev == IF op = "delete" THEN NoRev ELSE rev
<1>1. page[p] \in Page /\ page \in [Pages -> Page]
  BY DEF IInv, RagTyped, TypeOK
<1>2. e \in 1 .. MaxEpoch
  BY <1>1, WikiRagProjectionAssumption DEF Bump, Page
<1>3. /\ page'[p] = [life |-> life, rev |-> rev, epoch |-> e,
                     visRev |-> NoRev, visEpoch |-> NoEpoch]
      /\ \A q \in Pages \ {p} : page'[q] = page[q]
      /\ page' \in [Pages -> Page]
  <2>1. /\ page'[p] = [life |-> life, rev |-> rev, epoch |-> e,
                       visRev |-> NoRev, visEpoch |-> NoEpoch]
        /\ \A q \in Pages \ {p} : page'[q] = page[q]
    BY <1>1 DEF Bump, Moved, Page
  <2>2. page'[p] \in Page
    BY <1>2, <2>1, WikiRagProjectionAssumption DEF Page, NoEpoch
  <2>3. page' \in [Pages -> Page]
    BY <1>1, <2>1, <2>2 DEF Bump, Moved
  <2> QED
    BY <2>1, <2>3
<1>4. /\ jobs' = Enqueued(kept, StateKeys(Targets, op, p, jobRev, e))
      /\ UNCHANGED <<chunks, workerVars, faults>>
  BY DEF Bump
<1>5. /\ Grows(p, e)
      /\ [target |-> "rag", op |-> op, page |-> p, rev |-> jobRev, epoch |-> e] \in DOMAIN jobs'
      /\ life # "active" => \A k \in DOMAIN jobs : k.page = p /\ k.epoch < e => Over(jobs'[k])
  <2>1. e \in Nat /\ jobRev \in Revs \cup {NoRev}
    BY <1>2
  <2>2. kept = jobs \/ kept = StaleSuperseded(jobs, p, e)
    BY DEF Superseding
  <2> QED
    BY <1>4, <2>1, <2>2, EnqueuingGrows DEF Superseding
<1>6. \A k \in DOMAIN jobs :
        k \in Key /\ (k.page = p => k.epoch \in Nat /\ k.epoch >= 1 /\ k.epoch < e)
  BY <1>2, JobsAreTyped DEF IInv
<1> HIDE DEF jobRev, e
<1>7. RagTyped'
  BY <1>3, <1>4, <1>5, GrownTyped
<1>8. UNCHANGED <<chunks, pc, current, queue, faults>>
  BY <1>4 DEF workerVars
<1>9. NeverPublished' /\ JobsOfThePast'
  BY <1>2, <1>3, <1>5, <1>6 DEF IInv, NeverPublished, JobsOfThePast, Grows, Key
<1>10. \A w \in Workers : pc[w] # "idle" => current[w] \in DOMAIN jobs
  BY HandsAreTyped DEF IInv
<1>11. ASSUME NEW w \in Workers, pc[w] # "idle"
       PROVE  /\ ~Matches(current[w]) => ~Matches(current[w])'
              /\ SeenToMatch(current[w]) => SeenToMatch(current[w])'
              /\ Matches(current[w])' => current[w].page # p /\ Matches(current[w])
  BY <1>3, <1>6, <1>8, <1>10, <1>11 DEF Matches, SeenToMatch, Key
<1>12. HandsKnow'
  <2>1. ASSUME NEW w \in Workers, pc[w] # "idle"
        PROVE  Hand(w)'
    BY <1>8, <1>11, <2>1 DEF IInv, HandsKnow, Hand
  <2>2. ASSUME NEW w \in Workers, pc[w] = "idle"
        PROVE  Hand(w)'
    BY <1>8, <2>2 DEF Hand
  <2> QED
    BY <1>8, <2>1, <2>2 DEF IInv, HandsKnow
<1>13. WinnersHaveRows'
  <2> SUFFICES ASSUME NEW w \in Workers, pc[w] = "commit",
                      Owns(jobs', current[w], w), Matches(current[w])'
               PROVE  RowOf(current[w]) \in chunks
    BY <1>8 DEF WinnersHaveRows, Written, RowOf
  <2>1. Matches(current[w]) /\ Owns(jobs, current[w], w)
    BY <1>5, <1>8, <1>10, <1>11 DEF Grows
  <2> QED
    BY <2>1 DEF IInv, WinnersHaveRows, Written
<1>14. RowsAreOld'
  <2>1. \A c \in chunks : c.page \in Pages /\ c.epoch \in Nat
    BY DEF IInv, RagTyped, TypeOK, Chunk
  <2>2. \A c \in chunks : c.page = p => c.epoch < e
    BY <1>1, <2>1 DEF IInv, RowsAreOld, Page, e
  <2> QED
    BY <1>3, <1>8, <1>2, <2>1, <2>2 DEF IInv, RowsAreOld
<1>15. OldJobsAreOver'
  BY <1>3, <1>5, <1>6 DEF IInv, OldJobsAreOver, Grows, Over, Key
<1>16. RowsAccounted'
  <2>1. ASSUME NEW q \in Pages, DeleteDone(q)'
        PROVE  DeleteDone(q)
    <3>1. PICK k \in DOMAIN jobs' :
            /\ k.target = "rag" /\ k.op = "delete" /\ k.page = q
            /\ k.epoch = page'[q].epoch /\ jobs'[k].status = "succeeded"
      BY <2>1 DEF DeleteDone
    <3>2. k \in DOMAIN jobs /\ jobs[k].status = "succeeded"
      BY <1>5, <3>1 DEF Grows
    <3>3. q # p
      BY <1>2, <1>3, <1>6, <3>1, <3>2
    <3> QED
      BY <1>3, <2>1, <3>1, <3>2, <3>3 DEF DeleteDone
  <2>2. \A c \in chunks : c.page \in Pages
    BY DEF IInv, RagTyped, TypeOK, Chunk
  <2> QED
    BY <1>8, <2>1, <2>2 DEF IInv, RowsAccounted, Accounts, CleansUp, DeleteDone
<1>17. WatermarkIsCurrent' /\ VisibleHasRows'
  BY <1>3, <1>8 DEF IInv, WatermarkIsCurrent, VisibleHasRows
<1>18. NoLostProjection'
  <2> SUFFICES ASSUME NEW q \in Pages, page'[q].life = "active",
                      page'[q].rev # NoRev, page'[q].visRev = NoRev
               PROVE  \E k \in DOMAIN jobs' :
                        /\ k.target = "rag" /\ k.op # "delete" /\ k.page = q
                        /\ k.rev = page'[q].rev /\ k.epoch = page'[q].epoch
                        /\ jobs'[k].status \notin {"succeeded", "superseded"}
    BY DEF NoLostProjection
  <2>1. CASE q = p
    <3> DEFINE k == [target |-> "rag", op |-> op, page |-> p, rev |-> jobRev, epoch |-> e]
    <3>1. op # "delete" /\ jobRev = page'[q].rev /\ e = page'[q].epoch
      BY <1>3, <2>1 DEF jobRev
    <3>2. k \in DOMAIN jobs' /\ k \notin DOMAIN jobs
      BY <1>2, <1>5, <1>6
    <3>3. jobs'[k].status = "pending"
      BY <1>5, <3>2 DEF Grows
    <3> QED
      BY <2>1, <3>1, <3>2, <3>3
  <2>2. CASE q # p
    BY <1>3, <1>5, <2>2 DEF IInv, NoLostProjection, Grows
  <2> QED
    BY <2>1, <2>2
<1> QED
  BY <1>7, <1>9, <1>12, <1>13, <1>14, <1>15, <1>16, <1>17, <1>18 DEF IInv

LEMMA TransactKeeps ==
  ASSUME IInv, NEW p \in Pages, Transact(p)
  PROVE  IInv'
<1>1. page[p].life \in Lives /\ page[p].rev \in Revs \cup {NoRev}
  BY DEF IInv, RagTyped, TypeOK, Page
<1>2. "active" \in Lives /\ "deleted" \in Lives /\ "invalid" \in Lives
  BY DEF Lives
<1>3. "upsert" \in Ops /\ "rename" \in Ops /\ "delete" \in Ops
  BY DEF Ops
<1>4. CASE \E rev \in Revs : Finalize(p, rev)
  BY <1>2, <1>3, <1>4, BumpKeeps DEF Finalize
<1>5. CASE DeletePage(p)
  BY <1>1, <1>2, <1>3, <1>5, BumpKeeps DEF DeletePage
<1>6. CASE Invalidate(p)
  BY <1>1, <1>2, <1>3, <1>6, BumpKeeps DEF Invalidate
<1>7. CASE RenamePage(p)
  BY <1>1, <1>2, <1>3, <1>7, BumpKeeps DEF RenamePage
<1>8. CASE EnsureJobs(p)
  BY <1>8, EnsureJobsKeeps
<1> QED
  BY <1>4, <1>5, <1>6, <1>7, <1>8 DEF Transact

-----------------------------------------------------------------------------
(* Every step keeps the invariant.                                         *)
LEMMA StepIInv == IInv /\ [Next]_vars => IInv'
<1> SUFFICES ASSUME IInv, [Next]_vars PROVE IInv'
  OBVIOUS
<1>1. CASE \E p \in Pages : Transact(p)
  BY <1>1, TransactKeeps
<1>2. ASSUME NEW w \in Workers, Work(w)
      PROVE  IInv'
  <2>1. CASE Claim(w)
    BY <2>1, ClaimKeeps
  <2>2. CASE \E k \in queue[w] : Start(w, k)
    BY <2>2, StartKeeps
  <2>3. CASE LoadSnapshot(w)
    BY <2>3, LoadSnapshotKeeps
  <2>4. CASE WriteRows(w)
    BY <2>4, WriteRowsKeeps
  <2>5. CASE FinishSuperseded(w)
    <3>1. pc[w] = "supersede" /\ ~Matches(current[w])
      BY <2>5 DEF FinishSuperseded, IInv, HandsKnow, Hand
    <3> QED
      BY <2>5, <3>1, DropSupersededKeeps DEF FinishSuperseded
  <2>6. CASE Commit(w)
    BY <2>6, CommitKeeps
  <2>7. CASE Cleanup(w)
    BY <2>7, CleanupKeeps
  <2>8. CASE ProjectDelete(w)
    BY <2>8, ProjectDeleteKeeps
  <2> QED
    BY <1>2, <2>1, <2>2, <2>3, <2>4, <2>5, <2>6, <2>7, <2>8 DEF Work, Project
<1>3. ASSUME NEW w \in Workers,
             \/ Raise(w)
             \/ \E k \in Working(w) : RenewLease(w, k) \/ CancelRun(w, k)
             \/ Crash(w)
      PROVE  IInv'
  BY <1>3, RaiseKeeps, TimersKeep, CancelRunKeeps, CrashKeeps
<1>4. CASE Tick
  BY <1>4, TimersKeep
<1>5. CASE UNCHANGED vars
  BY <1>5 DEF vars, IInv, RagTyped, TypeOK, NeverPublished, JobsOfThePast, HandsKnow, Hand,
              SeenToMatch, Matches, WinnersHaveRows, Written, RowOf, RowsAreOld,
              OldJobsAreOver, RowsAccounted, DeleteDone, Accounts, CleansUp,
              WatermarkIsCurrent, VisibleHasRows, NoLostProjection
<1> QED
  BY <1>1, <1>2, <1>3, <1>4, <1>5 DEF Next

LEMMA InvariantHolds == Spec => []IInv
  BY InitIInv, StepIInv, PTL DEF Spec

(* Pages, jobs and threads have the shape the code gives them.             *)
THEOREM RagTypeCorrect == Spec => []TypeOK
  BY InvariantHolds, PTL DEF IInv, RagTyped

(* The watermark names nothing but the present revision of an active page, *)
(* however late a projection of an older epoch finishes.                   *)
THEOREM WatermarkCorrect == Spec => []WatermarkIsCurrent
  BY InvariantHolds, PTL DEF IInv

(* No cleanup takes the rows away that the watermark names.                *)
THEOREM VisibleRowsCorrect == Spec => []VisibleHasRows
  BY InvariantHolds, PTL DEF IInv

(* Superseding, dropping and failing jobs never loses the present one.     *)
THEOREM ProjectionsCorrect == Spec => []NoLostProjection
  BY InvariantHolds, PTL DEF IInv

(* A withdrawn page whose delete job succeeded, with no projection of it   *)
(* under way, has no rows, unless there was a crash or a late exception.   *)
THEOREM WithdrawalCorrect == Spec => []WithdrawnLeavesNoRows
<1>1. IInv => WithdrawnLeavesNoRows
  <2> SUFFICES ASSUME IInv, NEW p \in Pages, faults = 0, DeleteDone(p),
                      \A w \in Workers : pc[w] # "idle" => current[w].page # p,
                      NEW c \in chunks, c.page = p
               PROVE  FALSE
    BY DEF WithdrawnLeavesNoRows, DeleteDone
  <2>1. PICK w \in Workers : Accounts(w, c)
    BY DEF IInv, RowsAccounted
  <2> QED
    BY <2>1 DEF Accounts, CleansUp
<1> QED
  BY <1>1, InvariantHolds, PTL

-----------------------------------------------------------------------------
(* The refinement of RagVisibility.  What retrieval finds is what the      *)
(* watermark says.                                                         *)
Marked == [p \in Pages |-> page[p].visRev]

LEMMA ShownIsMarked == IInv => Shown = Marked
<1> SUFFICES ASSUME IInv, NEW p \in Pages PROVE Shown[p] = page[p].visRev
  BY DEF Shown, Marked
<1>1. \A c \in VisibleRows(p) : c.rev = page[p].visRev /\ c.rev # NoRev
  BY ProjectionJobsAssumption DEF VisibleRows, IInv, RagTyped, TypeOK, Chunk
<1>2. CASE VisibleRows(p) = {}
  <2>1. page[p].visRev = NoRev
    <3> SUFFICES ASSUME page[p].visRev # NoRev PROVE FALSE
      OBVIOUS
    <3> DEFINE c == [page |-> p, rev |-> page[p].visRev, epoch |-> page[p].visEpoch]
    <3>1. c \in chunks
      BY DEF IInv, VisibleHasRows
    <3>2. c \in VisibleRows(p)
      BY <3>1 DEF VisibleRows, IInv, WatermarkIsCurrent
    <3> QED
      BY <1>2, <3>2
  <2> QED
    BY <1>2, <2>1 DEF Shown
<1>3. CASE VisibleRows(p) # {}
  <2>1. (CHOOSE c \in VisibleRows(p) : TRUE) \in VisibleRows(p)
    BY <1>3
  <2> QED
    BY <1>1, <1>3, <2>1 DEF Shown
<1> QED
  BY <1>2, <1>3

LEMMA ShownIsMarkedNext == (IInv => Shown = Marked)'
  BY ShownIsMarked, PTL

(* The steps of the abstract specification, in terms of pages.             *)
PageChanges(p) ==
  /\ \A q \in Pages \ {p} : page'[q] = page[q]
  /\ page'[p].epoch = page[p].epoch + 1
  /\ page'[p].rev \in Revs \cup {NoRev}
  /\ page'[p].visRev = NoRev

PageShows(p) ==
  /\ PageSame
  /\ \A q \in Pages \ {p} : page'[q].visRev = page[q].visRev
  /\ page[p].visRev # NoRev => page[p].visRev = page[p].rev
  /\ page[p].life = "active" /\ page'[p].visRev = page[p].rev

PageRests == PageSame /\ \A q \in Pages : page'[q].visRev = page[q].visRev

LEMMA ChangeIsChange ==
  ASSUME IInv, IInv', NEW p \in Pages, PageChanges(p)
  PROVE  Retrieval!Change(p)
<1>1. Shown = Marked /\ Shown' = Marked'
  BY ShownIsMarked, ShownIsMarkedNext
<1>2. Version' = [Version EXCEPT ![p] = @ + 1]
  BY DEF Version, PageChanges
<1>3. Wanted' = [Wanted EXCEPT ![p] = IF page'[p].life = "active" THEN page'[p].rev ELSE NoRev]
  BY DEF Wanted, PageChanges
<1>4. Marked' = [Marked EXCEPT ![p] = NoRev]
  BY DEF Marked, PageChanges
<1> QED
  BY <1>1, <1>2, <1>3, <1>4 DEF Retrieval!Change, PageChanges

LEMMA ShowIsShow ==
  ASSUME IInv, IInv', NEW p \in Pages, PageShows(p)
  PROVE  Retrieval!Show(p) \/ UNCHANGED Retrieval!vars
<1>1. Shown = Marked /\ Shown' = Marked'
  BY ShownIsMarked, ShownIsMarkedNext
<1>2. Version' = Version /\ Wanted' = Wanted
  BY DEF Version, Wanted, PageShows, PageSame
<1>3. Marked' = [Marked EXCEPT ![p] = Wanted[p]]
  BY DEF Marked, Wanted, PageShows
<1>4. Marked[p] = NoRev \/ Marked' = Marked
  BY DEF Marked, PageShows
<1> QED
  BY <1>1, <1>2, <1>3, <1>4 DEF Retrieval!Show, Retrieval!vars

LEMMA RestIsStutter ==
  ASSUME IInv, IInv', PageRests
  PROVE  UNCHANGED Retrieval!vars
<1>1. Shown = Marked /\ Shown' = Marked'
  BY ShownIsMarked, ShownIsMarkedNext
<1>2. Version' = Version /\ Wanted' = Wanted /\ Marked' = Marked
  BY DEF Version, Wanted, Marked, PageRests, PageSame
<1> QED
  BY <1>1, <1>2 DEF Retrieval!vars

(* Every step of a page transaction or of a worker is one of them.         *)
LEMMA BumpChanges ==
  ASSUME IInv, NEW p \in Pages, NEW life, NEW rev \in Revs \cup {NoRev}, NEW op, NEW kept,
         Bump(p, life, rev, op, kept)
  PROVE  PageChanges(p)
  BY DEF IInv, RagTyped, TypeOK, Page, Bump, Moved, PageChanges

LEMMA StepOfPages ==
  ASSUME IInv, Next
  PROVE  \/ PageRests
         \/ \E p \in Pages : PageChanges(p) \/ PageShows(p)
<1>0. page' = page => PageRests
  BY PagesStay DEF PageRests
<1>1. ASSUME NEW p \in Pages, Transact(p)
      PROVE  PageRests \/ PageChanges(p)
  <2>1. page[p].rev \in Revs \cup {NoRev}
    BY DEF IInv, RagTyped, TypeOK, Page
  <2>2. \A rev \in Revs : Finalize(p, rev) => PageChanges(p)
    BY BumpChanges DEF Finalize
  <2>3. DeletePage(p) => PageChanges(p)
    BY <2>1, BumpChanges DEF DeletePage
  <2>4. Invalidate(p) => PageChanges(p)
    BY <2>1, BumpChanges DEF Invalidate
  <2>5. RenamePage(p) => PageChanges(p)
    BY <2>1, BumpChanges DEF RenamePage
  <2> QED
    BY <1>0, <1>1, <2>2, <2>3, <2>4, <2>5 DEF Transact, EnsureJobs
<1>2. ASSUME NEW w \in Workers, Commit(w)
      PROVE  PageRests \/ \E p \in Pages : PageShows(p)
  <2> DEFINE k == current[w]
  <2>1. CASE page' = page
    BY <1>0, <2>1
  <2>2. CASE page' # page
    <3>1. /\ Matches(k) /\ pc[w] # "idle"
          /\ page' = [page EXCEPT ![k.page].visRev = k.rev, ![k.page].visEpoch = k.epoch]
      BY <1>2, <2>2 DEF Commit, SwitchVisible, DropSuperseded
    <3>2. k.page \in Pages /\ page \in [Pages -> Page]
      BY <3>1, HandsAreTyped, JobsAreTyped DEF IInv, RagTyped, TypeOK
    <3>3. /\ \A p \in Pages \ {k.page} : page'[p] = page[p]
          /\ page'[k.page] = [page[k.page] EXCEPT !.visRev = k.rev, !.visEpoch = k.epoch]
      BY <3>1, <3>2
    <3>4. /\ page'[k.page].visRev = k.rev
          /\ page'[k.page].life = page[k.page].life
          /\ page'[k.page].rev = page[k.page].rev
          /\ page'[k.page].epoch = page[k.page].epoch
      BY <3>2, <3>3 DEF Page
    <3>5. IInv'
      BY <1>2, CommitKeeps
    <3>6. PageSame
      BY <3>3, <3>4, <3>5 DEF PageSame, IInv, RagTyped, TypeOK
    <3> QED
      BY <3>1, <3>2, <3>3, <3>4, <3>6 DEF PageShows, Matches, IInv, WatermarkIsCurrent
  <2> QED
    BY <2>1, <2>2
<1>3. ASSUME NEW w \in Workers, ProjectDelete(w)
      PROVE  PageRests
  <2> DEFINE k == current[w]
  <2>1. CASE page' = page
    BY <1>0, <2>1
  <2>2. CASE page' # page
    <3>1. /\ page[k.page].life \in {"deleted", "invalid"} /\ pc[w] # "idle"
          /\ page' = [page EXCEPT ![k.page].visRev = NoRev, ![k.page].visEpoch = NoEpoch]
      BY <1>3, <2>2 DEF ProjectDelete
    <3>2. k.page \in Pages /\ page \in [Pages -> Page]
      BY <3>1, HandsAreTyped, JobsAreTyped DEF IInv, RagTyped, TypeOK
    <3>3. page[k.page].visRev = NoRev
      BY <3>1, <3>2 DEF IInv, WatermarkIsCurrent
    <3>4. IInv'
      BY <1>3, ProjectDeleteKeeps
    <3>5. /\ \A p \in Pages \ {k.page} : page'[p] = page[p]
          /\ page'[k.page] = [page[k.page] EXCEPT !.visRev = NoRev, !.visEpoch = NoEpoch]
      BY <3>1, <3>2
    <3>6. /\ page'[k.page].visRev = NoRev
          /\ page'[k.page].life = page[k.page].life
          /\ page'[k.page].rev = page[k.page].rev
          /\ page'[k.page].epoch = page[k.page].epoch
      BY <3>2, <3>5 DEF Page
    <3> QED
      BY <3>3, <3>4, <3>5, <3>6 DEF PageRests, PageSame, IInv, RagTyped, TypeOK
  <2> QED
    BY <2>1, <2>2
<1>4. ASSUME NEW w \in Workers, Work(w)
      PROVE  PageRests \/ \E p \in Pages : PageShows(p)
  BY <1>0, <1>2, <1>3, <1>4
  DEF Work, Project, Claim, Start, LoadSnapshot, WriteRows, FinishSuperseded, Cleanup
<1>5. ASSUME NEW w \in Workers,
             \/ Raise(w)
             \/ \E k \in Working(w) : RenewLease(w, k) \/ CancelRun(w, k)
             \/ Crash(w)
      PROVE  PageRests
  BY <1>0, <1>5 DEF Raise, RenewLease, CancelRun, Crash
<1>6. Tick => PageRests
  BY <1>0 DEF Tick
<1> QED
  BY <1>1, <1>4, <1>5, <1>6 DEF Next

(* Retrieval finds nothing of a page or the whole of its wanted revision;  *)
(* every transaction is a change, a showing or invisible to readers.       *)
THEOREM RetrievalCorrect == Spec => RetrievalSafe
<1>1. Init => Retrieval!Init
  <2> SUFFICES ASSUME Init PROVE Retrieval!Init
    OBVIOUS
  <2>1. Shown = Marked
    BY InitIInv, ShownIsMarked
  <2> QED
    BY <2>1 DEF Init, Retrieval!Init, Version, Wanted, Marked
<1>2. IInv /\ IInv' /\ [Next]_vars => [Retrieval!Next]_(Retrieval!vars)
  <2> SUFFICES ASSUME IInv, IInv', [Next]_vars PROVE [Retrieval!Next]_(Retrieval!vars)
    OBVIOUS
  <2>1. CASE Next
    BY <2>1, StepOfPages, ChangeIsChange, ShowIsShow, RestIsStutter DEF Retrieval!Next
  <2>2. CASE UNCHANGED vars
    <3>1. PageRests
      BY <2>2, PagesStay DEF vars, PageRests
    <3> QED
      BY <3>1, RestIsStutter
  <2> QED
    BY <2>1, <2>2
<1> QED
  BY <1>1, <1>2, InvariantHolds, PTL DEF Spec, RetrievalSafe, Retrieval!Spec
=============================================================================
