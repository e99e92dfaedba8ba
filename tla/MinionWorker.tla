----------------------------- MODULE MinionWorker -----------------------------
(***************************************************************************)
(* The workers of the Minion queue, the submitter of a fan-out and the     *)
(* aggregator it waits for.  A worker is its runs: one execution of a      *)
(* handler per claim, which may fail, lose its lock, be aborted, ignore    *)
(* the abort, or vanish with its process at any moment.  How many runs a   *)
(* worker holds is left open: the code's limit counts job ids that were    *)
(* not evicted, not handlers.                                              *)
(***************************************************************************)
EXTENDS MinionQueue

CONSTANTS Aggregator,     \* the subagent_aggregator job
          Quiet,          \* the jobs with a quiet_hours window
          MaxClaims,      \* bound: claims
          MaxBounces,     \* bound: lease-full bounces
          MaxCommands     \* bound: commands of the operator

ASSUME WorkerAssumption ==
    /\ Aggregator \in Jobs /\ Quiet \subseteq Jobs
    /\ MaxClaims \in Nat /\ MaxBounces \in Nat /\ MaxCommands \in Nat

VARIABLES run,            \* the run of each claim; a claim's number is its lock token
          claims,
          children,       \* data.children_ids of the aggregator
          submitted,      \* the jobs runFanout has added, of which it may stop at any point
          summary,        \* the result of the aggregator: what it reported of each child
          bounces, commands

workerVars == <<run, claims, children, submitted, summary, bounces, commands>>
vars == <<queueVars, workerVars>>

Tokens == 1..MaxClaims
Children == {j \in Jobs : ParentOf[j] = Aggregator}

\* quiet: between the claim and the verdict of the quiet-hours window.
\* fenced: readInbox has checked the lock and not yet marked the messages.
\* skipping: the lock was given back, cancelJob is still to come.
Run == [job: Jobs \cup {NoJob},
        pc: {"free", "quiet", "skipping", "running", "fenced", "read",
             "done"},
        ids: SUBSET Jobs,                           \* children_ids as of the claim
        got: SUBSET (Jobs \X Ends)]                 \* the messages it has read

Free == [job |-> NoJob, pc |-> "free", ids |-> {}, got |-> {}]

Init == /\ QueueInit
        /\ run = [t \in Tokens |-> Free]
        /\ claims = 0 /\ bounces = 0 /\ commands = 0
        /\ children = {} /\ submitted = {}
        /\ summary = [c \in Children |-> "none"]

\* The handler of t's job is at work, whatever the worker thinks of it.
Working(t) == run[t].pc \in {"running", "fenced", "read"}
Step(t, pc) == run' = [run EXCEPT ![t].pc = pc]
Finish(t) == run' = [run EXCEPT ![t] = [@ EXCEPT !.pc = "done", !.ids = {}, !.got = {}]]

----------------------------------------------------------------------------
(* runFanout: the aggregator first, then its children, then their ids.     *)

Submit(j) ==
    /\ j \notin submitted
    /\ j # Aggregator => Aggregator \in submitted
    /\ Add(j)
    /\ submitted' = submitted \cup {j}
    /\ UNCHANGED <<run, claims, children, summary, bounces, commands>>

\* The UPDATE of data, whatever has become of the aggregator by then.
NameChildren ==
    /\ submitted = Jobs /\ children = {} /\ ~Locked(Aggregator)
    /\ children' = Children
    /\ UNCHANGED <<queueVars, run, claims, submitted, summary, bounces, commands>>

----------------------------------------------------------------------------
(* The worker's loop: claim, the quiet-hours window, launchJob.            *)

Launch(j) ==
    LET t == claims + 1 IN
    /\ t \in Tokens
    /\ Claim(j, t)
    /\ claims' = t
    /\ run' = [run EXCEPT ![t] = [Free EXCEPT !.job = j,
                                  !.pc = IF j \in Quiet THEN "quiet" ELSE "running",
                                  !.ids = IF j = Aggregator THEN children ELSE {}]]
    /\ UNCHANGED <<children, submitted, summary, bounces, commands>>

QuietAllows(t) ==
    /\ run[t].pc = "quiet" /\ Step(t, "running")
    /\ UNCHANGED <<queueVars, claims, children, submitted, summary, bounces, commands>>

\* 'defer': fenced by the token alone.
QuietDefers(t) ==
    LET j == run[t].job IN
    /\ run[t].pc = "quiet" /\ ~Locked(j)
    /\ job' = IF job[j].token = t
              THEN [job EXCEPT ![j] = [Unlocked(@) EXCEPT !.status = "delayed"]] ELSE job
    /\ Finish(t)
    /\ UNCHANGED <<inbox, open, claims, children, submitted, summary, bounces, commands>>

\* 'skip': the lock is given back, then the job is cancelled.
QuietSkips(t) ==
    LET j == run[t].job IN
    /\ run[t].pc = "quiet" /\ ~Locked(j)
    /\ job' = IF job[j].token = t THEN [job EXCEPT ![j] = Unlocked(@)] ELSE job
    /\ Step(t, "skipping")
    /\ UNCHANGED <<inbox, open, claims, children, submitted, summary, bounces, commands>>

SkipCancels(t) ==
    /\ run[t].pc = "skipping" /\ Finish(t)
    /\ IF ToCancel(run[t].job) = {} THEN UNCHANGED queueVars ELSE CancelJob(run[t].job)
    /\ UNCHANGED <<claims, children, submitted, summary, bounces, commands>>

\* cancelJob threw: the row alone is cancelled, whatever it is by now.
SkipFallsBack(t) ==
    LET j == run[t].job IN
    /\ run[t].pc = "skipping" /\ ~Locked(j) /\ Finish(t)
    /\ job' = IF job[j].status \in {"completed", "failed", "dead", "absent"} THEN job
              ELSE [job EXCEPT ![j] = [@ EXCEPT !.status = "cancelled", !.end = "skipped"]]
    /\ UNCHANGED <<inbox, open, claims, children, submitted, summary, bounces, commands>>

----------------------------------------------------------------------------
(* The aborts of launchJob.  A renewal that succeeds moves lock_until; one *)
(* that fails, or finds the lock lost, aborts the handler, which then ends *)
(* in Abandons, or in Returns if it ignores the signal.                    *)

\* The handler ignored the abort of its job's timeout for 30 s: the job is
\* failed, the handler goes on.
Evict(t) ==
    /\ run[t].pc = "running" /\ run[t].job \in Timed
    /\ FailJob(run[t].job, t, "dead")
    /\ UNCHANGED workerVars

----------------------------------------------------------------------------
(* The aggregator's handler: readInbox checks the lock, then marks the     *)
(* unread messages; the last message of a child counts, in no set order.   *)

CheckFence(t) ==
    /\ run[t].pc = "running" /\ run[t].job = Aggregator /\ run[t].ids # {}
    /\ Step(t, IF Fenced(Aggregator, t) THEN "fenced" ELSE "read")
    /\ UNCHANGED <<queueVars, claims, children, submitted, summary, bounces, commands>>

TakeMessages(t) ==
    LET unread == {m \in inbox[Aggregator] : ~m.read} IN
    /\ run[t].pc = "fenced"
    /\ inbox' = [inbox EXCEPT ![Aggregator] =
                   {[m EXCEPT !.read = TRUE] : m \in inbox[Aggregator]}]
    /\ run' = [run EXCEPT ![t].pc = "read",
                          ![t].got = {<<m.child, m.outcome>> : m \in unread}]
    /\ UNCHANGED <<job, open, claims, children, submitted, summary, bounces, commands>>

\* What the aggregator may report of c: "missing" counts as failed.
Reports(t, c) == IF c \notin run[t].ids THEN {"none"}
                 ELSE LET outcomes == {o \in Ends : <<c, o>> \in run[t].got}
                      IN IF outcomes = {} THEN {"missing"} ELSE outcomes

----------------------------------------------------------------------------
(* executeJob: how a handler ends.                                         *)

\* Any handler that returns; the aggregator's returns its summary.
Returns(t) ==
    LET j == run[t].job IN
    /\ Working(t) /\ run[t].pc # "fenced"
    /\ j = Aggregator /\ run[t].ids # {} => run[t].pc # "running"
    /\ CompleteJob(j, t)
    /\ IF j = Aggregator /\ Fenced(j, t)
       THEN \E r \in [Children -> Ends \cup {"missing", "none"}] :
              /\ \A c \in Children : r[c] \in Reports(t, c)
              /\ summary' = r
       ELSE UNCHANGED summary
    /\ Finish(t)
    /\ UNCHANGED <<claims, children, submitted, bounces, commands>>

\* An error: retried while attempts are left.
Throws(t) ==
    LET j == run[t].job IN
    /\ Working(t)
    /\ FailJob(j, t, IF job[j].made + 1 >= MaxAttempts THEN "dead" ELSE "delayed")
    /\ Finish(t)
    /\ UNCHANGED <<claims, children, submitted, summary, bounces, commands>>

\* An UnrecoverableError, or no handler for the name.
ThrowsUnrecoverable(t) ==
    /\ Working(t)
    /\ FailJob(run[t].job, t, "dead")
    /\ Finish(t)
    /\ UNCHANGED <<claims, children, submitted, summary, bounces, commands>>

\* A RateLeaseUnavailableError.
Bounces(t) ==
    /\ run[t].pc = "running" /\ bounces < MaxBounces
    /\ ReleaseLeaseFull(run[t].job, t)
    /\ Finish(t) /\ bounces' = bounces + 1
    /\ UNCHANGED <<claims, children, submitted, summary, commands>>

\* The queue is not told: the process of the run died, the answer of its claim
\* was lost (which is not retried), or its handler threw after an abort for
\* the lost or unrenewed lock.
Abandons(t) ==
    /\ run[t].pc \notin {"free", "done"} /\ Finish(t)
    /\ UNCHANGED <<queueVars, claims, children, submitted, summary, bounces, commands>>

----------------------------------------------------------------------------
Sweep == /\ \/ \E S \in SUBSET Active : \/ HandleStalled(S) \/ HandleTimeouts(S)
                                          \/ HandleWallClockTimeouts(S)
            \/ \E x \in open : Notify(x) \/ Commit(x)
         /\ UNCHANGED workerVars
RollsBack == (\E x \in open : Rollback(x)) /\ UNCHANGED workerVars
Promote(j) == PromoteDelayed(j) /\ UNCHANGED workerVars

Command(j) ==
    /\ commands < MaxCommands /\ commands' = commands + 1
    /\ \/ CancelJob(j) \/ RetryJob(j) \/ PauseJob(j) \/ RemoveJob(j)
    /\ UNCHANGED <<run, claims, children, submitted, summary, bounces>>
Resume(j) == ResumeJob(j) /\ UNCHANGED workerVars

RunStep(t) == \/ QuietAllows(t) \/ QuietDefers(t) \/ QuietSkips(t)
              \/ SkipCancels(t) \/ SkipFallsBack(t)
              \/ CheckFence(t) \/ TakeMessages(t)
              \/ Returns(t) \/ Throws(t) \/ ThrowsUnrecoverable(t) \/ Bounces(t)
              \/ Evict(t) \/ Abandons(t)

Next == \/ \E j \in Jobs : Submit(j) \/ Launch(j) \/ Promote(j)
                           \/ Command(j) \/ Resume(j)
        \/ NameChildren
        \/ \E t \in Tokens : RunStep(t)
        \/ Sweep \/ RollsBack

Spec == Init /\ [][Next]_vars

\* The poll loop promotes and claims, the sweep timer of some worker fires,
\* time passes, and not every sweep transaction dies before its commit.
\* Nothing is assumed of the handlers, their ticks or the submitter.
KillsOld(j) == /\ \E S \in SUBSET Active : j \in S /\ HandleWallClockTimeouts(S)
               /\ UNCHANGED workerVars
Fairness == /\ \A j \in Jobs : WF_vars(Promote(j)) /\ WF_vars(Launch(j)) /\ SF_vars(KillsOld(j))
            /\ SF_vars((\E x \in open : Notify(x)) /\ UNCHANGED workerVars)
            /\ SF_vars((\E x \in open : Commit(x)) /\ UNCHANGED workerVars)
FairSpec == Spec /\ Fairness

----------------------------------------------------------------------------
(* Properties.                                                             *)

TypeOK ==
    /\ job \in [Jobs -> Row] /\ inbox \in [Jobs -> SUBSET Message]
    /\ open \subseteq Transaction
    /\ run \in [Tokens -> Run] /\ claims \in 0..MaxClaims
    /\ children \subseteq Jobs /\ submitted \subseteq Jobs
    /\ summary \in [Children -> Ends \cup {"missing", "none"}]
    /\ bounces \in 0..MaxBounces /\ commands \in 0..MaxCommands

\* CHECK chk_attempts_order: no attempt is counted twice, by a run and a sweep
\* or by two sweeps; Postgres refuses the statement that would.
AttemptsOrdered == \A j \in Jobs : job[j].made <= job[j].started

\* A job is ended, delayed or bounced in the name of a run only by its latest
\* one, however many earlier runs of it go on after they lost their lock.
LatestOf(j) == {t \in Tokens : run[t].job = j /\ \A u \in Tokens : run[u].job = j => u <= t}
OnlyTheLatestRunCounts ==
    [][\A t \in Tokens : (Working(t) /\ run'[t].pc = "done" /\ job' # job)
                            => t \in LatestOf(run[t].job)]_vars

\* What has ended stays ended, against late completions, promotions, resolved
\* parents and resumptions.  Only the operator's retry revives it, and the
\* deferral of a job whose token was never cleared: a parent that failed with
\* its child while its claim was being deferred.
EndedStaysEnded ==
    [][\A j \in Jobs :
        job[j].status \in Terminal =>
            \/ job'[j].status \in Terminal \cup {"absent"}
            \/ job'[j].end = "revived"
            \/ \E t \in Tokens : run[t].job = j /\ run[t].pc = "quiet" /\ run'[t].pc = "done"]_vars

\* A parent that has ended before and been given another start: what its
\* children sent while it was dead is lost.
Restarted(p) == job[p].end # "none"

\* Every ending of a child of a live parent posts its child_done, except the
\* dead-lettering of the stall sweep, the fallback of a skip, and the failure
\* of a job with its own child.
EndIsReported ==
    [][\A c \in Jobs :
        LET p == job[c].parent IN
        (/\ Alive(job, c) /\ job'[c].status \in Terminal /\ job'[c].end \notin Silent
         /\ Alive(job, p) /\ ~Restarted(p)
         /\ Alive(job', p) \/ job'[p].status = "failed")
            => [child |-> c, outcome |-> job'[c].end, read |-> FALSE] \in inbox'[p]]_vars

\* A parent waiting for children of which none is left alive: nothing wakes it.
Stranded(p) == job[p].status = "waiting-children" /\ LiveChildren(job, p) = {}

ChildrenOf(p) == {c \in Jobs : job[c].parent = p}
\* Ended by a transaction that does not lock the parent.
Swept(p) == {c \in ChildrenOf(p) : job[c].end \in {"timeout", "cancelled"}}

Unnotified(p) ==
    \/ \E c \in ChildrenOf(p) : job[c].end \in Silent
    \/ commands > 0 /\ \E c \in submitted : ParentOf[c] = p /\ job[c].status = "absent"
    \/ \E c, d \in Swept(p) : c # d \/ Restarted(p)

\* Completion and failure always wake the parent of the last child, whatever
\* ends its siblings at the same time.  What may strand it: a child that ended
\* silently (and may have been removed since), or two children ended by
\* transactions that do not lock the parent, or one while it was dead.
LastChildWakesParent == \A p \in Jobs : Stranded(p) => Unnotified(p)

\* queue.ts and subagent-aggregator.ts: once all kids are terminal the parent
\* is flipped out of waiting-children.
ParentNeverStranded == \A p \in Jobs : ~Stranded(p)

\* No claim lasts for ever, even of a handler that hangs while its lock is
\* renewed or of a row whose lock a skip has cleared: the wall-clock sweep
\* looks at neither.
EveryClaimEnds == \A j \in Jobs : job[j].status = "active" ~> job[j].status # "active"

\* A parent does not wait for ever, save for the causes above (a paused child
\* waits for the operator; the claims are bounded).
ParentProceeds ==
    \A p \in Jobs : job[p].status = "waiting-children" ~>
        \/ job[p].status # "waiting-children" \/ Unnotified(p)
        \/ claims = MaxClaims \/ \E c \in Jobs : job[c].status = "paused"
=============================================================================
