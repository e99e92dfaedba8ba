----------------------------- MODULE MinionQueue -----------------------------
(***************************************************************************)
(* The tables of gbrain's job queue (minion_jobs and minion_inbox) and the *)
(* statements MinionQueue issues on them.  A single SQL statement, and a   *)
(* transaction that locks the parent row first (completeJob, failJob, add),*)
(* is one step.  The three transactions that do not (cancelJob and the two *)
(* timeout sweeps) are three: their row updates, the notification of the   *)
(* parents, and the commit; what they wrote is invisible to the others     *)
(* until then, who wait for the rows they hold.                            *)
(*                                                                         *)
(* What the clock says of an active row (its lock_until, timeout_at and    *)
(* started_at against now()) is read by the sweeps alone, which act on it  *)
(* at once: the rows a sweep finds due are chosen there.                   *)
(***************************************************************************)
EXTENDS Integers, FiniteSets, FiniteSetsExt

CONSTANTS Jobs,           \* the ids of minion_jobs
          NoJob,
          ParentOf,       \* parent_job_id a job is submitted with
          OnChildFail,    \* its on_child_fail policy
          Timed,          \* the jobs with a timeout_ms
          Delayed,        \* the jobs submitted with a delay
          RemoveOnEnd,    \* the jobs with remove_on_complete and remove_on_fail
          MaxAttempts, MaxStalled,
          MaxOpen         \* bound: such transactions open at once

ASSUME QueueAssumption ==
    /\ NoJob \notin Jobs
    /\ ParentOf \in [Jobs -> Jobs \cup {NoJob}]
    /\ OnChildFail \in [Jobs -> {"fail_parent", "remove_dep", "ignore", "continue"}]
    /\ Timed \subseteq Jobs /\ Delayed \subseteq Jobs /\ RemoveOnEnd \subseteq Jobs
    /\ MaxAttempts \in Nat \ {0} /\ MaxStalled \in Nat \ {0}

VARIABLES job,            \* minion_jobs
          inbox,          \* minion_inbox: the child_done messages of each job
          open            \* the transactions of several steps, before their commit

queueVars == <<job, inbox, open>>

----------------------------------------------------------------------------
Terminal == {"completed", "failed", "dead", "cancelled"}
Cancellable == {"waiting", "active", "delayed", "waiting-children", "paused"}
Statuses == Terminal \cup Cancellable \cup {"absent"}

\* How a job ended last: the outcome of its child_done message, and for the
\* three endings that send none, "stalled", "skipped" and "cascaded" (failed
\* with its child).  "revived" is one the operator has given a new start.
Silent == {"stalled", "skipped", "cascaded"}
Ends == {"complete", "failed", "dead", "timeout", "cancelled"} \cup Silent

Row == [status: Statuses, parent: Jobs \cup {NoJob},
        token: Nat,             \* lock_token, 0 for NULL; lock_until goes with it
        made: Nat, started: Nat, stalls: Nat,
        end: Ends \cup {"none", "revived"}]

Absent == [status |-> "absent", parent |-> NoJob, token |-> 0,
           made |-> 0, started |-> 0, stalls |-> 0, end |-> "none"]

Message == [child: Jobs, outcome: Ends, read: BOOLEAN]

\* rows: the jobs it ends.  Once it has notified their parents: told, those it
\* has put messages in the inbox of, and woken, those it has set to waiting.
Transaction == [outcome: {"timeout", "cancelled"}, rows: SUBSET Jobs,
                step: {"updated", "notified"},
                told: SUBSET Jobs, woken: SUBSET Jobs]

QueueInit == /\ job = [j \in Jobs |-> Absent]
             /\ inbox = [j \in Jobs |-> {}]
             /\ open = {}

----------------------------------------------------------------------------
(* Row locks and the parent's side of an ending.                           *)

\* Rows an open transaction has written: other writers wait for it.
Locked(j) == \E x \in open : j \in x.rows \cup x.woken

Alive(rows, p) == p # NoJob /\ rows[p].status \notin Terminal \cup {"absent"}

\* The inbox row of an open transaction holds a key-share lock on the parent,
\* which SELECT ... FOR UPDATE and DELETE of the parent wait for.
Shared(p) == \E x \in open : p \in x.told

\* SELECT ... FOR UPDATE of the parent, where there is one.
CanLockParent(j) == \/ job[j].parent = NoJob
                    \/ ~Locked(job[j].parent) /\ ~Shared(job[j].parent)

\* DELETE of the row also sets the parent of its children to NULL.
CanDelete(j) == /\ ~Locked(j) /\ ~Shared(j)
                /\ \A c \in Jobs : job[c].parent = j => ~Locked(c)

LiveChildren(rows, p) == {c \in Jobs : rows[c].parent = p /\ Alive(rows, c)}

\* UPDATE ... SET status = 'waiting' WHERE status = 'waiting-children' AND NOT EXISTS (...).
Resolve(rows, parents) ==
    [j \in Jobs |->
        IF j \in parents /\ rows[j].status = "waiting-children" /\ LiveChildren(rows, j) = {}
        THEN [rows[j] EXCEPT !.status = "waiting"] ELSE rows[j]]

\* INSERT INTO minion_inbox ... WHERE EXISTS (the parent, not terminal), for
\* each of the ended children.
LiveParents(rows, children) == {p \in Jobs : /\ Alive(rows, p)
                                             /\ \E c \in children : job[c].parent = p}
Post(parents, children, outcome) ==
    [p \in Jobs |->
        IF p \in parents
        THEN inbox[p] \cup {[child |-> c, outcome |-> outcome, read |-> FALSE] :
                            c \in {d \in children : job[d].parent = p}}
        ELSE inbox[p]]

\* DELETE of rows: the inbox goes with them, the children lose their parent.
Deleted(rows, gone) ==
    [j \in Jobs |-> IF j \in gone THEN Absent
                    ELSE IF rows[j].parent \in gone THEN [rows[j] EXCEPT !.parent = NoJob]
                    ELSE rows[j]]
InboxWithout(msgs, gone) == [j \in Jobs |-> IF j \in gone THEN {} ELSE msgs[j]]

Unlocked(row) == [row EXCEPT !.token = 0]
Ended(row, status, end) == [Unlocked(row) EXCEPT !.status = status, !.end = end]
\* attempts_made = attempts_made + 1
Tried(row) == [row EXCEPT !.made = @ + 1]
Update(rows, S, F(_)) == [j \in Jobs |-> IF j \in S THEN F(rows[j]) ELSE rows[j]]

----------------------------------------------------------------------------
(* add and claim.                                                          *)

\* MinionQueue.add of a new row.  A submission that an idempotency key or
\* maxWaiting answers with an existing row changes nothing.
Add(j) ==
    LET p == ParentOf[j] IN
    /\ job[j].status = "absent"
    /\ p # NoJob => job[p].status # "absent" /\ ~Locked(p) /\ ~Shared(p)
    /\ job' = [job EXCEPT
         ![j] = [Absent EXCEPT !.status = IF j \in Delayed THEN "delayed" ELSE "waiting",
                               !.parent = p],
         ![IF p = NoJob THEN j ELSE p].status =
             IF p = NoJob THEN (IF j \in Delayed THEN "delayed" ELSE "waiting")
             ELSE IF job[p].status \in {"waiting", "active", "delayed"}
             THEN "waiting-children" ELSE job[p].status]
    /\ UNCHANGED <<inbox, open>>

Claim(j, t) ==
    /\ job[j].status = "waiting" /\ ~Locked(j)
    /\ job' = [job EXCEPT ![j].status = "active", ![j].token = t, ![j].started = @ + 1]
    /\ UNCHANGED <<inbox, open>>

----------------------------------------------------------------------------
(* The token-fenced endings of a run.                                      *)

\* Mutants: the token alone, the status alone.
FencedByToken(j, t) == job[j].token = t
FencedByStatus(j, t) == job[j].status = "active"

Fenced(j, t) == job[j].status = "active" /\ job[j].token = t

\* Mutant: the parent is not looked at.
CompleteJobAlone(j, t) ==
    /\ ~Locked(j) /\ CanLockParent(j)
    /\ job' = IF Fenced(j, t) THEN [job EXCEPT ![j] = Ended(@, "completed", "complete")] ELSE job
    /\ UNCHANGED <<inbox, open>>

\* completeJob: nothing happens when the fence fails.
CompleteJob(j, t) ==
    /\ ~Locked(j) /\ CanLockParent(j)
    /\ j \in RemoveOnEnd => CanDelete(j)
    /\ IF Fenced(j, t)
       THEN LET done  == [job EXCEPT ![j] = Ended(@, "completed", "complete")]
                after == Resolve(done, {job[j].parent})
                gone  == {j} \cap RemoveOnEnd
            IN /\ job' = Deleted(after, gone)
               /\ inbox' = InboxWithout(Post(LiveParents(done, {j}), {j}, "complete"), gone)
               /\ UNCHANGED open
       ELSE UNCHANGED queueVars

\* Mutant: only a removed dependency resolves the parent.
AfterFailureUnresolved(rows, j) ==
    LET p == job[j].parent IN
    IF p = NoJob THEN rows
    ELSE CASE OnChildFail[j] = "fail_parent" -> rows
           [] OnChildFail[j] = "remove_dep" -> Resolve([rows EXCEPT ![j].parent = NoJob], {p})
           [] OTHER -> rows

\* The parent's side of a terminal failure.
AfterFailure(rows, j) ==
    LET p == job[j].parent IN
    IF p = NoJob THEN rows
    ELSE CASE OnChildFail[j] = "fail_parent" ->
                [rows EXCEPT ![p] = IF @.status = "waiting-children"
                                    THEN [@ EXCEPT !.status = "failed", !.end = "cascaded"] ELSE @]
           [] OnChildFail[j] = "remove_dep" ->
                Resolve([rows EXCEPT ![j].parent = NoJob], {p})
           [] OTHER -> Resolve(rows, {p})

\* Mutant: the parent is failed before the message is inserted.
FailJobParentFirst(j, t, status) ==
    /\ ~Locked(j) /\ CanLockParent(j)
    /\ IF ~Fenced(j, t) THEN UNCHANGED queueVars
       ELSE LET failed == [job EXCEPT ![j] = Tried(Ended(@, status, status))]
                after  == AfterFailure(failed, j)
            IN /\ job' = after
               /\ inbox' = IF status = "delayed" THEN inbox ELSE Post(LiveParents(after, {j}), {j}, status)
               /\ UNCHANGED open

\* failJob with newStatus 'delayed', 'failed' or 'dead'.
FailJob(j, t, status) ==
    /\ ~Locked(j) /\ CanLockParent(j)
    /\ j \in RemoveOnEnd => CanDelete(j)
    /\ IF ~Fenced(j, t) THEN UNCHANGED queueVars
       ELSE IF status = "delayed"
       THEN /\ job' = [job EXCEPT ![j] = Tried([Unlocked(@) EXCEPT !.status = "delayed"])]
            /\ UNCHANGED <<inbox, open>>
       ELSE LET failed == [job EXCEPT ![j] = Tried(Ended(@, status, status))]
                gone   == {j} \cap RemoveOnEnd
            IN /\ job' = Deleted(AfterFailure(failed, j), gone)
               /\ inbox' = InboxWithout(Post(LiveParents(failed, {j}), {j}, status), gone)
               /\ UNCHANGED open

\* releaseLeaseFullJob: back to delayed without an attempt.
ReleaseLeaseFull(j, t) ==
    /\ ~Locked(j)
    /\ job' = IF Fenced(j, t)
              THEN [job EXCEPT ![j] = [Unlocked(@) EXCEPT !.status = "delayed"]] ELSE job
    /\ UNCHANGED <<inbox, open>>

----------------------------------------------------------------------------
(* Promotion and the sweeps of the worker's timer.                         *)

PromoteDelayed(j) ==
    /\ job[j].status = "delayed" /\ ~Locked(j)
    /\ job' = [job EXCEPT ![j] = [Unlocked(@) EXCEPT !.status = "waiting"]]
    /\ UNCHANGED <<inbox, open>>

Active == {j \in Jobs : job[j].status = "active" /\ ~Locked(j)}
Holding == {j \in Active : job[j].token # 0}

\* handleStalled of the rows S whose lock_until has passed: one statement,
\* which neither posts child_done nor looks at the parent.
HandleStalled(S) ==
    /\ S # {} /\ S \subseteq Holding
    /\ job' = Update(job, S, LAMBDA r :
         IF r.stalls + 1 < MaxStalled
         THEN [Unlocked(r) EXCEPT !.status = "waiting", !.stalls = @ + 1]
         ELSE [Tried(Ended(r, "dead", "stalled")) EXCEPT !.stalls = @ + 1])
    /\ UNCHANGED <<inbox, open>>

\* The rows of cancelJob: the job and its descendants.
Descendants(j) ==
    LET below[n \in Nat] == IF n = 0 THEN {j}
                            ELSE below[n - 1] \cup {c \in Jobs : job[c].parent \in below[n - 1]}
    IN below[Cardinality(Jobs)]
ToCancel(j) == {c \in Jobs : c \in Descendants(j) /\ job[c].status \in Cancellable}

\* The UPDATE ... RETURNING that begins such a transaction.
Begin(outcome, rows) ==
    /\ rows # {} /\ \A j \in rows : ~Locked(j)
    /\ Cardinality(open) < MaxOpen
    /\ open' = open \cup {[outcome |-> outcome, rows |-> rows, step |-> "updated",
                               told |-> {}, woken |-> {}]}
    /\ UNCHANGED <<job, inbox>>

\* timeout_at has passed and lock_until has not.
HandleTimeouts(S) == S \subseteq Holding \cap Timed /\ Begin("timeout", S)
\* Mutant: a row without a lock is left to the stall sweep.
WallClockOfLocked(S) == S \subseteq Holding /\ Begin("timeout", S)
\* started_at, of the first claim, is too long ago, locked or not.
HandleWallClockTimeouts(S) == S \subseteq Active /\ Begin("timeout", S)
CancelJob(j) == Begin("cancelled", ToCancel(j))

\* The table as the transaction x sees it after its update: its own rows and
\* the committed ones, never those of another open transaction.
EndedBy(x) == Update(job, x.rows, LAMBDA r :
                 IF x.outcome = "cancelled" THEN Ended(r, "cancelled", "cancelled")
                 ELSE Tried(Ended(r, "dead", "timeout")))

Unwaited(rows, parents) ==
    {p \in parents : rows[p].status = "waiting-children" /\ LiveChildren(rows, p) = {}}

\* Its messages to the parents, and the update that wakes those of them whose
\* last child it has ended.
Notify(x) ==
    LET parents == {job[c].parent : c \in x.rows} \ {NoJob}
        woken   == Unwaited(EndedBy(x), parents)
    IN /\ x \in open /\ x.step = "updated"
       /\ \A y \in open \ {x} : woken \cap (y.rows \cup y.woken) = {}
       /\ open' = (open \ {x}) \cup
                    {[x EXCEPT !.step = "notified", !.woken = woken,
                               !.told = LiveParents(EndedBy(x), x.rows)]}
       /\ UNCHANGED <<job, inbox>>

Commit(x) ==
    /\ x \in open /\ x.step = "notified"
    /\ job' = Update(EndedBy(x), x.woken, LAMBDA r : [r EXCEPT !.status = "waiting"])
    /\ inbox' = Post(x.told, x.rows, x.outcome)
    /\ open' = open \ {x}

\* The process dies, or Postgres breaks a deadlock, before the commit.
Rollback(x) == /\ x \in open /\ open' = open \ {x} /\ UNCHANGED <<job, inbox>>

----------------------------------------------------------------------------
(* The operator's statements.                                              *)

RetryJob(j) ==
    /\ job[j].status \in {"failed", "dead"} /\ ~Locked(j)
    /\ job' = [job EXCEPT ![j] = [Unlocked(@) EXCEPT !.status = "waiting", !.end = "revived"]]
    /\ UNCHANGED <<inbox, open>>

PauseJob(j) ==
    /\ job[j].status \in {"waiting", "active", "delayed"} /\ ~Locked(j)
    /\ job' = [job EXCEPT ![j] = [Unlocked(@) EXCEPT !.status = "paused"]]
    /\ UNCHANGED <<inbox, open>>

ResumeJob(j) ==
    /\ job[j].status = "paused" /\ ~Locked(j)
    /\ job' = [job EXCEPT ![j] = [Unlocked(@) EXCEPT !.status = "waiting"]]
    /\ UNCHANGED <<inbox, open>>

\* removeJob and prune: rows in a terminal status.
RemoveJob(j) ==
    /\ job[j].status \in Terminal /\ CanDelete(j)
    /\ job' = Deleted(job, {j})
    /\ inbox' = InboxWithout(inbox, {j})
    /\ UNCHANGED open
=============================================================================
