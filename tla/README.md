# LGDO Knowledge Core in TLA+

Models, model-checking runs and machine-checked proofs of the core of LGDO. It has
two halves. The Python backend in `src/app/` keeps a vault of Markdown pages, their
revisions in SQLite, and two projections of them (retrieval rows and a GBrain
index) in step with one another while people edit the same files in Obsidian.
GBrain in `src/gbrain/`, in TypeScript, is the index: LGDO reaches it through one
tool, and it has a job queue, a sync of git work trees and row locks of its own.

How to run: `tlc -config <run>.cfg <module>` for each run of `PROJECT.json`, and
`tlapm <module>.tla` for the eight `*Proofs` modules.

## 1. Inventory

| component | state | operations | hard behaviour | what makes it correct |
|---|---|---|---|---|
| **Projection outbox** `projection_jobs.py` | table `knowledge_projection_jobs`: status, attempts, `available_at`, `lease_owner`, `lease_expires_at`, unique idempotency key | enqueue, claim, renew, finish, fail, supersede, manual retry | leases lapse under a running worker; finishing late; last attempts; superseding while something runs | one owner per running row; a lost lease settles nothing; finished stays finished; every row is settled in the end |
| **Projection worker** `projection_worker.py` | claims in memory, one projection thread, one renewal task | poll, claim, run, renew, cancel, mark failed | the run is cancelled while its thread goes on; crash between claim and start | work goes on after any crash; a cancelled run changes no job |
| **Wiki retrieval projection** `wiki_rag_projection.py` | `wiki_chunks`, and the watermark `rag_projection_*` of `wiki_pages` | load snapshot, write rows, switch watermark, clean up, delete | each is a transaction of its own, the page moves on in between; rows are written without looking at the lease | retrieval sees nothing or the whole wanted revision |
| **Vault writer** `vault_writer.py` | `vault_write_intents` (phase, lease, captured hashes); hard links: the page, and `backup`, `capture-claim`, `new.md` per intent | claim, lock, capture, install, finalize, recover, reconcile backups | editors replace, remove and write into files between any two calls; crash anywhere; leases against the operating system lock | nobody's bytes are lost; one executor at a time |
| **Wiki revisions** `wiki_revisions.py` | `wiki_pages` (current revision, pending intent, lifecycle, epoch), `wiki_page_revisions`, `wiki_file_observations` | prepare, finalize, hand over, ingest external bytes, resolve, rename, delete, ensure jobs | one transaction moves several tables; a second mutation meets an open intent | the page points at its one open intent; what the editor wrote is recorded |
| **Vault events** `vault_events.py` | `vault_watch_occurrences`, `pending_vault_deletes` with a claim (owner, time of its last renewal), reconcile requests | begin and finish an occurrence, queue, claim, renew, release, cancel, complete a delete | a delete's grace period ends while the file comes back; claims get stale, or stay behind | every occurrence and every delete is settled; a delete waits for files noticed in its grace period |
| **Vault sync, watcher** `vault_sync.py`, `vault_watcher.py` | handlers of the present batch, page locks, the expiry loop, the inventory of a pass | handle a batch, queue a delete, take a move, ingest, expire deletes, replay, reconcile | several handlers and the expiry loop on one page; the service's own replacement seen as a removal; crash between a mutation and the end of its occurrence | the database ends up as the files are, or the path is reported |
| **GBrain projection** `gbrain_projection.py`, `gbrain.py` | batches, segments, mappings (slug to page, revision, epoch, generation), protections | build or resume a batch, send segments, attribute answers page by page, delete mappings, close | unknown outcome of a submission; leases lost at any of some ten transactions; pages that move on meanwhile; stored answers replayed | what is cited is the page's present revision; no active page's projection ends in nothing |
| **lgdo_vault_sync** `src/gbrain/src/core/lgdo-vault-sync.ts` | rows of pages, the table of answers by idempotency key, one request in service | check files, import, rename with compensation, reconcile, store | files change while it reads; a restart between import and storing; a failed compensation | protected rows stay |
| **Minion queue** `core/minions/queue.ts` | `minion_jobs` (status, lock token, attempts, parent), `minion_inbox` | add, claim, complete, fail, bounce, promote, sweep stalls and time-outs, cancel, pause, resume, retry, remove | late runs; sweeps of two statements against completions; parents waiting for children that end in seven ways | only the latest run counts; endings are final and reported; a parent is woken |
| **Minion worker, fan-out** `core/minions/worker.ts`, `handlers/subagent-aggregator.ts`, `commands/agent.ts` | runs in memory, the names of the children | launch, quiet hours, evict, abort, return or throw; submit; aggregate | a handler that hangs or ignores its abort; a submitter that stops half-way | every claim ends |
| **Row locks** `core/db-lock.ts`, `process-cleanup.ts` | one row: pid, host, time of its last renewal | acquire, refresh, release, take over, reap, clean up on signals | holders that die or stall; two processes breaking one lock | one sync at a time |
| **Sync of a source** `commands/sync.ts`, `commands/import.ts`, `op-checkpoint.ts`, `sync-failure-ledger.ts` | index, bookmark, checkpoint, ledger; a git work tree that others commit to | pin, diff, delete, rename, import, gate, advance, clear; full sync with its own checkpoint | the work tree is ahead of the pin; crash, resume, rewrite of history; poison files | the bookmark never passes a file that is neither indexed nor recorded, and no page stays without a file, but where the code swallows an error |
| Everything else | catalog, ingestion, search and answers, pages and layout, accounts, feedback, HTTP, frontend; GBrain's engines, migrations, operations, gateway, retrieval, cycle, supervisor, rate leases, doctor | | sequential, pure, or single rows | not modelled: reasons in `PROJECT.json` |

How they interact: `finalize_intent`, `delete_page`, `rename_page` and the
failure paths of recovery raise `wiki_pages.projection_epoch`, clear the
watermark and enqueue a `rag` and a `gbrain` job in the **same** SQLite
transaction (`BEGIN IMMEDIATE`). Workers claim these jobs and call the
projectors, which check page and epoch again in their last transaction. The
watcher and reconcile passes call `_ingest_external_change`, the API calls
`_prepare_human_mutation`, the catalog `apply_generated_candidate`: all of them
end in `prepare_write_intent_locked` and `IntentExecutor.execute`. At startup
`main.py` L48 runs `reconcile_all` once. The `gbrain` job's projector sends batches
of pages to `lgdo_vault_sync` over MCP, which reads the same files from the vault
and writes GBrain's rows; hits come back through `map_gbrain_hit`, which trusts a
row only if the mapping names its generation. The Minion queue and the sync of
sources are GBrain's own and share no state with LGDO; sync takes the row lock of
its source.

## 2. Modules

```
ProjectionJobs ----------+--> ProjectionOutbox ---> MCProjectionOutbox
 (table as operators)    |         |
      |                  |         +--> ProjectionOutboxProofs
      +--> ProjectionJobsProofs ------------^
                         +--> WikiRagProjection ---> MCWikiRagProjection
                                  |         +--> WikiRagProjectionProofs
                                  |              (and ProjectionJobsProofs)
                                  +--> RagVisibility (INSTANCE, refined)
      +--> GBrainProjection ---> MCGBrainProjection
                  |    +--> GBrainProjectionProofs (and ProjectionJobsProofs)
                  +--> LgdoVaultSync (INSTANCE, composed)
VaultWriter ---> MCVaultWriter
      +--> VaultWriterProofs
VaultSync -----> MCVaultSync
      +--> VaultSyncProofs

MinionQueue ---> MinionWorker ---> MCMinionWorker
                      +--> MinionWorkerProofs
DbLock --------> SourceSync -----> MCSourceSync
                      +--> SourceSyncProofs (and of DbLock)
```

**ProjectionJobs** has the table as a function from idempotency keys to rows and
each transaction of `ProjectionOutbox` as an operator on it, so that two
components share one translation. Times are relative to the present: `wait` is
`available_at - now`, `lease` is `lease_expires_at - now`, and `Aged` lowers
both. A lease below zero has lapsed, as `claim` compares with `<`. `Horizon`
merges rows that have been due for longer than it; it only coarsens the order in
which `claim` takes them, and `Batches` then allows either order.

**ProjectionOutbox** is the table with page transactions, worker processes, the
renewal task, crashes and the operator's retry. A worker process keeps in `held`
which attempt it claimed; this is what `Fenced` compares. Correspondence: `Claim`
= `_claim`; `Start`/`Finish`/`Fail` = one turn of the loop in `_run_rag_once`
around the projector; `RenewLease`/`CancelRun` = `_renew_claims` and
`_with_lease_renewal`, which cancels the run but cannot cancel the thread.

**WikiRagProjection** replaces the abstract projection by its transactions and
adds pages and rows. `Finalize`, `DeletePage`, `Invalidate`, `RenamePage`,
`EnsureJobs` are the transactions of `wiki_revisions.py` reduced to what they do
to page, watermark and jobs. `LoadSnapshot`, `WriteRows`, `Commit`,
`FinishSuperseded`, `Cleanup`, `ProjectDelete` are those of the projector and
the worker, `Raise` an exception in any of them.

**RagVisibility** is what retrieval is promised: of a page it finds nothing or
the whole of the revision that is wanted now, and what it finds goes away only
with a change of the page. `RetrievalSafe` says that WikiRagProjection
implements it under the mapping: version = epoch, wanted = revision of an active
page, shown = what `load_visible_wiki_rows` returns.

**VaultWriter** has a file system of names, inodes and contents, one page, the
intents in the order of their creation, and executors that walk the phases of
`IntentExecutor` one system call or transaction at a time. Content `r` is the
rendering of revision `r`; an editor types a member of `Edits`, some of which do
not parse. `EditorWays` says how the editor saves: by replacing the file (most
editors), by restoring bytes of a revision (undo, sync tools, saving without a
change), by removing it, or through a handle it has kept open. Correspondence:
`Capture`, `LinkBackup`, `Grab`, `Settle` = `AtomicVaultWriter.capture` before
the link, the link of the backup, `os.rename` to the claim, and the comparison
afterwards; `Stage`, `Write`, `Place` = `install`; `Observe` and the four
`Recover*` = `_reconcile_recovery` and the methods of `WikiRevisionService` it
ends in; `LoseLease` = the `_require_lease` checks.

**VaultSync** has the files at a few paths, the row of one page, its one open
intent, and per path the pending occurrence and the pending delete. The watcher
is what it has heard of each path since the last batch (`raw`); `Batch` turns
that into occurrences as `normalize_watchfiles_batch` and `handle_batch` do. Each
occurrence's handler, the expiry loop and the service's start-up are processes of
their own: `hand`, `expiry` and `mode` say at which step each is. Correspondence:
`Queue`, `Defer` = the two transactions of `_queue_delete`; `Look`,
`CancelDelete`, `SamePath` = the branch of `_process_add_or_modify` for a file
that came back; `Sort`, `ClaimDelete`, `Resolve` = the branch that looks for the
other half of a move; `RenamePage`, `Relocate`, `RepeatMove` = `rename_page` and
`relocate_external_change`, first time and repeated; `Ingest`, `IngestAgain` =
`ingest_external_change`; `ClaimDue` to `CompleteDelete` = one delete of
`expire_deletes` with the two transactions of `delete_page`; `Boot` to `GoLive` =
the lifespan of `main.py` with `reconcile_all`, `_replay_pending_occurrences`,
`_inventory` and `_reconcile_inventory`. The intent's execution is VaultWriter in
two steps (`Take`, `Put`), with its recovery in one (`Resumed`).

**GBrainProjection** has the page's transactions again, of which `Finalize` enqueues a
`gbrain` job or, for a compile where `gbrain_import_on_compile` is off (the default,
`config.py:72`), none; `asked` notes which. It is a worker's run over the table of ProjectionJobs, one
transaction a step, composed with **LgdoVaultSync**, the tool. Correspondence:
`Claim`; `Resume`, `RefuseClaims`, `Create` = the branches of `create_batch`;
`Send`, `Receive`, `Refused`, `Timeout` = one segment of `execute_batch` around
`GBrainProjectionClient.sync`; `AttributePage` = `_attribute_page_success` and the
failure next to it; `AttributeDelete` = `_attribute_deletions`; `FinishSegment`,
`FinishJobs`, `FinishBatch` = the closing transactions. In the tool `Accept` =
`loadIdempotentResult`, `RefusePage`, `ImportPage`, `PageDone`, `VerifyPage` =
`processExpectedPage`, `DeleteRows` = `reconcileDeletedPages`, `Store` =
`storeIdempotentResult`. A generation counts imports of a page and
stands for `gbrain_page_id` with it; a content hash is the page and revision that the
front matter names (`Hash`). Result, stored answer and mapping carry both, and
`map_gbrain_hit` compares both. `stored` outlives restarts, as the table does.
`Resume` takes what is known from the rows of protections. Those that a segment has stored
when it succeeded (`gbrain_projection.py:593`) are of pages without a row, which
no transaction deactivates (`:1485`, `:1647` look at `page_id`), so they are among these.

**MinionQueue** has the two tables and the statements on them, **MinionWorker** the
runs. A run is an execution of a handler under one claim, whose number is its lock
token. `completeJob`, `failJob` and `add` lock the parent's row first and are one
step; the two timeout sweeps and `cancelJob` do not, and are three (`Begin` in
`HandleTimeouts`, `HandleWallClockTimeouts`, `CancelJob`: the update of the rows;
`Notify`: the messages and the reading of the parents' other children; then `Commit`):
what they wrote is invisible to others, who wait for the rows they hold. A parent
that fails by its child's `fail_parent` sends no child_done to its own parent
(`queue.ts:978`). What the clock says
of an active row is chosen by the sweep that reads it.

**DbLock** has the row with two flags for time: `young`, acquired less than the
takeover grace ago, and `lapsed`, not refreshed for the TTL and the steal grace. A
takeover of a dead holder is three steps: `FindDead`, `DeleteLockRow`, and an
`Acquire` like any other, as between `inspectLock`, `deleteLockRow` and the second
upsert others may come.

**SourceSync** has the commits, HEAD, the index, and what a run has in memory. A
version of a file is the number of the commit that wrote it. Correspondence:
`Begin` = `performSyncInner` from the checkpoint to the manifest, `BeginBlind` the same
where a load of the checkpoint fails and counts as empty (`op-checkpoint.ts:160`),
`BeginFallback` where the diff fails and the sync becomes a full one (`sync.ts:1829`),
`BeginFull` = the full sync's pin (`:1671`) and `ListFull`, a step later, the listing of
`runImport`, which may see another commit; `SavePin` = the write
of the checkpoint's target, `DeletePage`, `MoveSlug`, `ImportRenamed`,
`ImportOnePath` = the loops, `Partial` = `partial()`, `Gate` = the end of the
imports with `applySyncFailureGate`, `Advance` = `writeSyncAnchor`, `Finish` = the
clears and what the gate marks after it; `ImportFull`, `GateFull`, `Reconcile` =
`performFullSync` over `runImport`.

### Abstractions, by component

- SQLite: each `BEGIN IMMEDIATE` transaction is one step. A check of the lease
  directly before a read of files is merged with that read; the system calls that
  change files, and the transactions, are not merged.
- `Observe` merges the four reads of recovery. What is seen is then compared
  again by the actions that follow, as in the code.
- Wiki rag projection: all chunks of a page, revision and epoch are one row
  (they are written in one transaction), and a page has at least one chunk.
- `_ingest_external_change`: storing the observation and preparing the intent are
  one step; the watcher that finds the change is a later module.
- Vault writer: fsync is left out (a crash is the death of a process, not of the
  disk); except that a staged file is created empty and filled afterwards, which
  a process can die between. `finalize_intent`'s validation of the revision's
  metadata is left out; POSIX rename is assumed. `current_revision_id` stands for
  the bytes of that revision.
- Vault sync: one page, declared by every file; a content is a number and stands
  for bytes, mtime and semantic hash together, and every save makes a new one. Taking
  the page's lock, the checks under it and the observation of the file are one
  step; the mutation that uses the observation is another. Waiting for a stable
  file is left out. Finished rows are dropped, as nothing reads them again. A page's lock is
  held by one process, as in the code (`asyncio.Lock` per page). The semaphore
  over handlers is left out: its default of 4 is never reached by two paths.
- Vault sync models the pass of the start-up; a pass requested through
  `POST /vault/reconcile` on a running service, files that cannot be read or that
  declare several pages, and paths occupied by another page are left out.
- GBrain projection: one worker in the runs (a second one shows up as leases that
  lapse); bytes of a file are the page and revision its front matter names; a
  path stands for its slug; the worker's renewal keeps what it holds unless it
  stalls (`Stall`), which lapses all its leases.
- Minion: quiet hours, delays, time-outs and the policy of a parent are constants of
  a job; backoff, priorities and the rate limits behind a bounce are left out.
  Cancellation walks all descendants, as the code does.
- DbLock assumes that no two processes have one pid (`UniquePids`): release, refresh
  and `deleteLockRow` look at the pid and not at the host, so that two hosts with
  equal pids could break each other's lock; the model has one lock.
- SourceSync: a commit is whatever `git pull` or another process brings. Left out: detached
  work trees, the chunker-version gate, paths a strategy does not sync, dry runs,
  `--full`, the `<head>` row of the ledger, the purge of old checkpoints. Parallel imports in a run are imports in any order. Deletes
  are by path (the batch falls back to that). `source_path` and slug are one. A version of
  a file stands for its content. Which deleted and added files `git diff -M` calls a rename
  is a parameter, `Paired`: any one-to-one choice among them, whether or not their contents are
  equal; the runs pair equal contents and one pair of different ones. `Mixed` = FALSE
  keeps rare events (a stall, a signal, a rewrite, a revert) from coming together with failures and deaths.
- Human mutations of a page with an open intent are refused in the code; they
  change nothing and are no action here.

## 3. Runs

| run | question | instance |
|---|---|---|
| `outbox` | ownership, fencing, finality; every row is settled in the end | 2 workers, 1 page, 2 epochs, 3 attempts, batches of 2, 1 manual retry, leases of 1 unit |
| `rag` | watermark, rows under it, no lost projection, nothing left of a withdrawn page as long as no step has failed, refinement; active pages are found in the end | 2 workers, 1 page, 2 revisions, 2 epochs, 2 attempts, claims of 1, 1 fault (564,000 states) |
| `writer_safety` | one open intent; nothing forgotten; known baselines | 2 executors, 2 prepared intents, 2 edits by a replacing and removing editor, 1 crash, 1 lapsed lease; page present or absent |
| `writer_handles` | one writer; no file loses its last name or its bytes; with the monitor running | the same with 1 prepared intent and an editor that restores bytes and keeps handles; page present or legacy |
| `sync` | own replacements never delete or move the page; a delete waits for the files noticed; quiet means in sync, or reported; every occurrence is finished and every delete decided | 2 paths, 2 changes by the editor, 1 through the service, the start and 1 restart, 1 claim that gets stale at work (414,000 states) |
| `gbrain` | evidence is current, no projection ends in nothing, no mapping goes back, protected rows stay | 2 pages, 3 paths, segments of 1, 2 epochs, 2 changes of files, 2 faults; compiles that ask for no projection (905,000 states) |
| `gbrain_replay` (violated) | quiet means evident, without any fault | 2 pages in one segment, 3 epochs, 4 changes of files |
| `minion_safety` | only the latest run counts; endings final and reported; the last child wakes its parent | an aggregator and 2 children (one `fail_parent`, one `remove_dep`), 3 claims, 2 attempts, 2 stalls, 1 command of the operator, 2 open transactions (1,345,000 states) |
| `minion_liveness` | every claim ends; parents proceed | the same without commands, with 1 bounce and a delayed child that is removed on its end, 1 stall (91,500 states) |
| `source` | one sync at a time; bookmark and checkpoint honest; no ghosts; no regress; HEAD is reached | 2 processes, 2 paths, 3 commits, threshold 2, 1 fault and 1 death, or 1 stall, signal, rewrite or revert (854,000 states) |
| `source_renamed` (violated) | failures are recorded, without any fault | 3 commits |
| `source_resume` (violated) | the bookmark is honest where full imports save checkpoints | 3 commits, 1 death |

Why the bounds are enough. Two workers and two executors are one that is late
and one that took over; further ones behave as the second does, as rows and
intents have one owner. Two epochs give an old and a present one, and the rules
compare epochs with `<`, `=` and nothing else. Three attempts allow a first one,
a lapsed one and a last one. Two edits are one before and one after any step of
the service, in either order, and together with recovery they lead to chains of up to
four intents. Two paths are the old and the new one of a move; a third could only
make it ambiguous. In VaultSync two changes by the editor are both halves of a
removal and return, a move and a save, or two moves. In GBrainProjection two
pages give a batch of two segments, of which the first fails and the last deletes;
three paths are the two homes and one to move to. Two children are the one that
ends and the last one. Three commits are the bookmark, the pin and what is
committed under the pin; for any number the safety properties are proved (section 5). Two
processes on one host have all the lock's cases but a holder on another host, which is the one that is never found dead.
Deadlock checking is off for the vault writer, vault sync, the Minion worker and
`gbrain_replay`, where all bounds used up and nothing open means that nothing is
left to do. `TypeOK` is checked in `outbox` and `source` (where it also says who
may have a run in memory); the other modules' type invariants are stated, and were
checked while the modules were written.

What `sync` does not say: `QuietMeansInSync` leaves out the time after a
restart that replayed something (`RestartCatchesUp` says it of that time too, and
fails), and beyond these bounds it needs the three conditions of `QuietVaultInSync`
(section 5): with three edits, and a change through
the service between the deletion of the page and `complete_delete`, it fails, as
`_prepare_human_mutation` does not look at `lifecycle_status`; with four edits and
two crashes a delete that was applied but not completed makes later passes skip a
moved file; a start-up that finds two files of the page and none at its path keeps no
record of that path (both in section 4). `BootEdits` = FALSE leaves out edits between
the inventory and the
start of the watcher, which the code misses. `PendingDeleteIsOfThePage` is checked
without crashes: after one, a delete can be queued again for a path that a
relocation, not yet executed, is leaving.

What `source` does not say: `BookmarkIsHonest`, `NoGhosts`, `CheckpointIsHonest` and
`BookmarkNeverRegresses` are stated for behaviours without a stall, a signal, a
rewrite or a revert (`Orderly`), as each of them breaks one (section 4);
`OneSyncAtATime` for those without a stall or a signal. What such events leave is
covered by `CatchesUp`, which has no such condition. `FullSaves` is FALSE, see
`source_resume`. Where the code swallows an error it makes no promise, and the three
properties except the paths in question by name, in two auxiliary variables:

- `missed`, until the path is imported: a rename whose import returned an error
  (`sync.ts:2310`, see `source_renamed`); a path done for an older pin, when the load of
  the target fails (`op-checkpoint.ts:160`) and HEAD is pinned over it (`sync.ts:1742`,
  `:1956`).
- `leftover`, until the page is deleted or moved: the old path of a rename whose
  `updateSlug` failed (`:2296`); pages without a file after such a load; every path
  after a failed diff (`:1829`), until a full sync has reconciled; a file committed
  between the pin of a full sync (`:1671`) and its listing (`import.ts:179`); what a full
  sync leaves that dies before, or fails in, its reconcile.

`missed` excuses `BookmarkIsHonest`, `leftover` `NoGhosts`, both `CheckpointIsHonest`.
`NoGhosts` also leaves out the time between a full sync's bookmark and its reconcile.

What `gbrain` does not say: an epoch of a compile for which no projection was asked
(`Unrequested`) has neither mapping nor job; `ProjectionIsKept` excepts it until a
worker that comes upon the page enqueues one. The page is then cited by nobody, which
`EvidenceIsCurrent` does check.

That a page of the vault writer does not stay blocked is not checked. Recovery goes over the
intents once, when the application starts (`main.py:48`), and skips leases that have not
lapsed and the successors it has just made, so that without another start or a repeated
request a page may wait for good: no fairness that the code gives would carry it.

Symmetry is used where no liveness is checked, in `writer_safety` and
`writer_handles` (executors).

### Fairness

`ProjectionOutbox`, `WikiRagProjection`: time passes (`Tick`), and each worker
process takes some step again and again (`Work`): the loop of `run_once` polls
for ever, the projector's calls have timeouts, and a process that dies is
started again. No fairness of crashes, edits, renewal or retries. Renewal is
not needed for progress, and cancellation is no help to it.

`VaultWriter` is checked for safety only. `FairSpec` there is more than the application
gives (open intents are claimed again and again); it serves `NeverBlocked`, which fails
even so (section 4).

`VaultSync`: handlers, the executor, the expiry loop, the watcher and the start-up
go on as long as the process lives; leases and grace periods end. A handler polls
for a claim and queues for a page's lock, so it gets what is free again and again,
and a pass of `expire_deletes` tries every delete that is due, so one that fails
each time starves no other (strong fairness per path). Claims of an owner at work lapse at most `MaxLapses` times.
Nobody has to edit, and nobody has to restart the service.

`MinionWorker`: the worker's loop promotes and claims (`worker.ts:480`), some
worker's sweep timer fires, and not every sweep dies before its commit. Nothing is
assumed of handlers, of the renewal of their locks, or of the submitter.

`SourceSync`: a run at work goes on or dies, a process told to terminate exits,
somebody syncs again (cron, autopilot), an acquirer that found its holder dead
goes on to delete the row, and a row nobody refreshes lapses. Deaths and faults are
bounded; commits are.

GBrainProjection is checked for safety only.

## 4. Findings

Three places where the code and what the repository says of it part; each is a run
with expect `violation`, quoted in `PROJECT.json`.

1. `gbrain_replay`: a batch that lost its leases is taken up again after another
   batch has imported the same revision of one of its pages anew. The tool answers
   from its table with the first import, `_attribute_page_success` writes that over
   the newer mapping, all jobs succeed, and the page is cited no more. No fault is
   needed: the leases are lost because the other page of the batch was deleted. The
   citation design calls such a replay safe (L64, L80).
2. `source_resume`: `import-checkpoint.json` is keyed by the directory. A full sync
   that dies and is resumed at a later commit skips files that changed since, and
   sets the bookmark to the new commit: no later sync looks at them.
   `sync.ts:3087` takes a full import for authoritative.
3. `source_renamed`: a file is renamed, and then edited so that it does not parse. `git
   diff -M` pairs the two (`sync-delta.ts:130`), the rename loop ignores the error that
   `importFile` returns (`sync.ts:2310`) and marks the path completed, and the bookmark
   passes it unrecorded. `sync.ts:2334` has per-file failures captured, and asks that
   further ones be threaded through the same array.

Others that a cfg of this directory reproduces (property, cfg):

| what | shown by |
|---|---|
| a crash between the creation of `new.md` and the end of its writing leaves a file that recovery takes for foreign bytes; the page is blocked (conflict design L316, L331) | `NeverBlocked`, `MCVaultWriter_torn.cfg` |
| when no file was expected, a backup left by a first run is taken over by the second without a look at its bytes (L316) | `NoFileBaselineIsKnown`, `MCVaultWriter_nofile.cfg` |
| a crash after a page was deleted and before its pending delete is completed leaves a delete that the file's arrival elsewhere takes for a move: `rename_page` gives the deleted page the new path and leaves it deleted (workflow design L64) | `MovedPageIsRestored`, `MCVaultSync_moved.cfg` |
| a rename is applied, the start-up crashes before its occurrence is finished; an edit made meanwhile is neither ingested nor reported (L210) | `RestartCatchesUp`, `MCVaultSync_missed.cfg` |
| content that comes back under a pin (a revert) is in no later diff: the index keeps the version between (`sync.ts:2673` says SAFE) | `ForwardIsHonest`, `MCSourceSync_revert.cfg` |

Met while modelling, without a cfg:

- Rows of epochs that were visible once are collected by nobody (citation design
  L109). Retrieval never reads them. A projection that raises after its rows were
  written by a run whose lease is gone leaves rows of a withdrawn page the same way.
- Nothing in the application calls `reconcile_retained_backups`, which the conflict
  design (L316) has run at every start and periodically; late bytes in a backup are
  never recorded. `release_retained_backup` hashes and unlinks in two steps.
- A save without a change during the capture leaves the expected bytes in two
  files, which recovery repeats for ever (L331): `NeverBlocked` fails so with
  `EditorWays` = {"restore"}. Staged file and target are one inode (L325): with
  {"handle"}.
- Vault sync: edits between the inventory and the start of the watcher are missed;
  a startup ingestion that raises before its try block leaves an add pending, which
  holds up deletions; a requested pass on a running service replays occurrences
  whose handlers are at work.
- Vault sync, beyond the bounds of `sync` (two crashes, four edits, `BootEdits` = FALSE): a
  crash between the deletion and `complete_delete` leaves a delete of the old path; the
  page comes back at another path; a second crash, and the file is moved to the old
  path. The start-up move finds "ambiguous pending delete evidence"
  (`vault_sync.py:1245-1253`) before it begins an occurrence, so that
  `_fail_startup_occurrence` (`:1121`) has nothing to mark: the pass counts a failure and
  keeps no record of the path. If the file is then removed, its delete finds no page at
  that path, the expiry loop completes the old delete, and all is quiet with an active
  page that has no file. The same start-up fails without a deletion, given three paths,
  seven edits and three crashes, when a delete of a path is left over from an earlier move.
- Vault sync with three paths and four edits: while the service is down the file is moved
  from `p1` to `p2` and a copy appears at `p3`. The start-up records the duplicates
  (`vault_sync.py:1450-1475`) and nothing of `p1`, which is where the row has the page. When both
  copies are removed later, their deletes find no page at these paths and finish without an
  error, which clears what was recorded of them: all is quiet, and the active page has no file.
- GBrain projection: a file that changes while it is imported ends the job as
  superseded without another job for the page (`gbrain_projection.py:1933` enqueues
  the key that exists; the design, L95, ensures a pending job); a lease lost in `_resume_batch`
  (`:498`) leaves the claims running until they lapse, so that attempts are spent
  without a request (L88); protections of unlisted rows with no page are
  never released (L157); a crash of the tool between its deletes and the storing of
  the answer leaves a delete job that finds nothing to attribute.
- Minion: `subagent-aggregator.ts:4-11` counts on a message from every child and on
  being woken. `handleStalled` does neither for a child it kills, nor does the
  cancellation of a skipped job when its first step is refused; two sweeps that end
  the last two children at once each see the other's alive, and wake nobody
  (`ParentNeverStranded` states it and fails). `fail_parent` is applied by `failJob`
  only, not by sweeps and cancellation. `started_at` is kept over retries, so that
  the wall-clock sweep may end a young run.
- Sync: a delete that fails at every run never reaches the threshold's skip of
  its path; an import of unchanged content (`sync.ts:2734` names `succeededPaths`) does
  not clear the path's open row; the `<head>` row is never cleared; a full sync that
  dies or fails between bookmark and reconcile leaves pages of no file, as does a partial run
  followed by a rewrite of history; errors of `loadOpCheckpoint`, `clearOpCheckpoint` and
  `updateSlug` are swallowed. A failed load of the target pins HEAD over the paths done
  for an older pin, which a later run skips although they have changed. A file committed
  between the pin and the listing of a full sync is indexed, and when it is removed before
  the next sync no diff names it.
- Row lock: a holder that stalls for TTL and grace is not told that its row was
  taken and goes on to the bookmark; all but the takeover compare pids without
  hosts; on SIGTERM the row is deleted while the work still runs.

## 5. Proofs

`ProjectionJobsProofs`: what each operator on the table does to a well-formed
table (`TableOK`: types, and owner exactly while running), one lemma each.

`ProjectionOutboxProofs`: for any sets of targets, pages, revisions and workers
(finite or not), any number of attempts, delays, epochs, retries and any claim
limit, under the two named assumptions on the constants alone:

- `TypeCorrect`, `OwnersCorrect`, `FencingCorrect`: `Spec => []TypeOK`,
  `[]OwnedIffRunning`, `[]Fenced`;
- `FinalityCorrect`: `Spec => SettledIsFinal`.

The inductive invariant is `IInv == TypeOK /\ OwnedIffRunning /\ Fenced`.
`Fenced` alone is not inductive: that a late worker can do no harm rests on the
row having lost its owner whenever it stopped running (`OwnedIffRunning`), and on
the next claim raising `attempts`, even after a manual retry has reset them to
zero: `Retried` is applied to failed rows, whose owner is empty, so the former
holder no longer matches. Two lemmas carry most of the cases: `WorkersUndisturbed`
for steps of the table and `WorkerLetsGo` for steps that take a job out of a
worker's hands; then there is one lemma per action. `FinalityCorrect` is an action
property from the same invariant, by the same split of `Next`.

`WikiRagProjectionProofs`: for any pages, revisions, workers, epochs, attempts, faults
and claim limit, and any targets with `"rag"` among them,

- `RagTypeCorrect`; `WatermarkCorrect`, `VisibleRowsCorrect`, `ProjectionsCorrect`,
  `WithdrawalCorrect`: `Spec => []` of `TypeOK`, `WatermarkIsCurrent`,
  `VisibleHasRows`, `NoLostProjection`, `WithdrawnLeavesNoRows`;
- `RetrievalCorrect`, `Spec => RetrievalSafe`: the refinement of RagVisibility. Initial
  states map to initial states, a transaction of the page to `Change`, the commit of a
  run that wins to `Show`, every other step to a stutter.

That a commit shows only what has rows rests on two facts the checked invariants do not
say: a run past its snapshot has seen the page match or not match, and what it has seen
holds as long as the epoch does (`HandsKnow`); and while it owns its job and would win,
no cleanup of another run deletes its rows (`WinnersHaveRows`), as cleanups spare
rows that a running job is to show. The rows of a withdrawn page need
`RowsAreOld`, `OldJobsAreOver` (nobody takes up an older job again) and `RowsAccounted`:
each row that is left once the delete job has succeeded has a run that is
on its way to clean it up.

`MinionWorkerProofs`: for any jobs and tree of jobs, policies, claims, owners and open
transactions,

- `QueueTypeCorrect`, `LatestRunCorrect`, `FinalityOfJobs`, `EndingsAreReported`,
  `ParentsAreWoken`: all the safety properties of `minion_safety`.

Only the latest run counts because tokens are given in order (`TokensOrdered`): a row's
token is the last claim of it, and earlier runs have smaller ones. The other
two are about transactions in progress: their rows and the parents they wake are locked,
unchanged since they began, and belong to one transaction (`OpenRows`); every live parent of
a row they end has been told or ends with it (`ParentsTold`); and a waiting parent
that a transaction has not woken has another child that lives or has ended in a way that
accounts for it (`ParentsExcused`). `LastChildWakesParent` needs the last: the transaction
reads the other children before it commits, and what it has read may be past by then.
`commands` in it is the operator: a child removed meanwhile may have been the last.

`VaultWriterProofs`: for any executors, edits and ways to save, intents, crashes and
lapses,

- `WriterTypeCorrect`, `OneOpenIntent`, `OneExecutor`, `BaselinesKnown`:
  `Spec => []` of `TypeOK`, `PendingIsTheOpenIntent`, `OneWriter`, `BaselineIsKnown`;
- `FilesKept`, `Spec => KeepsEveryFile`;
- `EditsAreSought`, `[]NothingForgotten` where the editor keeps no handles. Whoever
  keeps a handle may write into a file after the service has looked at it for the last time,
  and outside the service's names (see the hazard at `vault_writer.py:864`).

`IInv` has two parts. `DbInv` is about the database and the runs: a run at work has an open
intent, in the phase its step belongs to (`Runs`); no two have the same one (`Apart`), and
as the page's pending intent is the only open one, one run is at work at a time; what is
held of a file is what was expected or the new revision (`RowsKnown`). `FileInv` is about
what a run relies on between two calls: the name of its claim is free when it renames the page
to it, and the staged file it writes into is nobody else's (`Relies`); without these
`rename` or `write` would destroy a file. For `NothingForgotten` there is a second invariant,
`Kept`: of every intent, open, reviewed or closed, what backup, claim and staged file
may hold. `Free # {}` and `Len(intents) < MaxIntents`, guards that keep the model finite,
are never what stops a step in the runs. The named assumption says of the constants
that no content is `Missing`, and that a page is legacy at first only if
an edit can be read.

`VaultSyncProofs`: for any paths, ways to edit, edits, changes through the service, crashes
and lapses, under the one assumption that names of paths are not names of anything else,

- `VaultSyncTypeCorrect`, `OwnWritesCorrect`, `DeletesAreOfThePage`: `Spec => []` of `TypeOK`,
  `OwnWritesNeverDelete`, `PendingDeleteIsOfThePage`;
- `DeletesWait`, `Spec => DeleteWaitsForCandidates`;
- `QuietVaultInSync`, `Spec /\ [][Orderly]_vars => []QuietMeansInSync`.

`IInv` has a part for each. `Tasks` and `WaitsForIt` say which task may be at work when: an
intent that came from an occurrence is executed only while the occurrence is pending and its
handler waits, except while `reconcile_all` goes over the intents of an earlier process;
so the inventory is made with no intent in execution. `OnlyWrites` is what
`OwnWritesNeverDelete` needs: until the editor takes a file away, the page's file is missing
only while an intent has it captured, and no move is found, neither by a handler nor by
comparing the inventory, whose file may have been missing for that reason when it was listed.
`Candidates` is about the page's lock: whoever holds it excludes the expiry loop, and what
that has rechecked under the lock (due, nothing added since) stays so, up to a
cancellation by the handler of the path, which then waits for the lock. `NoCrash` holds up to
the first crash: deletes are queued before any other path of a batch is looked at
(`OnePass`), so that what a handler knows of them can only become fewer (`Knows`).
The proof found a mistake of an earlier version of the model: it keeps one occurrence per path,
and an occurrence that a replay ended because its file was gone stayed named in the
open intent, as if the next occurrence of that path had prepared it. Whatever ends an
occurrence now ends this tie (`Untied`).

`QuietVaultInSync` needs hypotheses, as the property is not true of the code without them.
`Orderly` says of each step: nobody prepares a change of the page, and the service is not
killed, between the deletion of the page and `complete_delete`; nobody edits between the
start of the service and the start of its watcher; and no start-up finds the page's
files `Astray`, that is, none at its path, and two elsewhere or one beside a pending
delete of another path. None is idle. For each of the four TLC finds a behaviour that breaks
only that one, and comes to rest out of sync and unreported:

- a change through the service (one, with three edits);
- a crash after the deletion (with four more and seven edits): the page comes back at another path,
  recovery binds the successor of that intent to the page's old path, and when the file is
  there again the page is active at a path whose delete counts as carried out; the expiry loop
  completes it once the file is removed, and nothing else looks at it;
- an edit during a start-up (two edits);
- astray files, either way (section 4).

With all of them TLC found none, with three paths, four edits, a crash and a lapse
(9,900,000 states). Everything else is left open: any number of edits, replacements, crashes, restarts and lapses, crashes in the
middle of a move, of an ingestion or of the start-up among them.

The second invariant, `SInv`, says who will notice. A path is `Off` where file and row disagree,
with the path an intent in execution leads to in place of the row's; in a
service that is up and replayed nothing each such path is `Heeded`: the watcher has heard of it,
its handler has still to look, its occurrence or its delete is open, a move found
at start-up is about to take the page away, or it is reported. An intent that nobody
executes suspends this, as nothing is quiet before it is closed. To keep it through the steps it takes that
what a handler saw is still so or the watcher has heard of the change (`UpToDate`); that the start-up
works on one path at a time, from an inventory that is still true, so that
its moves cannot fail (`OneAtATime`, `AtStart`, `Listed`); and that a delete is completed only after it
was carried out, of a page that is deleted or elsewhere by then (`CarriedOut`,
`Completing`). One lemma per action again; `StillSInv` and `EndSInv` carry the handlers,
`TouchSInv` the expiry loop and time, `NotedSInv` and `BeginSInv` the start-up.

`GBrainProjectionProofs`: for any pages, paths, revisions, workers, segment sizes, claim
limits, changes, batches and faults, of the worker and the tool together,

- `GBrainTypeCorrect`, `EvidenceCorrect`, `ProjectionsAreKept`: `Spec => []` of `TypeOK`,
  `EvidenceIsCurrent`, `ProjectionIsKept`;
- `MappingForward`, `Spec => MappingNeverGoesBack`;
- `ProtectedStay`, `Spec => ProtectedRowsStay` under `OneWorker`.

The assumptions on the constants are that `gbrain` is among the targets, pages are finitely
many and start at paths of their own (`wiki_pages.path` is unique), and that `None` is
neither a mapping nor a request. `IInv` has one part for each owner of the state:

- `TableInv`: no job is of an epoch to come (`JobsOfThePast`), and of a page's delete jobs
  one is not over (`OneOpenDelete`), as a delete supersedes all earlier jobs of the page
  that are not over, running ones too. It follows that the branch of
  `_attribute_deletions` for several open deletes of one page is never taken;
- `MappingInv`: a mapping is of an epoch there has been, and its hash is that of the
  revision it names (`MappingsAgree`);
- `RunInv`: a batch that succeeded has no segment left, a run waits exactly while it has a
  request, results in memory carry the hash of what was expected (`AllAgree`), and a run
  closes a batch only when all its segments are done (`Closes`);
- `ToolInv`: so do the results in service and every stored answer, and between import and
  verification the row is what was imported (`ImportedNow`).

`EvidenceIsCurrent` rests on the hash alone: it goes unchanged from the verified row through
the stored answer into the mapping, so that a hit whose hash is the mapping's is of the
mapping's revision, whatever became of the row's slug; and that this is the page's
present revision is what the epoch in `MapsPresent` says.
`ProjectionIsKept`, with its exception for compiles that ask for no projection, is not inductive without `MappingsOfThePast`, `OneOpenDelete` and `Closes`: a job may succeed only
in the transaction that writes the mapping, or where the page is deleted or of a later
epoch. `ProtectedRowsStay` has a second invariant, `RequestInv`: what a worker waits for
covers every protection stored or known to give way to a delete job (`WaitCovers`,
`DeletesReconcile`), and a request is not served again once its answer is being attributed
(`NotServedAgain`). `OneWorker` is not idle: a second worker may store a protection while
the first one's request is in service, which then deletes by the list it was sent (TLC
finds it with two workers and a failed compensation).

`SourceSyncProofs` begins with the lock: for any processes, pids and hosts under
`UniquePids`, `LockTypeCorrect` and `LockExcludes`, `LockSpec => []OneSyncAtATime`. That
two work at once is excluded because each has the one row (`WorkersHaveTheRow`), which
holds only while nobody stalls or is signalled; and a process that found its holder dead
may delete the row of a later one by pid, unless all processes with that pid are dead for
good (`VictimsAreDead`), which `UniquePids` and the death of processes give. The
inductive invariant is these two, that every row has a process (`RowHasOwner`), and
the types. `UniquePids` is not idle: without it two hosts break each other's locks.
Then the sync, for any paths, threshold and bounds:

- `SyncUsesTheLock`, `Spec => LockSpec`: the sync takes no step at the row that is
  not the lock's, a refinement by inclusion of variables; so `OneSync` follows from
  `LockExcludes`;
- `SyncTypeCorrect`, `Spec => []TypeOK`: a run is in memory only under the lock;
- `BookmarkForward`, `Spec => BookmarkNeverRegresses`: outside stalls, signals,
  rewrites and reverts no step takes the bookmark off the history it is in.

The last needs most of the invariant (`Inv`): history is a line as long as it is
not rewritten (`GitInv`); the target of a checkpoint kept under a bookmark lies at or after
that bookmark (`CkptInv`), as otherwise a resumed run would go back; the pin of a
run at work lies after its base (`Forward`); and while it is calm, the base of a
run that is to write the bookmark is not behind the bookmark (`InTime`), for which the lock
is needed: with two runs the slower would have an old base. One lemma per action;
`RunMoves`, `PathDone` and `LockMoves` carry what their proofs have in common.

What bookmark and checkpoint say is done needs a second invariant (`Honesty`):

- `BookmarkStaysHonest`, `PagesHaveFiles`, `CheckpointStaysHonest`:
  `~FullSaves => (Spec => []...)` of `BookmarkIsHonest`, `NoGhosts` and
  `CheckpointIsHonest`, for any way to pair renames. The hypothesis is not idle:
  `source_resume` is a run where it is FALSE and the bookmark is not honest. The paths of
  `missed` and `leftover` are excepted, as in the run.

`Honesty` has, for a history without rewrites and reverts: a version of a file is not newer
than its commit and does not come back at its path (`History`); so a page that is not as the pin has it, because the work tree
had moved on when it was imported, is in the next diff. Of the checkpoint: every path it
lists is done, with the source of a rename gone, or excepted (`CkptHonest`). Of a run: every path of its diff is
still to do, failed, or done, and before it writes the bookmark, every file of the pin is
indexed, in the next diff or recorded (`RunHonest`). `CheckpointIsHonest` by itself is not
inductive: a path that is done must stay done while others commit, and that rests
on `History`; that a page is not moved away by a later rename in the same diff rests on
a file being in one pair at most (`PairedAssumption`).

Checked by TLC only:

- liveness: every leads-to and `<>[]` property of the runs is out of the prover's reach;
- that protected rows stay with several workers.

What a theorem says, it says of the model with its bounds as parameters: the constants
`Max...` are arbitrary numbers, not the runs' values.

## 6. Not modelled, and the plan

Of GBrain's 260,000 lines of TypeScript most have no state that steps could put in
disorder: `doctor.ts` reports, `migrate.ts` is a list of SQL statements,
`postgres-engine.ts` and `pglite-engine.ts` have one statement per method,
`operations.ts` declares tools, `ai/gateway.ts` calls models, `search/`,
`chunkers/` and `eval/` are functions of data, and the commands are front ends of
these. A model of them would state what they return for bounded inputs and little
else. What has a protocol and is left out:

1. *Cycle and autopilot* (`core/cycle.ts`): phases under the lock of DbLock, with
   syncs that skip their own (`skipLock`).
2. *Supervisor and rate leases* (`core/minions/supervisor.ts`, `rate-leases.ts`): a
   counter of leases, against the bounce that MinionWorker has.
3. *WikiRevisions*: three-way conflicts, review candidates and their resolution,
   requested renames, release of retained backups (`wiki_revisions.py:7123`).
4. VaultSync: passes requested on a running service, against its handlers; several
   pages.
5. GBrainProjection: two workers, and liveness under bounded faults.
6. Proofs: what files and row may look like after a start-up that replayed occurrences
   (`RestartCatchesUp` fails then).

Parts that stay out are listed with their reasons in `PROJECT.json`.
