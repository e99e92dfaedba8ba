----------------------------- MODULE SourceSync -----------------------------
(***************************************************************************)
(* gbrain sync of one source: performSync and performSyncInner             *)
(* (commands/sync.ts) with its checkpoint (core/op-checkpoint.ts), the     *)
(* full sync with that of runImport (core/import-checkpoint.ts), and the   *)
(* failure ledger that gates the bookmark (core/sync-failure-ledger.ts).   *)
(* Several processes run it under the row lock of DbLock while the git     *)
(* work tree they read moves on underneath them.                           *)
(*                                                                         *)
(* A version of a file is the number of the commit that wrote it, 0 no     *)
(* file; page[q] is the version the brain has indexed for path q.  A run   *)
(* pins a commit, diffs the bookmark (sources.last_commit) against it, and *)
(* imports what the diff names from the work tree, which is that of HEAD.  *)
(***************************************************************************)
EXTENDS DbLock, Sequences, FiniteSets

CONSTANTS Paths,
          First,          \* the files of the first commit
          Threshold,      \* failed runs after which a file is skipped
          SkipFailed,     \* whether the runs are started with --skip-failed
          MaxCommits, MaxRewrites, MaxReverts, MaxDead, MaxFaults,   \* bounds
          Mixed,          \* bound: whether rare events of several kinds come together
          FullSaves,      \* whether a full import saves a checkpoint (from 100 files on)
          Paired(_, _)    \* the deleted and added files that git diff -M pairs up as renames

ASSUME SyncAssumption ==
    /\ First \subseteq Paths /\ Threshold \in Nat \ {0}
    /\ SkipFailed \in BOOLEAN
    /\ MaxCommits \in Nat \ {0} /\ MaxRewrites \in Nat /\ MaxReverts \in Nat
    /\ MaxDead \in Nat /\ MaxFaults \in Nat /\ Mixed \in BOOLEAN
    /\ FullSaves \in BOOLEAN

Commits == 1..MaxCommits
Versions == 0..MaxCommits

Gone(b, t) == {q \in Paths : b[q] # 0 /\ t[q] = 0}
New(b, t) == {q \in Paths : b[q] = 0 /\ t[q] # 0}

\* By likeness of contents, equal or not; a file is in one pair at most.
ASSUME PairedAssumption ==
    \A b, t \in [Paths -> Versions] :
        /\ Paired(b, t) \subseteq Gone(b, t) \X New(b, t)
        /\ \A m, n \in Paired(b, t) : m[1] = n[1] <=> m[2] = n[2]

VARIABLES tree,       \* the commits, each a map of paths to versions
          past,       \* the ancestors of each commit, itself included
          head,
          rewrites, reverts,
          bad,        \* the commits whose file does not parse
          page,       \* the index
          anchor,     \* last_commit, 0 for none
          ckpt,       \* op_checkpoints of the source, one pair of keys per bookmark
          fullDone,   \* import-checkpoint.json
          ledger,     \* sync-failures.jsonl
          run,        \* what the sync of each process has in memory
          faults,
          missed,     \* auxiliary: paths whose failure to be imported the code swallows
          leftover    \* auxiliary: paths whose page swallowed errors, or a death before the
                      \* reconcile of a full sync, may have left behind without a file

gitVars == <<tree, past, head, rewrites, reverts, bad>>
storeVars == <<page, anchor, ckpt, fullDone, ledger>>
auxVars == <<missed, leftover>>
syncVars == <<gitVars, storeVars, run, faults, auxVars>>
vars == <<lockVars, syncVars>>

Tree(c) == IF c = 0 THEN [q \in Paths |-> 0] ELSE tree[c]
Live == Tree(head)

Steps == {"idle", "save", "work", "moved", "list", "full", "advance", "finish", "reconcile",
          "over"}
Run == [step: Steps, base: Versions, pin: Versions,
        full: BOOLEAN,           \* performFullSync, or the incremental sync
        left: SUBSET Paths,      \* the paths the run has still to do
        at: SUBSET Paths,        \* the rename it is in
        pending: SUBSET Paths,   \* done and not yet in the checkpoint
        done: SUBSET Paths,      \* a full import's completed set
        ok: SUBSET Paths,        \* succeededPaths
        failed: SUBSET Paths,    \* failedFiles
        threw: BOOLEAN,          \* runImport's errors > 0
        skip: SUBSET Paths]      \* what the gate decided to skip after the advance

Idle == [step |-> "idle", base |-> 0, pin |-> 0, full |-> FALSE, left |-> {}, at |-> {},
         pending |-> {}, done |-> {}, ok |-> {}, failed |-> {}, threw |-> FALSE, skip |-> {}]
Over == [Idle EXCEPT !.step = "over"]

NoFailure == [n |-> 0, state |-> "none"]
Failure == [n: 0..Threshold, state: {"none", "open", "acknowledged", "auto_skipped"}]
NoCheckpoint == [target |-> 0, paths |-> {}]

TypeOK == /\ LockTypeOK
          /\ tree \in Seq([Paths -> Versions]) /\ Len(tree) \in Commits
          /\ past \in Seq(SUBSET Commits) /\ Len(past) = Len(tree)
          /\ head \in 1..Len(tree) /\ rewrites \in 0..MaxRewrites /\ reverts \in 0..MaxReverts
          /\ bad \subseteq Commits /\ page \in [Paths -> Versions] /\ anchor \in Versions
          /\ ckpt \in [Commits -> [target: Versions, paths: SUBSET Paths]]
          /\ \A p \in Procs : run[p].step # "idle" => Working(p)
          /\ fullDone \subseteq Paths /\ ledger \in [Paths -> Failure]
          /\ run \in [Procs -> Run] /\ faults \in 0..MaxFaults
          /\ missed \subseteq Paths /\ leftover \subseteq Paths

Init == /\ LockInit
        /\ tree = << [q \in Paths |-> IF q \in First THEN 1 ELSE 0] >>
        /\ past = << {1} >> /\ head = 1 /\ rewrites = 0 /\ reverts = 0 /\ bad = {}
        /\ page = [q \in Paths |-> 0] /\ anchor = 0
        /\ ckpt = [c \in Commits |-> NoCheckpoint] /\ fullDone = {}
        /\ ledger = [q \in Paths |-> NoFailure]
        /\ run = [p \in Procs |-> Idle] /\ faults = 0
        /\ missed = {} /\ leftover = {}

----------------------------------------------------------------------------
Ending == {p \in Procs : phase[p] \in {"leaving", "dead"}}

\* Bound: of what can go wrong, failures and deaths combine with each other, and with the
\* rest (a stall, a signal, a rewrite, a revert) only if Mixed; nor is anything committed
\* after a stall or a signal.
Rare == stalls + signals + rewrites + reverts
MayFail == Mixed \/ Rare = 0
MayTurn == Mixed \/ (Rare = 0 /\ faults = 0 /\ Ending = {})
MayCommit == Mixed \/ stalls + signals = 0

\* The repository: whoever commits to it, and the git pull of a run.

NextCommit == Len(tree) + 1

Commit(t) == /\ NextCommit \in Commits /\ MayCommit
             /\ tree' = Append(tree, t)
             /\ past' = Append(past, past[head] \cup {NextCommit})
             /\ head' = NextCommit
             /\ UNCHANGED <<lockVars, storeVars, run, faults, auxVars, rewrites>>

CommitEdit(q) == /\ Commit([Live EXCEPT ![q] = NextCommit])
                 /\ bad' \in {bad, bad \cup {NextCommit}}
                 /\ UNCHANGED reverts

CommitRemoval(q) == /\ Live[q] # 0
                    /\ Commit([Live EXCEPT ![q] = 0])
                    /\ UNCHANGED <<bad, reverts>>

\* Whether path q has had this version before, in the history of HEAD.
Returns(q, v) == \E c \in past[head] : tree[c][q] = v

CommitRename(f, t) == /\ Live[f] # 0 /\ Live[t] = 0 /\ ~Returns(t, Live[f])
                      /\ Commit([Live EXCEPT ![f] = 0, ![t] = Live[f]])
                      /\ UNCHANGED <<bad, reverts>>

\* An older content comes back.
CommitRevert(q, v) == /\ reverts < MaxReverts /\ MayTurn
                      /\ v \notin {0, Live[q]} /\ Returns(q, v)
                      /\ Commit([Live EXCEPT ![q] = v])
                      /\ reverts' = reverts + 1
                      /\ UNCHANGED bad

\* A reset or a force-push; what is committed next descends from c.
Rewrite(c) == /\ rewrites < MaxRewrites /\ MayTurn /\ c \in past[head] \ {head}
              /\ head' = c /\ rewrites' = rewrites + 1
              /\ UNCHANGED <<lockVars, storeVars, run, faults, auxVars, tree, past, bad, reverts>>

Git == \/ \E q \in Paths : \/ CommitEdit(q) \/ CommitRemoval(q)
                           \/ \E t \in Paths : CommitRename(q, t)
                           \/ \E c \in Commits : CommitRevert(q, c)
       \/ \E c \in Commits : Rewrite(c)

----------------------------------------------------------------------------
\* The manifest of a run, the endpoint diff of its base and its pin.

From(p) == Tree(run[p].base)
To(p) == Tree(run[p].pin)
Renames(b, t) == Paired(b, t)
Deletes(b, t) == Gone(b, t) \ {m[1] : m \in Renames(b, t)}
Imports(b, t) == {q \in Paths : b[q] # t[q]} \ (Gone(b, t) \cup {m[2] : m \in Renames(b, t)})
Manifest(b, t) ==
    Deletes(b, t) \cup {m[2] : m \in Renames(b, t)} \cup Imports(b, t)

\* Something on the way fails that a later try does not meet.
MayFault == faults < MaxFaults /\ MayFail
Fault == MayFault /\ faults' = faults + 1

Set(p, r) == run' = [run EXCEPT ![p] = r]

\* clearOpCheckpoint for both keys; its errors are swallowed, and a key it fails on is kept.
Clear(c) == \/ ckpt' = [ckpt EXCEPT ![c] = NoCheckpoint] /\ UNCHANGED faults
            \/ ckpt' = [ckpt EXCEPT ![c].target = 0] /\ Fault
            \/ ckpt' = [ckpt EXCEPT ![c].paths = {}] /\ Fault

\* markCompleted: the path is pending, and the batch may be due for a flush.
Mark(p, q, r) ==
    LET batch == r.pending \cup {q} IN
    \/ /\ Set(p, [r EXCEPT !.left = @ \ {q}, !.pending = batch])
       /\ UNCHANGED ckpt
    \/ /\ Set(p, [r EXCEPT !.left = @ \ {q}, !.pending = {}])
       /\ ckpt' = [ckpt EXCEPT ![r.base].paths = @ \cup batch]

\* A flush at the end of a run, which may fail.
FlushOrNot(p) == \/ ckpt' = [ckpt EXCEPT ![run[p].base].paths = @ \cup run[p].pending]
                 \/ UNCHANGED ckpt

----------------------------------------------------------------------------
\* performSyncInner up to the first import.  A bookmark nothing reaches any more may have
\* been garbage-collected, which makes the sync a full one, as does the lack of a bookmark.

Lock == UNCHANGED <<lockVars, auxVars>>

BeginFull(p) ==
    /\ phase[p] = "in" /\ run[p].step = "idle"
    /\ anchor = 0 \/ anchor \notin past[head]
    /\ Set(p, [Idle EXCEPT !.step = "list", !.pin = head, !.full = TRUE])
    /\ Lock /\ UNCHANGED <<gitVars, storeVars, faults>>

\* The checkpoint's target is resumed while HEAD still reaches it.
Resumable(c) == ckpt[c].target # 0 /\ ckpt[c].target \in past[head]
Abandoned(c) == ckpt[c].target # 0 /\ ~Resumable(c)

\* The incremental sync of the bookmark's tree to pin without the paths done before.
Start(p, pin, done) ==
    LET todo == Manifest(Tree(anchor), Tree(pin))
        r == [Idle EXCEPT !.base = anchor, !.pin = pin] IN
    /\ phase[p] = "in" /\ run[p].step = "idle"
    /\ Set(p, IF anchor = head THEN Over
              ELSE IF todo = {} THEN [r EXCEPT !.step = "advance"]
              ELSE [r EXCEPT !.step = "save", !.left = todo \ done])
    /\ UNCHANGED <<lockVars, gitVars, page, anchor, fullDone, ledger>>

\* The done paths of the checkpoint resumed against the present HEAD.
BeginUnpinned(p) ==
    /\ anchor # 0
    /\ Start(p, head, IF Resumable(anchor) THEN ckpt[anchor].paths ELSE {})
    /\ IF Abandoned(anchor) THEN Clear(anchor) ELSE UNCHANGED <<ckpt, faults>>
    /\ UNCHANGED auxVars

Begin(p) ==
    /\ anchor # 0
    /\ IF Resumable(anchor) THEN Start(p, ckpt[anchor].target, ckpt[anchor].paths)
       ELSE Start(p, head, {})
    /\ IF Abandoned(anchor) THEN Clear(anchor) ELSE UNCHANGED <<ckpt, faults>>
    /\ UNCHANGED auxVars

Unfiled(c) == {q \in Paths : Tree(c)[q] = 0 /\ page[q] # 0}

\* loadOpCheckpoint swallows its errors: the paths may be missing, or the target, so that
\* HEAD is pinned over what was done for an older pin.
BeginBlind(p) ==
    /\ anchor # 0 /\ Fault /\ UNCHANGED ckpt
    /\ \/ Resumable(anchor) /\ Start(p, ckpt[anchor].target, {}) /\ UNCHANGED auxVars
       \/ /\ ckpt[anchor].target \notin {0, head} /\ Start(p, head, {})
          /\ missed' = missed \cup {q \in ckpt[anchor].paths : page[q] # Live[q] /\ Live[q] # 0}
          /\ leftover' = leftover \cup Unfiled(head)

\* A diff that fails makes it a full sync of HEAD.  What it imports is in no pinned commit
\* until it has reconciled.
BeginFallback(p) ==
    /\ phase[p] = "in" /\ run[p].step = "idle" /\ anchor \notin {0, head} /\ Fault
    /\ ckpt' = IF Abandoned(anchor) THEN [ckpt EXCEPT ![anchor] = NoCheckpoint] ELSE ckpt
    /\ Set(p, [Idle EXCEPT !.step = "list", !.base = anchor, !.pin = head, !.full = TRUE])
    /\ leftover' = Paths
    /\ UNCHANGED <<lockVars, gitVars, page, anchor, fullDone, ledger, missed>>

\* recordCompleted of the pin; without it nothing is imported.
SavePin(p) ==
    /\ run[p].step = "save"
    /\ \/ /\ ckpt' = [ckpt EXCEPT ![run[p].base].target = run[p].pin]
          /\ Set(p, [run[p] EXCEPT !.step = "work"])
          /\ UNCHANGED faults
       \/ Fault /\ Set(p, Over) /\ UNCHANGED ckpt
    /\ Lock /\ UNCHANGED <<gitVars, page, anchor, fullDone, ledger>>

----------------------------------------------------------------------------
\* The deletes, then the renames, then the imports.

DeletesLeft(p) == run[p].left \cap Deletes(From(p), To(p))
RenamesLeft(p) == {m \in Renames(From(p), To(p)) : m[2] \in run[p].left}

\* The path marked completed whether or not its delete failed.
DeletePageAlways(p, q) ==
    /\ run[p].step = "work" /\ q \in DeletesLeft(p)
    /\ \/ page' = [page EXCEPT ![q] = 0] /\ UNCHANGED faults
       \/ Fault /\ UNCHANGED page
    /\ Mark(p, q, run[p])
    /\ Lock /\ UNCHANGED <<gitVars, anchor, fullDone, ledger>>

DeletePage(p, q) ==
    /\ run[p].step = "work" /\ q \in DeletesLeft(p)
    /\ \/ /\ page' = [page EXCEPT ![q] = 0]
          /\ Mark(p, q, run[p])
          /\ UNCHANGED faults
       \/ /\ Fault
          /\ Set(p, [run[p] EXCEPT !.left = @ \ {q}, !.failed = @ \cup {q}])
          /\ UNCHANGED <<page, ckpt>>
    /\ leftover' = IF page'[q] = 0 THEN leftover \ {q} ELSE leftover
    /\ UNCHANGED <<lockVars, gitVars, anchor, fullDone, ledger, missed>>

\* updateSlug.  Its errors, that the new slug is taken among them, are swallowed.
MoveSlug(p, m) ==
    /\ run[p].step = "work" /\ DeletesLeft(p) = {} /\ m \in RenamesLeft(p)
    /\ \/ /\ page' = IF page[m[2]] = 0 THEN [page EXCEPT ![m[1]] = 0, ![m[2]] = page[m[1]]]
                     ELSE page
          /\ UNCHANGED faults
       \/ Fault /\ UNCHANGED page
    /\ leftover' = IF page'[m[1]] = 0 THEN leftover \ {m[1]} ELSE leftover \cup {m[1]}
    /\ Set(p, [run[p] EXCEPT !.step = "moved", !.at = {m[2]}])
    /\ UNCHANGED <<lockVars, gitVars, anchor, ckpt, fullDone, ledger, missed>>

\* importFile of the new path, if it still exists.  An error it returns is not looked at;
\* one it throws ends the run.
ImportRenamed(p, q) ==
    /\ run[p].step = "moved" /\ q \in run[p].at
    /\ \/ /\ IF Live[q] # 0 /\ Live[q] \notin bad
             THEN page' = [page EXCEPT ![q] = Live[q]] /\ missed' = missed \ {q}
             ELSE page' = page /\ missed' = IF Live[q] = 0 THEN missed ELSE missed \cup {q}
          /\ Mark(p, q, [run[p] EXCEPT !.step = "work", !.at = {}])
          /\ UNCHANGED faults
       \/ Fault /\ Set(p, Over) /\ UNCHANGED <<page, ckpt, missed>>
    /\ UNCHANGED <<lockVars, gitVars, anchor, fullDone, ledger, leftover>>

\* A failed path marked completed like the others.
ImportOnePathMarked(p, q) ==
    LET r == run[p] IN
    /\ r.step = "work" /\ DeletesLeft(p) = {} /\ RenamesLeft(p) = {} /\ q \in r.left
    /\ \/ /\ Live[q] = 0
          /\ Mark(p, q, [r EXCEPT !.ok = @ \cup {q}])
          /\ UNCHANGED <<page, missed, faults>>
       \/ /\ Live[q] \in bad \/ (Live[q] # 0 /\ MayFault)
          /\ faults' = IF Live[q] \in bad THEN faults ELSE faults + 1
          /\ Mark(p, q, [r EXCEPT !.failed = @ \cup {q}])
          /\ UNCHANGED <<page, missed>>
       \/ /\ Live[q] # 0 /\ Live[q] \notin bad
          /\ page' = [page EXCEPT ![q] = Live[q]] /\ missed' = missed \ {q}
          /\ Mark(p, q, IF page[q] = Live[q] THEN r ELSE [r EXCEPT !.ok = @ \cup {q}])
          /\ UNCHANGED faults
    /\ UNCHANGED <<lockVars, gitVars, anchor, fullDone, ledger, leftover>>

\* importOnePath, of the file as it is now.
ImportOnePath(p, q) ==
    LET r == run[p] IN
    /\ r.step = "work" /\ DeletesLeft(p) = {} /\ RenamesLeft(p) = {} /\ q \in r.left
    /\ \/ /\ Live[q] = 0
          /\ Mark(p, q, [r EXCEPT !.ok = @ \cup {q}])
          /\ UNCHANGED <<page, missed, faults>>
       \/ /\ Live[q] \in bad \/ (Live[q] # 0 /\ MayFault)
          /\ faults' = IF Live[q] \in bad THEN faults ELSE faults + 1
          /\ Set(p, [r EXCEPT !.left = @ \ {q}, !.failed = @ \cup {q}])
          /\ UNCHANGED <<page, missed, ckpt>>
       \/ /\ Live[q] # 0 /\ Live[q] \notin bad
          /\ page' = [page EXCEPT ![q] = Live[q]] /\ missed' = missed \ {q}
          /\ Mark(p, q, IF page[q] = Live[q] THEN r ELSE [r EXCEPT !.ok = @ \cup {q}])
          /\ UNCHANGED faults
    /\ UNCHANGED <<lockVars, gitVars, anchor, fullDone, ledger, leftover>>

\* partial: a timeout, a stall, a checkpoint that cannot be written.
Partial(p) == /\ run[p].step = "work" /\ Fault
              /\ FlushOrNot(p)
              /\ Set(p, Over)
              /\ Lock /\ UNCHANGED <<gitVars, page, anchor, fullDone, ledger>>

----------------------------------------------------------------------------
\* _recordAndClear and decideGateAction.

AfterRunForgetful(resolved, failed) ==
    [q \in Paths |-> IF q \in failed THEN [n |-> 1, state |-> "open"]
                     ELSE IF q \in resolved THEN NoFailure ELSE ledger[q]]

AfterRun(resolved, failed) ==
    [q \in Paths |->
        LET l == IF q \in resolved THEN NoFailure ELSE ledger[q] IN
        IF q \notin failed THEN l
        ELSE IF l.state = "open"
             THEN [l EXCEPT !.n = IF @ < Threshold THEN @ + 1 ELSE @]
             ELSE [n |-> 1, state |-> "open"]]

Chronic(l, failed) == {q \in failed : l[q].n >= Threshold}

\* The gate: record, then either stop before the bookmark or go on to advance it.  skipFailed
\* acknowledges every open row after the advance, the threshold only those it has reached.
ApplyGate(p, resolved, reachable) ==
    LET failed == run[p].failed
        l == AfterRun(resolved, failed) IN
    /\ ledger' = l
    /\ \/ /\ ~reachable \/ (~SkipFailed /\ failed # Chronic(l, failed))
          /\ Set(p, Over)
       \/ /\ reachable /\ (SkipFailed \/ failed = Chronic(l, failed))
          /\ Set(p, [Idle EXCEPT !.step = "advance", !.base = run[p].base, !.pin = run[p].pin,
                        !.full = run[p].full,
                        !.skip = IF SkipFailed THEN {q \in Paths : l[q].state = "open"}
                                 ELSE failed])

\* The end of the imports: last flush, the pin-reachability check, the gate.
Gate(p) ==
    /\ run[p].step = "work" /\ run[p].left = {}
    /\ FlushOrNot(p)
    /\ ApplyGate(p, run[p].ok \cup Gone(From(p), To(p)), run[p].pin \in past[head])
    /\ Lock /\ UNCHANGED <<gitVars, page, anchor, fullDone, faults>>

\* writeSyncAnchor.
Advance(p) ==
    /\ run[p].step = "advance"
    /\ anchor' = run[p].pin
    /\ Set(p, [run[p] EXCEPT !.step = "finish"])
    /\ Lock /\ UNCHANGED <<gitVars, page, ckpt, fullDone, ledger, faults>>

\* The rest of advance, and what the gate does after it.
Finish(p) ==
    /\ run[p].step = "finish"
    /\ IF run[p].full THEN UNCHANGED <<ckpt, faults>> ELSE Clear(run[p].base)
    /\ ledger' = [q \in Paths |->
                     IF q \notin run[p].skip \/ ledger[q].state # "open" THEN ledger[q]
                     ELSE [ledger[q] EXCEPT !.state = IF SkipFailed THEN "acknowledged"
                                                      ELSE "auto_skipped"]]
    /\ Set(p, IF run[p].full THEN [run[p] EXCEPT !.step = "reconcile"] ELSE Over)
    /\ Lock /\ UNCHANGED <<gitVars, page, anchor, fullDone>>

----------------------------------------------------------------------------
\* performFullSync: runImport lists the work tree as it is by now, but for the files of the
\* import checkpoint, and imports every file.

ListFull(p) ==
    /\ run[p].step = "list"
    /\ Set(p, [run[p] EXCEPT !.step = "full", !.done = fullDone,
                             !.left = {q \in Paths : Live[q] # 0} \ fullDone])
    /\ Lock /\ UNCHANGED <<gitVars, storeVars, faults>>

ImportFull(p, q) ==
    LET r == run[p]
        finished == [r EXCEPT !.left = @ \ {q}, !.done = @ \cup {q}] IN
    /\ r.step = "full" /\ q \in r.left
    /\ \/ /\ Live[q] # 0 /\ Live[q] \notin bad
          /\ page' = [page EXCEPT ![q] = Live[q]] /\ missed' = missed \ {q}
          /\ Set(p, finished)
          /\ fullDone' \in {fullDone} \cup (IF FullSaves THEN {finished.done} ELSE {})
          /\ UNCHANGED faults
       \/ /\ Live[q] \in bad
          /\ Set(p, [r EXCEPT !.left = @ \ {q}, !.failed = @ \cup {q}])
          /\ UNCHANGED <<page, missed, fullDone, faults>>
       \/ /\ Live[q] = 0 \/ (MayFault)
          /\ faults' = IF Live[q] = 0 THEN faults ELSE faults + 1
          /\ Set(p, [r EXCEPT !.left = @ \ {q}, !.failed = @ \cup {q}, !.threw = TRUE])
          /\ UNCHANGED <<page, missed, fullDone>>
    /\ UNCHANGED <<lockVars, gitVars, anchor, ckpt, ledger, leftover>>

\* The import checkpoint goes when nothing was thrown; the gate resolves every other row.
GateFull(p) ==
    /\ run[p].step = "full" /\ run[p].left = {}
    /\ fullDone' = IF run[p].threw THEN fullDone ELSE {}
    /\ ApplyGate(p, Paths \ run[p].failed, TRUE)
    /\ Lock /\ UNCHANGED <<gitVars, page, anchor, ckpt, faults>>

\* The pages whose file is gone are deleted, as far as that works.  A file that was listed
\* but is not in the pinned commit keeps its page, and no diff may ever name it.
Reconcile(p) ==
    /\ run[p].step = "reconcile"
    /\ \/ page' = [q \in Paths |-> IF Live[q] = 0 THEN 0 ELSE page[q]] /\ UNCHANGED faults
       \/ UNCHANGED page /\ Fault
    /\ leftover' = {q \in Paths : To(p)[q] = 0 /\ page'[q] # 0}
    /\ Set(p, Over)
    /\ UNCHANGED <<lockVars, gitVars, anchor, ckpt, fullDone, ledger, missed>>

Advanced(p) == run[p].full /\ run[p].step \in {"finish", "reconcile"}

----------------------------------------------------------------------------
\* The lock around it.

Keep == UNCHANGED syncVars

\* The lock given back before the bookmark is written.
ReleaseRunEarly(p) ==
    /\ run[p].step \in {"over", "advance"} /\ Release(p)
    /\ IF run[p].step = "over" THEN Set(p, Idle) ELSE UNCHANGED run
    /\ UNCHANGED <<gitVars, storeVars, faults, auxVars>>

ReleaseRun(p) == /\ run[p].step = "over" /\ Release(p)
                 /\ Set(p, Idle)
                 /\ (row' = RowWithout(p) /\ UNCHANGED faults) \/ Fault
                 /\ UNCHANGED <<gitVars, storeVars, auxVars>>

MayEnd(p) == p \in Ending \/ (Cardinality(Ending) < MaxDead /\ MayFail)

\* The cleanup of a signal also appends what is pending, once, while the imports run.
TerminateRun(p) ==
    /\ Cardinality(Ending) < MaxDead /\ MayTurn /\ Terminate(p)
    /\ IF run[p].step \in {"work", "moved"} THEN FlushOrNot(p) ELSE UNCHANGED ckpt
    /\ UNCHANGED <<gitVars, page, anchor, fullDone, ledger, run, faults, auxVars>>

ExitRun(p) == /\ MayEnd(p) /\ Exit(p)
              /\ leftover' = IF Advanced(p) THEN leftover \cup Unfiled(run[p].pin) ELSE leftover
              /\ Set(p, Idle)
              /\ UNCHANGED <<gitVars, storeVars, faults, missed>>

Work(p) == \/ BeginFull(p) \/ ListFull(p) \/ Begin(p) \/ SavePin(p) \/ Gate(p) \/ Advance(p)
           \/ Finish(p) \/ GateFull(p) \/ Reconcile(p) \/ ReleaseRun(p)
           \/ \E q \in Paths : \/ DeletePage(p, q) \/ ImportRenamed(p, q)
                               \/ ImportOnePath(p, q) \/ ImportFull(p, q)
           \/ \E m \in Paths \X Paths : MoveSlug(p, m)

LockStep == \/ \E p \in Procs : \/ Acquire(p) \/ FindDead(p) \/ DeleteLockRow(p)
                                \/ Refresh(p) \/ Reap(p)
            \/ GrowOld \/ (Lapse /\ (Refreshed => MayTurn))

Next == \/ Git
        \/ LockStep /\ Keep
        \/ \E p \in Procs : \/ Work(p) \/ BeginBlind(p) \/ BeginFallback(p) \/ Partial(p)
                            \/ ExitRun(p) \/ TerminateRun(p)

Spec == Init /\ [][Next]_vars

\* A process that runs goes on, somebody tries to sync again (cron, autopilot), time passes,
\* and a process told to terminate exits.
Fairness == /\ \A p \in Procs : /\ WF_vars(Work(p))
                                /\ WF_vars(phase[p] = "leaving" /\ ExitRun(p))
                                /\ WF_vars(DeleteLockRow(p) /\ Keep)
            /\ WF_vars((\E p \in Procs : Acquire(p)) /\ Keep)
            /\ WF_vars(~Refreshed /\ Lapse /\ Keep)
FairSpec == Spec /\ Fairness

----------------------------------------------------------------------------
Recorded(q) == ledger[q].state \in {"open", "acknowledged", "auto_skipped"}

\* What the bookmark stands for: a file of its tree is indexed as that tree has it, or the
\* next diff names it, or the ledger holds it as failed.
Accounted(q) == \/ Tree(anchor)[q] = 0
                \/ page[q] = Tree(anchor)[q]
                \/ Live[q] # Tree(anchor)[q]
                \/ Recorded(q)
Honest == \A q \in Paths : Accounted(q) \/ q \in missed

InTurn == stalls = 0 /\ signals = 0 /\ rewrites = 0
Orderly == InTurn /\ reverts = 0

\* The gate and the pin (sync.ts:2118, :2718): whatever is committed while a run imports from
\* the work tree, and wherever runs fail, die and resume, the bookmark never passes a file
\* that is neither indexed, nor in the next diff, nor in the ledger; but for the paths whose
\* failure the code swallows, until they are imported (a rename's import, sync.ts:2310, and
\* paths done for another pin, op-checkpoint.ts:160).  Needs that no content comes back, see
\* ForwardIsHonest.
BookmarkIsHonest == Orderly /\ anchor # 0 => Honest

\* sync.ts:2334: "Bug 9: per-file failures captured in `failedFiles` so the caller can gate
\* `sync.last_commit` advancement and record recoverable errors."
FailuresAreRecorded == Orderly /\ anchor # 0 => \A q \in Paths : Accounted(q)

\* sync.ts:2673: "HEAD is descendant of pin (forward progress) -> SAFE.  The new commits are
\* outside this run's range and get picked up by the next sync's pin..HEAD diff."
ForwardIsHonest == InTurn /\ anchor # 0 => Honest

\* A page whose file the bookmark's tree has not is about to get one or to be deleted: it has
\* one in the pinned commit, or its delete is in the ledger; but for the paths of leftover.
NoGhosts ==
    Orderly /\ anchor # 0 /\ (\A p \in Procs : ~Advanced(p)) =>
        \A q \in Paths \ leftover :
            Tree(anchor)[q] = 0 /\ page[q] # 0 =>
                Tree(ckpt[anchor].target)[q] # 0 \/ Recorded(q)

\* Resumable sync (sync.ts:1737): a path the checkpoint lists as done is indexed as the pinned
\* commit has it, or the work tree has moved on, so that the diff after the pin names it; but
\* for a file that is missed and a page that is leftover, as above.
CheckpointIsHonest ==
    Orderly /\ anchor # 0 /\ ckpt[anchor].target # 0 =>
        LET t == Tree(ckpt[anchor].target) IN
        \A q \in ckpt[anchor].paths :
            page[q] = t[q] \/ Live[q] # t[q] \/ q \in (IF t[q] = 0 THEN leftover ELSE missed)

\* What the lock of performSync is for (sync.ts:1136): two syncs never race on the bookmark
\* so that the last writer takes it back to an older commit.
BookmarkNeverRegresses == [][Orderly /\ anchor # 0 => anchor \in past'[anchor']]_vars

\* Once commits, faults and rewrites have come to an end, the bookmark reaches HEAD for good:
\* poison files are skipped after Threshold runs, locks of the dead are taken over, and a
\* checkpoint of an abandoned history is dropped.
CatchesUp == <>[](anchor = head)
=============================================================================
