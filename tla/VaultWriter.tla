----------------------------- MODULE VaultWriter -----------------------------
(***************************************************************************)
(* Writing one wiki page into the vault (app/vault_writer.py) while an     *)
(* editor works on the same file.                                          *)
(*                                                                         *)
(* A change of the page is a revision and a write intent, prepared in one  *)
(* transaction (app/wiki_revisions.py).  An executor then captures the     *)
(* file there is, links the new one into its place, and finalizes, leaving *)
(* a trail of phases behind so that another executor can recover the       *)
(* intent whatever happened in between.                                    *)
(*                                                                         *)
(* Files are hard links: disk maps names to inodes, data maps inodes to    *)
(* contents.  Revision number r is rendered to the content r; what the     *)
(* editor types is a member of Edits.  One file system call, or one        *)
(* transaction, is one step; fsync is left out.                            *)
(***************************************************************************)
EXTENDS Integers, Sequences, FiniteSets

CONSTANTS
  Executors,    \* intent executors, each with an owner id of its own
  NoOwner,      \* executor_owner NULL
  Gone,         \* the id of any executor that is no more
  Edits,        \* contents typed in the editor
  Unreadable,   \* those of them that do not parse as a wiki page
  Missing,      \* no content
  Torn,         \* what a file holds whose writing was cut short
  EditorWays,   \* how the editor saves: "replace", "restore", "remove", "handle"
  FirstPages,   \* what the page is at first: "file", "legacy", "none"
  Monitored,    \* whether reconcile_retained_backups is called
  MaxPrepares,  \* bound: intents prepared other than by recovery
  MaxEdits,     \* bound: changes by the editor
  MaxCrashes,   \* bound: executor crashes
  MaxLapses     \* bound: leases that lapse while their owner is at work

ASSUME VaultWriterAssumption ==
  /\ {NoOwner, Gone} \cap Executors = {} /\ NoOwner # Gone
  /\ Unreadable \subseteq Edits
  /\ Missing \notin Nat \cup Edits /\ Torn \notin Edits \cup {Missing}
  /\ EditorWays \subseteq {"replace", "restore", "remove", "handle"}
  /\ FirstPages \subseteq {"file", "legacy", "none"}
  /\ "legacy" \in FirstPages => Edits \ Unreadable # {}
  /\ Monitored \in BOOLEAN
  /\ MaxPrepares \in Nat /\ MaxEdits \in Nat /\ MaxCrashes \in Nat /\ MaxLapses \in Nat

VARIABLES
  current,  \* wiki_pages.current_revision_id, or None
  pending,  \* wiki_pages.pending_write_intent_id, or None
  life,     \* wiki_pages.lifecycle_status; "absent" without a row
  newest,   \* wiki_pages.revision_number: revisions are numbered from 0
  intents,  \* vault_write_intents, in the order of their creation
  recorded, \* editor's contents in the database: observations, legacy revisions
  disk,     \* the inode under each name
  data,     \* the content of each inode
  handle,   \* the inode the editor holds open
  disowned, \* history: inodes the editor took from the page's path itself
  run,      \* what each executor is doing
  edits,    \* changes by the editor so far
  prepares, \* intents prepared so far, other than by recovery
  crashes,  \* crashes so far
  lapses    \* leases lapsed under a running owner so far

dbVars == <<current, pending, life, newest, intents, recorded>>
fileVars == <<disk, data, handle, disowned>>
counters == <<edits, prepares, crashes, lapses>>
vars == <<dbVars, fileVars, run, counters>>

-----------------------------------------------------------------------------
(* Names, inodes and contents.                                             *)
None == -1
NoFile == 0
MaxIntents == MaxPrepares + MaxEdits
Inodes == 1 .. MaxIntents + MaxEdits + 1

Target == <<"target", 0>>
Backup(i) == <<"backup", i>>
Claim(i) == <<"claim", i>>
Staged(i) == <<"staged", i>>
Names == {Target} \cup ({"backup", "claim", "staged"} \X (1 .. MaxIntents))

Linked(d) == {d[n] : n \in Names} \ {NoFile}
Content(n) == IF disk[n] = NoFile THEN Missing ELSE data[disk[n]]
Free == Inodes \ (Linked(disk) \cup {handle})
FreshInode == CHOOSE n \in Free : TRUE

(* The files become d and c; an inode without a name or handle is gone.    *)
Files(d, c, given) ==
  /\ disk' = d
  /\ disowned' = (disowned \cup given) \cap Linked(d)
  /\ data' = [n \in Inodes |-> IF n \in Linked(d) \cup {handle'} THEN c[n] ELSE Missing]

SetFiles(d, c) == Files(d, c, {})

LinkedTo(name, inode) == UNCHANGED handle /\ SetFiles([disk EXCEPT ![name] = inode], data)

-----------------------------------------------------------------------------
(* Intents and runs.                                                       *)
OpenStatuses == {"pending", "captured", "installed", "recovery_required"}
Statuses == OpenStatuses \cup {"applied", "failed", "superseded"}
Contents == Nat \cup Edits \cup {Torn}
NoReview == [cand |-> None, target |-> Missing, backup |-> Missing]

NewIntent(rev, expected) ==
  [status |-> "pending", rev |-> rev, base |-> current, expected |-> expected,
   owner |-> NoOwner, lapsed |-> FALSE, captured |-> Missing, baseline |-> Missing,
   review |-> NoReview]

Released(w) == [w EXCEPT !.owner = NoOwner, !.lapsed = FALSE]
IsOpen(i) == intents[i].status \in OpenStatuses
Holds(e, i) == IsOpen(i) /\ intents[i].owner = e

NothingSeen == [target |-> Missing, backup |-> Missing, staged |-> Missing,
                claim |-> Missing]
Idle == [at |-> "idle", i |-> None, seen |-> NothingSeen]
Steps == {"idle", "lock", "observe", "recover", "capture", "link", "grab",
          "settle", "record", "install", "stage", "write", "place", "advance",
          "finalize", "fail"}

(* Types: the page points at an intent that exists, and every name at a    *)
(* file that exists.                                                       *)
TypeOK ==
  /\ current \in Nat \cup {None}
  /\ pending \in DOMAIN intents \cup {None}
  /\ life \in {"absent", "active", "invalid"}
  /\ newest \in Nat
  /\ \A i \in DOMAIN intents :
       /\ intents[i].status \in Statuses
       /\ intents[i].rev \in Nat
       /\ intents[i].base \in Nat \cup {None}
       /\ intents[i].owner \in Executors \cup {NoOwner, Gone}
       /\ {intents[i].expected, intents[i].captured, intents[i].baseline}
            \subseteq Contents \cup {Missing}
  /\ recorded \subseteq Contents
  /\ disk \in [Names -> Inodes \cup {NoFile}]
  /\ data \in [Inodes -> Contents \cup {Missing}]
  /\ \A n \in Linked(disk) : data[n] # Missing
  /\ handle \in Inodes \cup {NoFile}
  /\ disowned \subseteq Inodes
  /\ \A e \in Executors :
       /\ run[e].at \in Steps
       /\ run[e].i \in DOMAIN intents \cup {None}

(* A page with a revision and its file; a file the service has not taken   *)
(* over yet; or a page that does not exist so far.                         *)
Init ==
  /\ \E first \in FirstPages :
       LET body == IF first = "legacy" THEN CHOOSE x \in Edits \ Unreadable : TRUE ELSE 0
       IN  /\ current = IF first = "file" THEN 0 ELSE None
           /\ life = IF first = "none" THEN "absent" ELSE "active"
           /\ disk = [n \in Names |-> IF n = Target /\ first # "none" THEN 1 ELSE NoFile]
           /\ data = [n \in Inodes |-> IF n = 1 /\ first # "none" THEN body ELSE Missing]
  /\ pending = None
  /\ newest = 0
  /\ intents = <<>>
  /\ recorded = {}
  /\ handle = NoFile
  /\ disowned = {}
  /\ run = [e \in Executors |-> Idle]
  /\ edits = 0 /\ prepares = 0 /\ crashes = 0 /\ lapses = 0

-----------------------------------------------------------------------------
(* The editor.  It replaces the file, with bytes of its own or with those  *)
(* of a revision (a save without a change, an undo, a sync tool), removes  *)
(* it, or writes into a file it opened before, however long ago.           *)
Edited(way) ==
  /\ way \in EditorWays
  /\ edits < MaxEdits
  /\ edits' = edits + 1
  /\ UNCHANGED <<dbVars, run, prepares, crashes, lapses>>

Replace(x) ==
  /\ Edited(IF x \in Edits \ {Content(Target)} THEN "replace" ELSE "restore")
  /\ Free # {}
  /\ UNCHANGED handle
  /\ Files([disk EXCEPT ![Target] = FreshInode], [data EXCEPT ![FreshInode] = x],
           {disk[Target]})

Remove ==
  /\ Edited("remove")
  /\ disk[Target] # NoFile
  /\ UNCHANGED handle
  /\ Files([disk EXCEPT ![Target] = NoFile], data, {disk[Target]})

WriteInPlace(x) ==
  /\ Edited("handle")
  /\ handle # NoFile
  /\ data[handle] # x
  /\ UNCHANGED handle
  /\ SetFiles(disk, [data EXCEPT ![handle] = x])

OpenFile ==
  /\ "handle" \in EditorWays /\ edits < MaxEdits
  /\ disk[Target] \notin {NoFile, handle}
  /\ handle' = disk[Target]
  /\ SetFiles(disk, data)
  /\ UNCHANGED <<dbVars, run, counters>>

Editor ==
  \/ \E x \in Edits \cup 0 .. newest : Replace(x)
  \/ Remove
  \/ \E x \in Edits : WriteInPlace(x)
  \/ OpenFile

-----------------------------------------------------------------------------
(* Transactions that prepare an intent: the revision, the intent and the   *)
(* page's pointer to it together, never beside another open intent.        *)
Prepare(expected) ==
  /\ pending = None
  /\ prepares < MaxPrepares /\ Len(intents) < MaxIntents
  /\ prepares' = prepares + 1
  /\ newest' = newest + 1
  /\ intents' = Append(intents, NewIntent(newest', expected))
  /\ pending' = Len(intents) + 1
  /\ UNCHANGED <<current, fileVars, run, edits, crashes, lapses>>

(* A manual save, a status change: upon the current revision's bytes.      *)
PrepareEdit == current # None /\ Prepare(current) /\ UNCHANGED <<life, recorded>>

(* The first compilation of a page, whose row it makes.                    *)
PrepareNew ==
  /\ life = "absent"
  /\ disk[Target] = NoFile
  /\ Prepare(Missing)
  /\ life' = "active"
  /\ UNCHANGED recorded

(* get_page takes over a file that has no revision.                        *)
PrepareLegacy ==
  /\ current = None /\ life # "absent"
  /\ Content(Target) \notin Unreadable \cup {Missing}
  /\ Prepare(Content(Target))
  /\ recorded' = recorded \cup {Content(Target)}
  /\ UNCHANGED life

(* The watcher's observation of changed bytes: stored first, then adopted  *)
(* by an intent, or the page is invalid.                                   *)
Ingest ==
  LET x == Content(Target)
  IN  /\ current # None /\ pending = None
      /\ x # Missing
      /\ x # current \/ life # "active"
      /\ recorded' = recorded \cup {x}
      /\ IF x \in Unreadable
         THEN /\ life' = "invalid"
              /\ UNCHANGED <<current, pending, newest, intents, fileVars, run, counters>>
         ELSE Prepare(x) /\ UNCHANGED life

-----------------------------------------------------------------------------
(* Executors.  claim, then the operating system lock of the intent, then   *)
(* the phase the intent was left in.                                       *)
At(e, step) == run[e].at = step
Goto(e, step) == run' = [run EXCEPT ![e].at = step]
Leave(e) == run' = [run EXCEPT ![e] = Idle]
Got(e, x) == run' = [run EXCEPT ![e].at = "record", ![e].seen.backup = x]

ClaimIntent(e, i) ==
  /\ At(e, "idle")
  /\ IsOpen(i)
  /\ intents[i].owner \in {NoOwner, e} \/ intents[i].lapsed
  /\ intents' = [intents EXCEPT ![i].owner = e, ![i].lapsed = FALSE]
  /\ run' = [run EXCEPT ![e] = [Idle EXCEPT !.at = "lock", !.i = i]]
  /\ UNCHANGED <<current, pending, life, newest, recorded, fileVars, counters>>

(* Mutant: the lease is trusted alone.                                     *)
NeverLocked(e) == FALSE

LockTaken(e) ==
  \E f \in Executors \ {e} : run[f].i = run[e].i /\ run[f].at \notin {"idle", "lock"}

FirstStep(status) ==
  CASE status = "pending" -> "capture"
    [] status = "captured" -> "install"
    [] status = "installed" -> "finalize"
    [] status = "recovery_required" -> "observe"

Lock(e) ==
  /\ At(e, "lock")
  /\ IF LockTaken(e) \/ ~Holds(e, run[e].i) THEN Leave(e)
     ELSE Goto(e, FirstStep(intents[run[e].i].status))
  /\ UNCHANGED <<dbVars, fileVars, counters>>

(* _require_lease, or the owner in a transaction's WHERE clause: without   *)
(* the lease the run is over, with it it is renewed.                       *)
Leased == {"observe", "recover", "capture", "record", "install", "stage",
           "advance", "finalize", "fail"}

LoseLease(e) ==
  /\ run[e].at \in Leased
  /\ ~Holds(e, run[e].i)
  /\ Leave(e)
  /\ UNCHANGED <<dbVars, fileVars, counters>>

Renewing(e, step) ==
  /\ At(e, step)
  /\ Holds(e, run[e].i)
  /\ intents' = [intents EXCEPT ![run[e].i].lapsed = FALSE]
  /\ UNCHANGED <<current, pending, life, newest, recorded, counters>>

-----------------------------------------------------------------------------
(* capture: give the file a second name, move it out of the way under a    *)
(* third one, and look whether the two are the same file.                  *)
Capture(e) ==
  LET i == run[e].i
      t == disk[Target]  b == disk[Backup(i)]  c == disk[Claim(i)]
      wanted == intents[i].expected
      stray == c # NoFile /\ c \notin {b, t}
      changed == b # NoFile /\ wanted # Missing /\ data[b] # wanted
  IN  /\ Renewing(e, "capture")
      /\ \/ stray /\ Goto(e, "fail")
            /\ IF t = NoFile THEN LinkedTo(Target, c) ELSE UNCHANGED fileVars
         \/ ~stray /\ changed /\ Goto(e, "fail") /\ UNCHANGED fileVars
         \/ ~stray /\ ~changed /\ b # NoFile /\ b # t /\ Got(e, data[b])
            /\ IF t = NoFile /\ c = b
               THEN LinkedTo(Claim(i), NoFile) ELSE UNCHANGED fileVars
         \/ b = NoFile /\ ~stray /\ t = NoFile /\ UNCHANGED fileVars
            /\ IF wanted = Missing THEN Got(e, Missing) ELSE Goto(e, "fail")
         \/ ~stray /\ ~changed /\ t # NoFile /\ b \in {NoFile, t}
            /\ Goto(e, "link") /\ UNCHANGED fileVars

LinkBackup(e) ==
  LET i == run[e].i
  IN  /\ At(e, "link")
      /\ IF disk[Backup(i)] = NoFile
         THEN LinkedTo(Backup(i), disk[Target]) ELSE UNCHANGED fileVars
      /\ Goto(e, IF disk[Target] = NoFile \/ disk[Claim(i)] # NoFile
                 THEN "fail" ELSE "grab")
      /\ UNCHANGED <<dbVars, counters>>

(* os.rename of the target to the claim.                                   *)
Grab(e) ==
  /\ At(e, "grab")
  /\ \/ disk[Target] = NoFile /\ Goto(e, "fail") /\ UNCHANGED fileVars
     \/ /\ disk[Target] # NoFile
        /\ Goto(e, "settle")
        /\ UNCHANGED handle
        /\ SetFiles([disk EXCEPT ![Target] = NoFile, ![Claim(run[e].i)] = disk[Target]],
                    data)
  /\ UNCHANGED <<dbVars, counters>>

(* Mutant: the bytes of the backup are not compared.                       *)
SettleUnchecked(e) ==
  LET i == run[e].i
      t == disk[Target]  b == disk[Backup(i)]  c == disk[Claim(i)]
  IN  /\ At(e, "settle")
      /\ \/ c # b /\ Goto(e, "fail")
            /\ IF t = NoFile THEN LinkedTo(Target, c) ELSE UNCHANGED fileVars
         \/ c = b /\ t # NoFile /\ Goto(e, "fail") /\ UNCHANGED fileVars
         \/ c = b /\ t = NoFile /\ LinkedTo(Claim(i), NoFile) /\ Got(e, data[b])
      /\ UNCHANGED <<dbVars, counters>>

(* Another file than the backup: put it back.  The same file: keep the     *)
(* backup's name, and its bytes are what was expected or the run fails.    *)
Settle(e) ==
  LET i == run[e].i
      t == disk[Target]  b == disk[Backup(i)]  c == disk[Claim(i)]
  IN  /\ At(e, "settle")
      /\ \/ c # b /\ Goto(e, "fail")
            /\ IF t = NoFile THEN LinkedTo(Target, c) ELSE UNCHANGED fileVars
         \/ c = b /\ t # NoFile /\ Goto(e, "fail") /\ UNCHANGED fileVars
         \/ c = b /\ t = NoFile /\ LinkedTo(Claim(i), NoFile)
            /\ IF data[b] = intents[i].expected THEN Got(e, data[b]) ELSE Goto(e, "fail")
      /\ UNCHANGED <<dbVars, counters>>

(* The transaction that ends a phase, and renews the lease.                *)
Phase(e, step, next, status, captured) ==
  /\ At(e, step)
  /\ Holds(e, run[e].i)
  /\ intents' = [intents EXCEPT ![run[e].i].lapsed = FALSE, ![run[e].i].status = status,
                                ![run[e].i].captured = captured]
  /\ Goto(e, next)
  /\ UNCHANGED <<current, pending, life, newest, recorded, fileVars, counters>>

RecordCaptured(e) == Phase(e, "record", "install", "captured", run[e].seen.backup)

-----------------------------------------------------------------------------
(* install: write the new file aside and link it, if nothing is there.     *)
Install(e) ==
  /\ Renewing(e, "install")
  /\ Goto(e, CASE disk[Target] = NoFile -> "stage"
               [] Content(Target) = intents[run[e].i].rev -> "advance"
               [] OTHER -> "fail")
  /\ UNCHANGED fileVars

Stage(e) ==
  LET i == run[e].i
  IN  /\ Renewing(e, "stage")
      /\ \/ /\ disk[Staged(i)] = NoFile /\ Free # {}
            /\ UNCHANGED handle
            /\ SetFiles([disk EXCEPT ![Staged(i)] = FreshInode],
                        [data EXCEPT ![FreshInode] = Torn])
            /\ Goto(e, "write")
         \/ /\ disk[Staged(i)] # NoFile
            /\ UNCHANGED fileVars
            /\ Goto(e, IF Content(Staged(i)) = intents[i].rev THEN "place" ELSE "fail")

(* _fsync_file writes into the file it has just created.                   *)
Write(e) ==
  LET i == run[e].i
  IN  /\ At(e, "write")
      /\ UNCHANGED handle
      /\ SetFiles(disk, [data EXCEPT ![disk[Staged(i)]] = intents[i].rev])
      /\ Goto(e, "place")
      /\ UNCHANGED <<dbVars, counters>>

(* Mutant: os.replace instead of os.link.                                  *)
PlaceOver(e) ==
  LET i == run[e].i
  IN  /\ At(e, "place")
      /\ LinkedTo(Target, disk[Staged(i)])
      /\ Goto(e, IF Content(Staged(i)) = intents[i].rev THEN "advance" ELSE "fail")
      /\ UNCHANGED <<dbVars, counters>>

Place(e) ==
  LET i == run[e].i
  IN  /\ At(e, "place")
      /\ \/ disk[Target] # NoFile /\ Goto(e, "fail") /\ UNCHANGED fileVars
         \/ /\ disk[Target] = NoFile
            /\ LinkedTo(Target, disk[Staged(i)])
            /\ Goto(e, IF Content(Staged(i)) = intents[i].rev THEN "advance" ELSE "fail")
      /\ UNCHANGED <<dbVars, counters>>

(* captured to installed; or, in recovery, straight to installed.          *)
Advance(e) ==
  LET w == intents[run[e].i]
  IN  Phase(e, "advance", "finalize", "installed",
            IF w.status = "captured" THEN w.captured ELSE run[e].seen.backup)

(* finalize_intent: the page moves to the revision that lies at its path.  *)
Finalize(e) ==
  LET i == run[e].i
      ready == /\ Content(Target) = intents[i].rev
               /\ pending = i /\ current = intents[i].base
  IN  /\ At(e, "finalize")
      /\ Holds(e, i)
      /\ \/ /\ ready
            /\ current' = intents[i].rev
            /\ pending' = None
            /\ life' = "active"
            /\ intents' = [intents EXCEPT
                             ![i] = [Released(@) EXCEPT !.status = "applied",
                                                        !.baseline = intents[i].captured]]
            /\ Leave(e)
         \/ ~ready /\ Goto(e, "fail") /\ UNCHANGED <<current, pending, life, intents>>
      /\ UNCHANGED <<newest, recorded, fileVars, counters>>

(* _mark_recovery.  The owner is kept: the next claim waits for the lease. *)
MarkRecovery(e) ==
  /\ At(e, "fail")
  /\ Holds(e, run[e].i)
  /\ intents' = [intents EXCEPT ![run[e].i].status = "recovery_required"]
  /\ Leave(e)
  /\ UNCHANGED <<current, pending, life, newest, recorded, fileVars, counters>>

-----------------------------------------------------------------------------
(* _reconcile_recovery: look at the four files, then act on what was seen. *)
Observe(e) ==
  LET i == run[e].i
      duplicate == disk[Claim(i)] \in {disk[Target], disk[Backup(i)]}
  IN  /\ Renewing(e, "observe")
      /\ run' = [run EXCEPT
                   ![e].at = "recover",
                   ![e].seen = [target |-> Content(Target),
                                backup |-> Content(Backup(i)),
                                staged |-> Content(Staged(i)),
                                claim |-> IF duplicate THEN Missing ELSE Content(Claim(i))]]
      /\ UNCHANGED fileVars

Unknown(i, x) == x \notin {Missing, intents[i].rev, intents[i].expected}
UnknownStaged(i, x) == x \notin {Missing, intents[i].rev}

(* Mutant: nobody looks into the backup.                                   *)
UnknownOutsideBackup(i, seen) ==
  {x \in {seen.target, seen.claim} : Unknown(i, x)}
    \cup {x \in {seen.staged} : UnknownStaged(i, x)}

UnknownSeen(i, seen) ==
  {x \in {seen.target, seen.backup, seen.claim} : Unknown(i, x)}
    \cup {x \in {seen.staged} : UnknownStaged(i, x)}

(* The new file is there, or its bytes are in the backup: install it.      *)
RecoverIntended(e) ==
  LET i == run[e].i  seen == run[e].seen
  IN  /\ Renewing(e, "recover")
      /\ UnknownSeen(i, seen) = {}
      /\ \/ /\ seen.target = intents[i].rev
            /\ Goto(e, IF Content(Target) = intents[i].rev THEN "advance" ELSE "fail")
         \/ /\ seen.target = Missing /\ seen.backup = intents[i].rev
            /\ Goto(e, "stage")
      /\ UNCHANGED fileVars

(* Nothing unknown: go on with the capture, if there is anything left.     *)
RecoverExpected(e) ==
  LET i == run[e].i  seen == run[e].seen
  IN  /\ Renewing(e, "recover")
      /\ UnknownSeen(i, seen) = {}
      /\ seen.target # intents[i].rev
      /\ seen.target # Missing \/ seen.backup \notin {Missing, intents[i].rev}
      /\ Goto(e, "capture")
      /\ UNCHANGED fileVars

(* fail_missing_recovery                                                   *)
RecoverMissing(e) ==
  LET i == run[e].i  seen == run[e].seen
  IN  /\ At(e, "recover")
      /\ Holds(e, i)
      /\ UnknownSeen(i, seen) = {}
      /\ seen.target = Missing /\ seen.backup = Missing
      /\ life' = "invalid"
      /\ pending' = None
      /\ intents' = [intents EXCEPT ![i] = [Released(@) EXCEPT !.status = "failed"]]
      /\ Leave(e)
      /\ UNCHANGED <<current, newest, recorded, fileVars, counters>>

(* Mutants: the predecessor stays open; the successor is not stored.       *)
HandOffKeepingOpen(i, rev, expected) ==
  /\ Len(intents) < MaxIntents
  /\ intents' = Append([intents EXCEPT ![i] = Released(@)], NewIntent(rev, expected))
  /\ pending' = Len(intents) + 1

(* _prepare_recovery_successor_locked: the pointer goes from one intent to *)
(* the next, in one transaction.                                           *)
HandOff(i, rev, expected) ==
  /\ Len(intents) < MaxIntents
  /\ intents' = Append([intents EXCEPT ![i] = [Released(@) EXCEPT !.status = "superseded"]],
                       NewIntent(rev, expected))
  /\ pending' = Len(intents) + 1

(* recover_write_intent.  Bytes that nobody can use, or in a file no       *)
(* editor knows, or in two files, need a human; those of one file become   *)
(* the successor's revision.                                               *)
RecoverUnknown(e) ==
  LET i == run[e].i  seen == run[e].seen
      found == UnknownSeen(i, seen)
      closed == \/ found \cap Unreadable # {}
                \/ UnknownStaged(i, seen.staged)
                \/ Unknown(i, seen.claim)
      both == Unknown(i, seen.target) /\ Unknown(i, seen.backup)
      same == /\ intents[i].review.target = seen.target
              /\ intents[i].review.backup = seen.backup
  IN  /\ At(e, "recover")
      /\ Holds(e, i)
      /\ found # {}
      /\ recorded' = recorded \cup found
      /\ \/ /\ closed
            /\ life' = "invalid"
            /\ intents' = [intents EXCEPT ![i] = Released(@)]
            /\ UNCHANGED <<pending, newest>>
         \/ /\ ~closed /\ both
            /\ life' = "invalid"
            /\ newest' = IF same THEN newest ELSE newest + 1
            /\ intents' = [intents EXCEPT
                             ![i] = [Released(@) EXCEPT
                                       !.review = IF same THEN intents[i].review
                                                  ELSE [cand |-> newest', target |-> seen.target,
                                                        backup |-> seen.backup]]]
            /\ UNCHANGED pending
         \/ /\ ~closed /\ ~both
            /\ newest' = newest + 1
            /\ HandOff(i, newest', seen.target)
            /\ UNCHANGED life
      /\ Leave(e)
      /\ UNCHANGED <<current, fileVars, counters>>

(* resolve_conflict of an ambiguous recovery: take the candidate, or the   *)
(* current revision.                                                       *)
Resolve(i) ==
  /\ pending = i
  /\ intents[i].status = "recovery_required" /\ intents[i].owner = NoOwner
  /\ intents[i].review # NoReview
  /\ prepares < MaxPrepares
  /\ prepares' = prepares + 1
  /\ \E rev \in {intents[i].review.cand, current} \ {None} :
       HandOff(i, rev, intents[i].review.target)
  /\ UNCHANGED <<current, life, newest, recorded, fileVars, run, edits, crashes, lapses>>

-----------------------------------------------------------------------------
(* reconcile_retained_backup: bytes written late into a captured file.     *)
ReconcileBackup(i) ==
  LET x == Content(Backup(i))
  IN  /\ Monitored
      /\ intents[i].status = "applied" /\ intents[i].baseline # Missing
      /\ x \notin {Missing, intents[i].baseline}
      /\ recorded' = recorded \cup {x}
      /\ intents' = [intents EXCEPT ![i].baseline = x]
      /\ UNCHANGED <<current, pending, life, newest, fileVars, run, counters>>

(* Time passes; processes die.                                             *)
Expire(i) ==
  /\ intents[i].owner # NoOwner /\ ~intents[i].lapsed
  /\ lapses' = IF \E e \in Executors : Holds(e, i) /\ run[e].i = i
                THEN lapses + 1 ELSE lapses
  /\ lapses' <= MaxLapses
  /\ intents' = [intents EXCEPT ![i].lapsed = TRUE]
  /\ UNCHANGED <<current, pending, life, newest, recorded, fileVars, run, edits, prepares, crashes>>

(* An executor lives as long as its request, or as its process; the next   *)
(* one has an id of its own.                                               *)
Orphaned(e) ==
  [i \in DOMAIN intents |->
     IF intents[i].owner = e THEN [intents[i] EXCEPT !.owner = Gone] ELSE intents[i]]

Retire(e) ==
  /\ At(e, "idle")
  /\ \E i \in DOMAIN intents : intents[i].owner = e
  /\ intents' = Orphaned(e)
  /\ UNCHANGED <<current, pending, life, newest, recorded, fileVars, run, counters>>

Crash(e) ==
  /\ ~At(e, "idle")
  /\ crashes < MaxCrashes
  /\ crashes' = crashes + 1
  /\ intents' = Orphaned(e)
  /\ Leave(e)
  /\ UNCHANGED <<current, pending, life, newest, recorded, fileVars, edits, prepares, lapses>>

-----------------------------------------------------------------------------
Work(e) ==
  \/ Lock(e) \/ LoseLease(e)
  \/ Capture(e) \/ LinkBackup(e) \/ Grab(e) \/ Settle(e) \/ RecordCaptured(e)
  \/ Install(e) \/ Stage(e) \/ Write(e) \/ Place(e) \/ Advance(e) \/ Finalize(e)
  \/ MarkRecovery(e)
  \/ Observe(e) \/ RecoverIntended(e) \/ RecoverExpected(e)
  \/ RecoverMissing(e) \/ RecoverUnknown(e)

Next ==
  \/ Editor
  \/ PrepareEdit \/ PrepareNew \/ PrepareLegacy \/ Ingest
  \/ \E e \in Executors :
       \/ Work(e) \/ Retire(e) \/ Crash(e)
       \/ \E i \in DOMAIN intents : ClaimIntent(e, i)
  \/ \E i \in DOMAIN intents : Resolve(i) \/ ReconcileBackup(i) \/ Expire(i)

Spec == Init /\ [][Next]_vars

(* More than the application gives: runs make progress, the leases of dead *)
(* runs lapse, the monitor looks again and again, and what is left open is *)
(* claimed again and again, while reconcile_all does so once, at the start.*)
(* NeverBlocked fails even so.                                             *)
Fairness ==
  /\ \A e \in Executors : WF_vars(Work(e))
  /\ WF_vars(\E i \in DOMAIN intents : Expire(i))
  /\ WF_vars(\E e \in Executors, i \in DOMAIN intents : ClaimIntent(e, i))
  /\ WF_vars(\E i \in DOMAIN intents : ReconcileBackup(i))

FairSpec == Spec /\ Fairness

-----------------------------------------------------------------------------
(* The page points at its open intent, and at nothing else: hand-overs     *)
(* and resolutions leave no intent behind that could still be executed,    *)
(* and no moment in which another one could be prepared.                   *)
PendingIsTheOpenIntent == \A i \in DOMAIN intents : pending = i <=> IsOpen(i)

(* However leases lapse and are taken over, the file is in the hands of    *)
(* one executor at a time, also across the intents of the page.            *)
OneWriter ==
  \A e, f \in Executors :
    e # f => \/ run[e].at \in {"idle", "lock"}
             \/ run[f].at \in {"idle", "lock"}

(* The service never takes the last name from a file, nor writes into one: *)
(* bytes it has not made itself stay where they can be found, whatever     *)
(* the editor does between two of its system calls.                        *)
KeepsEveryFile ==
  [][edits' = edits =>
       \A n \in Linked(disk) :
         n \in Linked(disk') /\ (data'[n] = data[n] \/ data[n] = Torn)]_vars

(* Bytes of the editor, unless it took them from the page's path itself,  *)
(* are where somebody looks for them: at that path, among the files of the *)
(* open intent, in a retained backup that differs from its baseline, or in *)
(* the database.  Backups of intents that expected no file are another     *)
(* matter: see NoFileBaselineIsKnown.                                      *)
Sought ==
  {Target}
    \cup (UNION {{Backup(i), Claim(i), Staged(i)} : i \in {j \in DOMAIN intents : IsOpen(j)}})
    \cup {Backup(i) : i \in {j \in DOMAIN intents :
             \/ intents[j].expected = Missing
             \/ intents[j].status = "applied" /\ intents[j].baseline # Content(Backup(j))}}

NothingForgotten ==
  \A n \in Linked(disk) \ disowned :
    \/ data[n] \in Nat \cup {Torn} \cup recorded
    \/ \E name \in Sought : disk[name] = n

(* The bytes an applied intent displaced, which the monitor takes for      *)
(* known from then on, are those the intent was prepared upon, or the      *)
(* database has them.                                                      *)
BaselineOf(wanted) ==
  \A i \in DOMAIN intents :
    intents[i].expected \in wanted =>
      intents[i].baseline \in {Missing, intents[i].expected} \cup Nat \cup recorded

BaselineIsKnown == BaselineOf(Contents)

(* The same of intents that expected no file.  It fails: the second        *)
(* capture of such an intent takes the backup the first one left behind    *)
(* without a look at its bytes.                                            *)
NoFileBaselineIsKnown == BaselineOf({Missing})

(* However often open intents are claimed again, a page does not stay      *)
(* blocked for good.  It fails when a staged file is torn by a crash, and, *)
(* with an editor at work, in the two further ways the README describes.   *)
NeverBlocked == <>[](pending = None)
=============================================================================
