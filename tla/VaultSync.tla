------------------------------ MODULE VaultSync ------------------------------
(***************************************************************************)
(* Following the vault (app/vault_sync.py, with the tables of              *)
(* app/vault_events.py and the watcher of app/vault_watcher.py): how the   *)
(* row of one wiki page keeps up with files that an editor writes, removes *)
(* and moves while the service itself replaces them.                       *)
(*                                                                         *)
(* A batch of file system changes becomes occurrences, one per path.  A    *)
(* delete only queues a pending delete, which the expiry loop carries out  *)
(* after a grace period.  An add or a modification cancels the pending     *)
(* delete of its path, or takes that of another path as the other half of  *)
(* a move, or is ingested as it is.  After a restart the occurrences left  *)
(* open are replayed and the files compared with the rows.                 *)
(*                                                                         *)
(* A content is a number: every save and every revision makes a new one.   *)
(* Every file declares the one page modelled, so there is at most one      *)
(* pending delete per path, and one open intent.  Of the rows only those   *)
(* are kept that something reads again: an occurrence until it is          *)
(* finished, a delete while it is pending, an intent while it is open.     *)
(***************************************************************************)
EXTENDS Integers, FiniteSets

CONSTANTS
  Paths,       \* where the page's file may be
  Home,        \* where it is at first
  NoPath,      \* no path
  Ways,        \* what the editor does: "write", "remove", "restore", "move"
  BootEdits,   \* whether it also works while the service starts up
  MaxEdits,    \* bound: changes by the editor
  MaxWrites,   \* bound: changes of the page through the service
  MaxCrashes,  \* bound: restarts
  MaxLapses    \* bound: claims on deletes that get stale while their owner works

ASSUME VaultSyncAssumption ==
  /\ Home \in Paths /\ {NoPath, "none", "expiry", "gone"} \cap Paths = {}
  /\ Ways \subseteq {"write", "remove", "restore", "move"}
  /\ BootEdits \in BOOLEAN
  /\ MaxEdits \in Nat /\ MaxWrites \in Nat /\ MaxCrashes \in Nat /\ MaxLapses \in Nat

VARIABLES
  file,      \* the content of the file at each path, or Missing
  raw,       \* what the watcher has heard of each path since the last batch
  page,      \* the page's row: path, lifecycle_status, current content, epoch
  intent,    \* its open write intent, or NoIntent
  newest,    \* the newest content
  strays,    \* observations without a page: path and content
  occ,       \* the pending occurrence of each path, or NoOccurrence
  del,       \* the pending delete of each path, or NoDelete
  hand,      \* what the handler of each path's occurrence is doing
  expiry,    \* what the expiry loop is doing
  mode,      \* how far the service has started
  listed,    \* the inventory: content by path, or Unseen
  replayed,  \* paths whose occurrences were replayed
  reported,  \* paths whose last occurrence, or deletion, ended in an error
  removed,   \* history: the editor has taken a file away from its path
  returned,  \* history: paths an add was noticed for since their delete was queued
  edits, writes, crashes, lapses

rows == <<page, intent, occ, del, strays, reported>>
tasks == <<hand, expiry>>
start == <<mode, listed, replayed>>
disk == <<file, raw>>
history == <<removed, returned>>
counters == <<edits, writes, crashes, lapses>>
vars == <<disk, rows, newest, tasks, start, history, counters>>

-----------------------------------------------------------------------------
Missing == 0
Unseen == -1

NoIntent == [path |-> NoPath, expects |-> Missing, rev |-> Missing, occ |-> NoPath,
             at |-> "none", held |-> FALSE, owner |-> "none"]
NoOccurrence == [kind |-> "none", old |-> NoPath, late |-> {}, event |-> "none",
                 change |-> "none", seen |-> Missing]
NoDelete == [hash |-> Missing, due |-> FALSE, owner |-> "none", fresh |-> FALSE,
             event |-> "none", state |-> [path |-> NoPath, life |-> "none", body |-> Missing, epoch |-> 0]]
Idle == [at |-> "idle", del |-> NoPath, seen |-> Missing]
NoExpiry == [at |-> "idle", del |-> NoPath, event |-> "none", state |-> NoDelete.state]

WritingUnderALease == intent.owner = "live"

(* has_active_intent, and the rows a select for pending ones finds.        *)
Writing == intent # NoIntent
IsPending(p) == occ[p] # NoOccurrence
Queued == {d \in Paths : del[d] # NoDelete}
Busy == {p \in Paths : hand[p] # Idle}

(* Every transition of the page starts a projection epoch.                 *)
Changed(row) == [row EXCEPT !.epoch = @ + 1]

Occurrence(kind, old) ==
  [NoOccurrence EXCEPT !.kind = kind, !.old = old, !.late = {d \in Queued : del[d].due}]

Row == [path : Paths, life : {"active", "invalid", "deleted"}, body : Nat, epoch : Nat]
State == Row \cup {NoDelete.state}
Intent == [path : Paths \cup {NoPath}, expects : Nat, rev : Nat, occ : Paths \cup {NoPath},
           at : {"none", "ready", "stuck"}, held : BOOLEAN, owner : {"none", "live", "dead"}]
OccurrenceRow ==
  [kind : {"none", "add", "modify", "delete", "rename", "relocate"},
   old : Paths \cup {NoPath}, late : SUBSET Paths,
   event : {"none", "prepared", "applied", "invalid"},
   change : {"none", "rename", "relocate", "ingest"}, seen : Nat]
DeleteRow ==
  [hash : Nat, due : BOOLEAN, owner : {"none", "expiry", "gone"} \cup Paths, fresh : BOOLEAN,
   event : {"none", "pending", "applied", "superseded"}, state : State]
Hand ==
  [at : {"idle", "queue", "defer", "look", "cancel", "same", "sort", "claim", "resolve",
         "move", "ingest", "wait", "finish", "reject"},
   del : Paths \cup {NoPath}, seen : Nat]
ExpiryTask ==
  [at : {"idle", "lock", "persist", "apply", "complete"}, del : Paths \cup {NoPath},
   event : {"none", "pending", "applied", "superseded"}, state : State]

(* Types; a claim belongs to a handler, to the expiry loop, or to one of   *)
(* an earlier process.                                                     *)
TypeOK ==
  /\ newest \in Nat \ {0} /\ strays \subseteq Paths \X (1 .. newest)
  /\ file \in [Paths -> 0 .. newest]
  /\ raw \in [Paths -> {"quiet", "modified", "added"}]
  /\ page \in Row /\ page.body \in 1 .. newest
  /\ intent \in Intent /\ (Writing => intent.path # NoPath /\ intent.rev \in 1 .. newest)
  /\ occ \in [Paths -> OccurrenceRow]
  /\ del \in [Paths -> DeleteRow]
  /\ hand \in [Paths -> Hand] /\ \A p \in Busy : IsPending(p) /\ hand[p].seen <= newest
  /\ expiry \in ExpiryTask /\ (expiry # NoExpiry => expiry.del # NoPath)
  /\ mode \in {"down", "recover", "execute", "replay", "scan", "settle", "live"}
  /\ listed \in [Paths -> -1 .. newest]
  /\ reported \subseteq Paths /\ replayed \subseteq Paths /\ returned \subseteq Paths
  /\ removed \in BOOLEAN
  /\ edits \in Nat /\ writes \in Nat /\ crashes \in Nat /\ lapses \in Nat

(* The service has not been started; its page is on disk.                  *)
Init ==
  /\ newest = 1 /\ strays = {}
  /\ file = [p \in Paths |-> IF p = Home THEN 1 ELSE Missing]
  /\ page = [path |-> Home, life |-> "active", body |-> 1, epoch |-> 0]
  /\ raw = [p \in Paths |-> "quiet"]
  /\ intent = NoIntent
  /\ occ = [p \in Paths |-> NoOccurrence]
  /\ del = [p \in Paths |-> NoDelete]
  /\ hand = [p \in Paths |-> Idle] /\ expiry = NoExpiry
  /\ mode = "down" /\ listed = [p \in Paths |-> Unseen] /\ replayed = {}
  /\ reported = {} /\ removed = FALSE /\ returned = {}
  /\ edits = 0 /\ writes = 0 /\ crashes = 0 /\ lapses = 0

-----------------------------------------------------------------------------
(* Files, and what the watcher hears of them while it runs.                *)
Heard(p, f) ==
  IF mode # "live" \/ f[p] = file[p] THEN raw[p]
  ELSE IF file[p] = Missing \/ raw[p] = "added" THEN "added" ELSE "modified"

Files(f) == file' = f /\ raw' = [p \in Paths |-> Heard(p, f)]

(* The editor saves the file it has open (the service may have it out of   *)
(* place), deletes it, puts it back or copies it with the bytes of the     *)
(* current revision (an undo, a sync tool), or moves it.                   *)
Edit(way) ==
  /\ way \in Ways
  /\ edits < MaxEdits
  /\ mode \in {"down", "live"} \/ BootEdits
  /\ edits' = edits + 1
  /\ removed' = (removed \/ way \in {"remove", "move"})
  /\ UNCHANGED <<rows, tasks, start, returned, writes, crashes, lapses>>

Write(p) ==
  /\ Edit("write")
  /\ file[p] # Missing \/ (intent.held /\ p = intent.path)
  /\ newest' = newest + 1
  /\ Files([file EXCEPT ![p] = newest'])

Remove(p) ==
  /\ Edit("remove") /\ file[p] # Missing
  /\ Files([file EXCEPT ![p] = Missing]) /\ UNCHANGED newest

Restore(p) ==
  /\ Edit("restore") /\ file[p] = Missing
  /\ Files([file EXCEPT ![p] = page.body]) /\ UNCHANGED newest

Move(p, q) ==
  /\ Edit("move") /\ file[p] # Missing /\ file[q] = Missing
  /\ Files([file EXCEPT ![p] = Missing, ![q] = file[p]]) /\ UNCHANGED newest

Editor ==
  \E p \in Paths : Write(p) \/ Remove(p) \/ Restore(p) \/ \E q \in Paths : Move(p, q)

-----------------------------------------------------------------------------
(* Write intents: VaultWriter in short.  The executor takes the file the   *)
(* intent expects out of the way and puts the new one in its place; where  *)
(* it finds another file, or none, the intent needs recovery.              *)
NewIntent(path, expects, o) ==
  [path |-> path, expects |-> expects, rev |-> newest + 1, occ |-> o,
   at |-> "ready", held |-> FALSE, owner |-> "live"]

PrepareEdit ==
  /\ writes < MaxWrites
  /\ mode = "live" /\ ~Writing
  /\ writes' = writes + 1
  /\ newest' = newest + 1
  /\ intent' = NewIntent(page.path, page.body, NoPath)
  /\ UNCHANGED <<disk, page, occ, del, strays, reported, tasks, start, history>>
  /\ UNCHANGED <<edits, crashes, lapses>>

Executing == Writing /\ intent.at = "ready" /\ intent.owner = "live"

Take ==
  /\ Executing /\ ~intent.held
  /\ \/ /\ file[intent.path] = intent.expects
        /\ Files([file EXCEPT ![intent.path] = Missing])
        /\ intent' = [intent EXCEPT !.held = TRUE]
     \/ /\ file[intent.path] # intent.expects
        /\ intent' = [intent EXCEPT !.at = "stuck"]
        /\ UNCHANGED disk
  /\ UNCHANGED <<page, occ, del, strays, reported, newest, tasks, start, history, counters>>

(* The new file is linked, and finalize_intent moves the page to it and    *)
(* marks the event the intent came from.                                   *)
Put ==
  /\ Executing /\ intent.held /\ file[intent.path] = Missing
  /\ Files([file EXCEPT ![intent.path] = intent.rev])
  /\ page' = Changed([page EXCEPT !.path = intent.path, !.life = "active", !.body = intent.rev])
  /\ occ' = [p \in Paths |->
               IF p = intent.occ THEN [occ[p] EXCEPT !.event = "applied"] ELSE occ[p]]
  /\ intent' = NoIntent
  /\ UNCHANGED <<del, strays, reported, newest, tasks, start, history, counters>>

PutBlocked ==
  /\ Executing /\ intent.held /\ file[intent.path] # Missing
  /\ intent' = [intent EXCEPT !.at = "stuck"]
  /\ UNCHANGED <<disk, page, occ, del, strays, reported, newest, tasks, start>>
  /\ UNCHANGED <<history, counters>>

(* An executor that claims an intent goes on with it, or recovers it: with *)
(* target and backup missing the page is invalid; unknown bytes become     *)
(* those of a successor, which is bound to the page's own path.            *)
Resumed ==
  LET there == file[intent.path]
  IN  /\ intent.owner = "none"
      /\ \/ /\ \/ intent.at = "ready"
               \/ there = intent.expects
               \/ there = Missing /\ intent.held
            /\ intent' = [intent EXCEPT !.at = "ready", !.owner = "live"]
            /\ UNCHANGED <<page, newest>>
         \/ /\ intent.at = "stuck" /\ there = Missing /\ ~intent.held
            /\ intent' = NoIntent
            /\ page' = Changed([page EXCEPT !.life = "invalid"])
            /\ UNCHANGED newest
         \/ /\ intent.at = "stuck" /\ there \notin {Missing, intent.expects}
            /\ newest' = newest + 1
            /\ intent' = [NewIntent(page.path, there, NoPath) EXCEPT !.owner = "none"]
            /\ UNCHANGED page

-----------------------------------------------------------------------------
(* Handlers.  One that holds the page's lock is at one of these steps; the *)
(* others take the lock for one step.                                      *)
LockFree ==
  /\ \A p \in Paths : hand[p].at \notin {"ingest", "move", "wait", "finish", "reject"}
  /\ expiry.at \notin {"persist", "apply", "complete"}

Goto(p, step) == hand' = [hand EXCEPT ![p].at = step]
GotoWith(p, step, d) == hand' = [hand EXCEPT ![p].at = step, ![p].del = d]
See(p, step) == hand' = [hand EXCEPT ![p].at = step, ![p].seen = file[p]]

ClaimableWhenFree(d) == del[d].owner = "none"

(* claim_delete, cancel_delete: unclaimed, or the claim is stale.          *)
Claimable(d) == del[d].owner = "none" \/ ~del[d].fresh
Owned(d, who) == d \in Paths /\ del[d].owner = who
ReleasedBy(d, who) ==
  IF Owned(d, who) THEN [del EXCEPT ![d].owner = "none", ![d].fresh = FALSE]
  ELSE del

(* finish_occurrence.  If its intent is still open, it is left to recovery. *)
Untied(p) == IF intent.occ = p THEN [intent EXCEPT !.occ = NoPath] ELSE intent

End(p, bad) ==
  /\ occ' = [occ EXCEPT ![p] = NoOccurrence]
  /\ hand' = [hand EXCEPT ![p] = Idle]
  /\ intent' = Untied(p)
  /\ reported' = IF bad THEN reported \cup {p} ELSE reported \ {p}

FailLeaving(p, table) ==
  /\ End(p, TRUE)
  /\ del' = table
  /\ UNCHANGED <<page, strays, newest>>

Fail(p) == FailLeaving(p, del)
FailReleasing(p) == FailLeaving(p, ReleasedBy(hand[p].del, p))

(* A step of the handler of p, and one that only moves it on.              *)
Handling(p, step) ==
  /\ hand[p].at = step
  /\ UNCHANGED <<disk, expiry, start, removed, counters>>

OnlyMoves == UNCHANGED <<rows, newest>>

-----------------------------------------------------------------------------
(* _queue_delete, in the two transactions it consists of.  The page may    *)
(* have a pending delete of this path, which then stays as it is.          *)
Queue(p) ==
  /\ Handling(p, "queue")
  /\ UNCHANGED <<page, strays, newest>>
  /\ \/ /\ page.path # p
        /\ End(p, FALSE)
        /\ UNCHANGED <<del, returned>>
     \/ /\ page.path = p /\ del[p] # NoDelete
        /\ Goto(p, "defer")
        /\ UNCHANGED <<intent, occ, del, reported, returned>>
     \/ /\ page.path = p /\ del[p] = NoDelete
        /\ Goto(p, "defer")
        /\ del' = [del EXCEPT ![p] = [NoDelete EXCEPT !.hash = page.body]]
        /\ occ' = [q \in Paths |-> [occ[q] EXCEPT !.late = @ \ {p}]]
        /\ returned' = returned \ {p}
        /\ UNCHANGED <<intent, reported>>

Defer(p) ==
  /\ Handling(p, "defer")
  /\ End(p, FALSE)
  /\ UNCHANGED <<page, del, strays, newest, returned>>

(* _process_add_or_modify.  First look: is there a delete of this path?    *)
(* Deletes of the same batch have been queued by then.                     *)
Look(p) ==
  /\ Handling(p, "look")
  /\ \A q \in Paths : hand[q].at \notin {"queue", "defer"}
  /\ UNCHANGED returned
  /\ \/ /\ file[p] = Missing \/ (del[p] # NoDelete /\ Writing)
        /\ Fail(p)
     \/ /\ file[p] # Missing /\ del[p] # NoDelete /\ ~Writing
        /\ GotoWith(p, "cancel", p) /\ OnlyMoves
     \/ /\ file[p] # Missing /\ del[p] = NoDelete
        /\ Goto(p, "sort") /\ OnlyMoves

(* _cancel_delete_after_claim                                              *)
CancelDelete(p) ==
  /\ Handling(p, "cancel")
  /\ del[p] = NoDelete \/ Claimable(p)
  /\ del' = [del EXCEPT ![p] = NoDelete]
  /\ Goto(p, "same")
  /\ UNCHANGED <<page, intent, occ, strays, reported, newest, returned>>

(* The file came back.  At start-up a file gone again is no error.         *)
SamePath(p) ==
  LET gone == file[p] = Missing
  IN  /\ Handling(p, "same") /\ LockFree
      /\ UNCHANGED returned
      /\ \/ /\ gone /\ mode = "settle"
            /\ End(p, FALSE)
            /\ UNCHANGED <<page, del, strays, newest>>
         \/ /\ IF gone THEN mode # "settle" ELSE Writing
            /\ Fail(p)
         \/ /\ ~gone /\ ~Writing
            /\ See(p, "ingest") /\ OnlyMoves

(* No delete of this path: is there one of another path?                   *)
MoveEvidence(d, p) ==
  page.path = d /\ file[d] = Missing /\ file[p] # Missing /\ ~Writing

Sort(p) ==
  /\ Handling(p, "sort") /\ LockFree
  /\ UNCHANGED returned
  /\ \/ /\ file[p] # Missing /\ Queued = {}
        /\ See(p, "ingest") /\ OnlyMoves
     \/ \E d \in Queued :
          /\ Queued = {d} /\ MoveEvidence(d, p)
          /\ GotoWith(p, "claim", d) /\ OnlyMoves
     \/ /\ \/ file[p] = Missing
           \/ Cardinality(Queued) > 1
           \/ \E d \in Queued : ~MoveEvidence(d, p)
        /\ Fail(p)

ClaimDeleteForEver(p) ==
  LET d == hand[p].del
  IN  /\ Handling(p, "claim")
      /\ del[d] # NoDelete /\ Claimable(d)
      /\ Goto(p, "resolve")
      /\ del' = [del EXCEPT ![d].owner = p, ![d].fresh = TRUE]
      /\ UNCHANGED <<page, intent, occ, strays, reported, newest, returned>>

(* _claim_delete_after_wait.  A delete that is gone has been carried out.  *)
ClaimDelete(p) ==
  LET d == hand[p].del
  IN  /\ Handling(p, "claim")
      /\ UNCHANGED <<page, intent, occ, strays, reported, newest, returned>>
      /\ \/ /\ del[d] = NoDelete
            /\ GotoWith(p, "resolve", NoPath)
            /\ UNCHANGED del
         \/ /\ del[d] # NoDelete /\ Claimable(d)
            /\ Goto(p, "resolve")
            /\ del' = [del EXCEPT ![d].owner = p, ![d].fresh = TRUE]

(* Under the lock again.  When the file is gone the claim stays behind.    *)
Resolve(p) ==
  LET d == hand[p].del
  IN  /\ Handling(p, "resolve") /\ LockFree
      /\ occ[p].kind \in {"add", "modify"}
      /\ UNCHANGED returned
      /\ \/ /\ file[p] = Missing
            /\ FailLeaving(p, IF Owned(d, p) THEN [del EXCEPT ![d].owner = "gone"] ELSE del)
         \/ /\ file[p] # Missing /\ d = NoPath
            /\ See(p, "ingest") /\ OnlyMoves
         \/ /\ file[p] # Missing /\ d # NoPath
            /\ IF Owned(d, p) /\ MoveEvidence(d, p)
               THEN See(p, "move") /\ OnlyMoves
               ELSE FailReleasing(p)

(* The same for a move found, or left over, at start-up: a new one is      *)
(* checked against the row, one that is replayed is not.  No delete is     *)
(* carried out before the service is live, so that the delete of the old   *)
(* path, if there is one, is still there once its claim has been waited    *)
(* for.                                                                    *)
ResolveStartupMove(p) ==
  LET o == occ[p]
      exact == file[p] = page.body
  IN  /\ Handling(p, "resolve") /\ LockFree
      /\ o.kind \in {"rename", "relocate"}
      /\ UNCHANGED returned
      /\ IF /\ file[p] # Missing
            /\ mode = "replay" \/ (MoveEvidence(o.old, p) /\ (exact <=> o.kind = "rename"))
         THEN See(p, "move") /\ OnlyMoves
         ELSE FailReleasing(p)

-----------------------------------------------------------------------------
(* rename_page and relocate_external_change.  Both take the claimed delete *)
(* with them in their transaction.                                         *)
From(p) == IF occ[p].old # NoPath THEN occ[p].old ELSE hand[p].del
Exact(p) ==
  IF occ[p].old # NoPath THEN occ[p].kind = "rename" ELSE hand[p].seen = del[hand[p].del].hash
DeleteTaken(p) == hand[p].del = NoPath \/ Owned(hand[p].del, p)
WithDelete(p) == del
WithoutDelete(p) ==
  IF hand[p].del = NoPath THEN del ELSE [del EXCEPT ![hand[p].del] = NoDelete]

Event(p, event, change) ==
  occ' = [occ EXCEPT ![p].event = event, ![p].change = change, ![p].seen = hand[p].seen]

MayRename(p) ==
  /\ Exact(p) /\ occ[p].event = "none"
  /\ page.path = From(p) /\ ~Writing
  /\ file[From(p)] = Missing /\ file[p] = page.body
  /\ DeleteTaken(p)

RenamePage(p) ==
  /\ Handling(p, "move") /\ MayRename(p)
  /\ page' = Changed([page EXCEPT !.path = p])
  /\ del' = WithoutDelete(p)
  /\ Event(p, "applied", "rename")
  /\ Goto(p, "finish")
  /\ UNCHANGED <<intent, strays, reported, newest, returned>>

MayRelocate(p) ==
  /\ ~Exact(p) /\ occ[p].event = "none"
  /\ page.path = From(p) /\ ~Writing
  /\ hand[p].seen # page.body
  /\ DeleteTaken(p)

Relocate(p) ==
  /\ Handling(p, "move") /\ MayRelocate(p)
  /\ newest' = newest + 1
  /\ intent' = NewIntent(p, hand[p].seen, p)
  /\ strays' = strays \ {<<p, hand[p].seen>>}
  /\ del' = WithoutDelete(p)
  /\ Event(p, "prepared", "relocate")
  /\ Goto(p, "wait")
  /\ UNCHANGED <<page, reported, returned>>

(* A move whose event exists: the same move again has its result, or its   *)
(* intent, which goes on if no one else holds it.                          *)
MayRepeatMove(p) ==
  LET o == occ[p]
  IN  /\ DeleteTaken(p)
      /\ \/ o.event = "applied" /\ o.change = "rename" /\ Exact(p)
         \/ /\ o.change = "relocate" /\ ~Exact(p) /\ o.seen = hand[p].seen
            /\ \/ o.event = "applied"
               \/ o.event = "prepared" /\ intent.occ = p /\ page.path = From(p)

GoOn ==
  IF Writing /\ intent.owner = "none" THEN Resumed ELSE UNCHANGED <<page, intent, newest>>

RepeatMove(p) ==
  /\ Handling(p, "move") /\ MayRepeatMove(p)
  /\ del' = WithoutDelete(p)
  /\ IF occ[p].event = "applied"
     THEN Goto(p, "finish") /\ UNCHANGED <<page, intent, newest>>
     ELSE Goto(p, "wait") /\ GoOn
  /\ UNCHANGED <<occ, strays, reported, returned>>

MoveFails(p) ==
  /\ Handling(p, "move")
  /\ ~MayRename(p) /\ ~MayRelocate(p) /\ ~MayRepeatMove(p)
  /\ FailReleasing(p)
  /\ UNCHANGED returned

-----------------------------------------------------------------------------
(* ingest_external_change: of the page bound to this path, or of a deleted *)
(* page whose file turns up here.  Otherwise the bytes are an issue.       *)
Bound(p) == page.path = p
Restorable == page.life = "deleted" /\ ~Writing /\ file[page.path] = Missing

Adopt(p) ==
  /\ newest' = newest + 1
  /\ intent' = NewIntent(p, hand[p].seen, p)
  /\ Event(p, "prepared", "ingest")
  /\ Goto(p, "wait")
  /\ UNCHANGED <<page, del, reported>>

Ingest(p) ==
  LET seen == hand[p].seen
      stray == <<p, seen>> \in strays
  IN  /\ Handling(p, "ingest") /\ occ[p].event = "none"
      /\ UNCHANGED returned
      /\ \/ /\ Bound(p) /\ (stray \/ Writing)
            /\ Fail(p)
         \/ /\ Bound(p) /\ ~stray /\ ~Writing
            /\ IF page.life = "active" /\ page.body = seen
               THEN /\ Event(p, "applied", "ingest")
                    /\ Goto(p, "finish")
                    /\ UNCHANGED <<page, intent, del, strays, reported, newest>>
               ELSE Adopt(p) /\ UNCHANGED strays
         \/ /\ ~Bound(p) /\ Restorable
            /\ Adopt(p)
            /\ strays' = strays \ {<<p, seen>>}
         \/ /\ ~Bound(p) /\ ~Restorable
            /\ Event(p, "invalid", "ingest")
            /\ Goto(p, "reject")
            /\ strays' = strays \cup {<<p, seen>>}
            /\ UNCHANGED <<page, intent, del, reported, newest>>

(* The event exists: its result, or its intent, for the same bytes only.   *)
IngestAgain(p) ==
  LET o == occ[p]
      same == o.change = "ingest" /\ o.seen = hand[p].seen
  IN  /\ Handling(p, "ingest") /\ o.event # "none"
      /\ UNCHANGED returned
      /\ \/ /\ same /\ o.event \in {"applied", "invalid"}
            /\ Goto(p, IF o.event = "applied" THEN "finish" ELSE "reject") /\ OnlyMoves
         \/ /\ same /\ o.event = "prepared" /\ intent.occ = p
            /\ Goto(p, "wait") /\ GoOn
            /\ UNCHANGED <<occ, del, strays, reported>>
         \/ /\ IF same THEN o.event = "prepared" /\ intent.occ # p ELSE TRUE
            /\ Fail(p)

(* The mutation returns.                                                   *)
Finish(p) ==
  /\ \/ Handling(p, "finish")
     \/ Handling(p, "wait") /\ occ[p].event = "applied"
  /\ End(p, FALSE)
  /\ UNCHANGED <<page, del, strays, newest, returned>>

Reject(p) ==
  /\ Handling(p, "reject")
  /\ End(p, TRUE)
  /\ UNCHANGED <<page, del, strays, newest, returned>>

GiveUp(p) ==
  /\ Handling(p, "wait")
  /\ occ[p].event # "applied" /\ ~(Executing /\ intent.occ = p)
  /\ Fail(p)
  /\ UNCHANGED returned

Handler(p) ==
  \/ Queue(p) \/ Defer(p) \/ Look(p) \/ CancelDelete(p) \/ SamePath(p)
  \/ Sort(p) \/ ClaimDelete(p) \/ Resolve(p) \/ ResolveStartupMove(p)
  \/ RenamePage(p) \/ Relocate(p) \/ RepeatMove(p) \/ MoveFails(p)
  \/ Ingest(p) \/ IngestAgain(p) \/ Finish(p) \/ Reject(p) \/ GiveUp(p)

(* handle_batch: what became of each path that something was heard of.     *)
KindOf(p) ==
  IF file[p] = Missing THEN "delete" ELSE IF raw[p] = "added" THEN "add" ELSE "modify"

Batch ==
  LET noticed == {p \in Paths : raw[p] # "quiet"}
      adds == {p \in noticed : KindOf(p) = "add"}
  IN  /\ mode = "live" /\ Busy = {} /\ noticed # {}
      /\ raw' = [p \in Paths |-> "quiet"]
      /\ occ' = [p \in Paths |-> IF p \in noticed THEN Occurrence(KindOf(p), NoPath) ELSE occ[p]]
      /\ hand' = [p \in Paths |->
                    IF p \notin noticed THEN Idle
                    ELSE [Idle EXCEPT !.at = IF file[p] = Missing THEN "queue" ELSE "look"]]
      /\ returned' = returned \cup (adds \cap Queued)
      /\ UNCHANGED <<file, page, intent, del, strays, reported, newest, expiry, start>>
      /\ UNCHANGED <<removed, counters>>

-----------------------------------------------------------------------------
(* expire_deletes and delete_page.                                         *)
MayExpireAtOnce(d) == file[d] = Missing /\ ~Writing

MayExpire(d) ==
  /\ file[d] = Missing /\ ~Writing
  /\ ~\E p \in Paths : occ[p].kind = "add" /\ d \notin occ[p].late

Expiring(step) ==
  /\ mode = "live" /\ expiry.at = step
  /\ UNCHANGED <<disk, intent, occ, strays, newest, hand, start, history, counters>>

ExpiryAt(step) == expiry' = [expiry EXCEPT !.at = step]

ClaimDue(d) ==
  /\ Expiring("idle")
  /\ del[d].due /\ MayExpire(d) /\ Claimable(d)
  /\ del' = [del EXCEPT ![d].owner = "expiry", ![d].fresh = TRUE]
  /\ expiry' = [NoExpiry EXCEPT !.at = "lock", !.del = d]
  /\ UNCHANGED <<page, reported>>

LetGo(table) ==
  LET d == expiry.del
  IN  /\ expiry' = NoExpiry
      /\ del' = IF table[d].owner = "expiry"
                THEN [table EXCEPT ![d].owner = "none", ![d].fresh = FALSE] ELSE table

Recheck ==
  LET d == expiry.del
      mine == Owned(d, "expiry")
  IN  /\ Expiring("lock") /\ LockFree
      /\ IF mine /\ MayExpire(d)
         THEN /\ expiry' = [expiry EXCEPT !.at = "persist", !.event = del[d].event,
                                          !.state = del[d].state]
              /\ UNCHANGED del
         ELSE LetGo(del)
      /\ UNCHANGED <<page, reported>>

(* The event of the delete, whose row may have been cancelled meanwhile.   *)
DeleteEvent(event, state) ==
  LET d == expiry.del
  IN  IF del[d] = NoDelete THEN del
      ELSE [del EXCEPT ![d].event = event, ![d].state = state]

Abandon(table) == LetGo(table) /\ reported' = reported \cup {expiry.del}

(* The event is stored with the page's state, unless it exists.            *)
PersistDelete ==
  LET d == expiry.del
      possible == file[d] = Missing /\ page.path = d /\ ~Writing
  IN  /\ Expiring("persist")
      /\ UNCHANGED page
      /\ \/ /\ expiry.event = "applied"
            /\ ExpiryAt("complete") /\ UNCHANGED <<del, reported>>
         \/ /\ expiry.event \in {"pending", "superseded"}
            /\ ExpiryAt("apply") /\ UNCHANGED <<del, reported>>
         \/ /\ expiry.event = "none" /\ possible
            /\ del' = DeleteEvent("pending", page)
            /\ expiry' = [expiry EXCEPT !.at = "apply", !.event = "pending", !.state = page]
            /\ UNCHANGED reported
         \/ /\ expiry.event = "none" /\ ~possible
            /\ Abandon(del)

(* The deletion itself, of the page as it was; the claim is not looked at. *)
ApplyDelete ==
  LET d == expiry.del
      asWas == expiry.event = "pending" /\ page = expiry.state
      possible == ~Writing /\ page.path = d /\ file[d] = Missing /\ page.life # "deleted"
  IN  /\ Expiring("apply")
      /\ \/ /\ expiry.event = "superseded" \/ (asWas /\ ~possible)
            /\ Abandon(del) /\ UNCHANGED page
         \/ /\ expiry.event = "pending" /\ ~asWas
            /\ Abandon(DeleteEvent("superseded", expiry.state)) /\ UNCHANGED page
         \/ /\ asWas /\ possible
            /\ page' = Changed([page EXCEPT !.life = "deleted"])
            /\ del' = DeleteEvent("applied", expiry.state)
            /\ ExpiryAt("complete")
            /\ UNCHANGED reported

(* Whether a lost claim is noticed by then depends on the heartbeat.       *)
CompleteDelete ==
  LET d == expiry.del
  IN  /\ Expiring("complete")
      /\ UNCHANGED page
      /\ IF Owned(d, "expiry") /\ del[d].fresh
         THEN /\ expiry' = NoExpiry
              /\ del' = [del EXCEPT ![d] = NoDelete]
              /\ UNCHANGED reported
         ELSE Abandon(del) \/ (LetGo(del) /\ UNCHANGED reported)

Expiry ==
  \/ \E d \in Paths : ClaimDue(d)
  \/ Recheck \/ PersistDelete \/ ApplyDelete \/ CompleteDelete

-----------------------------------------------------------------------------
(* Time.  A grace period ends; a claim gets stale, at any time when its    *)
(* owner is gone; the lease of an intent runs out.                         *)
GraceEnds(d) ==
  /\ del[d] # NoDelete /\ ~del[d].due
  /\ del' = [del EXCEPT ![d].due = TRUE]
  /\ UNCHANGED <<disk, page, intent, occ, strays, reported, newest, tasks, start>>
  /\ UNCHANGED <<history, counters>>

AtWork(d) ==
  \/ Owned(d, "expiry") /\ expiry.del = d
  \/ \E p \in Paths : Owned(d, p) /\ hand[p].del = d

ClaimLapses(d) ==
  /\ del[d].fresh
  /\ del' = [del EXCEPT ![d].fresh = FALSE]
  /\ UNCHANGED <<disk, page, intent, occ, strays, reported, newest, tasks, start, history>>
  /\ UNCHANGED <<edits, writes, crashes>>

DeadClaimLapses(d) == ClaimLapses(d) /\ ~AtWork(d) /\ UNCHANGED lapses
LiveClaimLapses(d) ==
  ClaimLapses(d) /\ AtWork(d) /\ lapses < MaxLapses /\ lapses' = lapses + 1

IntentLapses ==
  /\ intent.owner = "dead" \/ (intent.owner = "live" /\ intent.at = "stuck")
  /\ intent' = [intent EXCEPT !.owner = "none"]
  /\ UNCHANGED <<disk, page, occ, del, strays, reported, newest, tasks, start>>
  /\ UNCHANGED <<history, counters>>

-----------------------------------------------------------------------------
(* Restarts.  The rows stay, claims and leases with them.                  *)
Crash ==
  /\ mode # "down"
  /\ crashes < MaxCrashes
  /\ crashes' = crashes + 1
  /\ mode' = "down"
  /\ hand' = [p \in Paths |-> Idle] /\ expiry' = NoExpiry
  /\ raw' = [p \in Paths |-> "quiet"]
  /\ listed' = [p \in Paths |-> Unseen] /\ replayed' = {}
  /\ del' = [d \in Paths |-> IF del[d].owner = "none" THEN del[d]
                             ELSE [del[d] EXCEPT !.owner = "gone"]]
  /\ intent' = IF intent.owner = "live" THEN [intent EXCEPT !.owner = "dead"] ELSE intent
  /\ UNCHANGED <<file, page, occ, strays, reported, newest, history, edits, writes, lapses>>

Starting(stage) ==
  /\ mode = stage
  /\ UNCHANGED <<disk, removed, returned, expiry, counters>>

(* lifespan: reconcile_all first.  An intent whose lease has not run out   *)
(* is passed over.                                                         *)
Boot ==
  /\ Starting("down")
  /\ mode' = "recover"
  /\ UNCHANGED <<rows, newest, hand, listed, replayed>>

RecoverIntents ==
  /\ Starting("recover")
  /\ mode' = "execute"
  /\ GoOn
  /\ UNCHANGED <<occ, del, strays, reported, hand, listed, replayed>>

IntentsRecovered ==
  /\ Starting("execute") /\ ~Executing
  /\ mode' = "replay"
  /\ UNCHANGED <<rows, newest, hand, listed, replayed>>

(* _replay_pending_occurrences: deletes first, one after the other.        *)
Replay(p) ==
  LET o == occ[p]
      arrival == o.kind # "delete"
      gone == arrival /\ file[p] = Missing
      move == o.kind \in {"rename", "relocate"}
      elsewhere == Queued \ {o.old} # {}
  IN  /\ Starting("replay") /\ Busy = {} /\ IsPending(p)
      /\ arrival => \A q \in Paths : occ[q].kind # "delete"
      /\ replayed' = IF arrival THEN replayed \cup {p} ELSE replayed
      /\ UNCHANGED <<mode, listed>>
      /\ \/ /\ gone
            /\ End(p, FALSE)
            /\ UNCHANGED <<page, del, strays, newest>>
         \/ /\ ~gone /\ move /\ elsewhere
            /\ Fail(p)
         \/ /\ ~gone /\ move /\ ~elsewhere
            /\ IF del[o.old] # NoDelete THEN GotoWith(p, "claim", o.old) ELSE Goto(p, "resolve")
            /\ OnlyMoves
         \/ /\ ~gone /\ ~move
            /\ Goto(p, IF arrival THEN "look" ELSE "queue") /\ OnlyMoves

AllReplayed ==
  /\ Starting("replay") /\ Busy = {}
  /\ \A p \in Paths : ~IsPending(p)
  /\ mode' = "scan"
  /\ UNCHANGED <<rows, newest, hand, listed, replayed>>

(* _inventory                                                              *)
Scan(p) ==
  /\ Starting("scan") /\ listed[p] = Unseen
  /\ listed' = [listed EXCEPT ![p] = file[p]]
  /\ UNCHANGED <<rows, newest, hand, mode, replayed>>

-----------------------------------------------------------------------------
(* _reconcile_inventory: the files found, compared with the row.           *)
Found == {p \in Paths : listed[p] # Missing}

Settling ==
  /\ Starting("scan")
  /\ \A p \in Paths : listed[p] # Unseen
  /\ mode' = "settle"
  /\ UNCHANGED <<page, intent, del, strays, newest, listed, replayed>>

Noted(paths) ==
  /\ reported' = reported \cup paths
  /\ UNCHANGED <<occ, hand>>

NothingToDo == Noted({})

Begin(kind, p, old, step, d) ==
  /\ occ' = [occ EXCEPT ![p] = Occurrence(kind, old)]
  /\ GotoWith(p, step, d)
  /\ UNCHANGED reported

SettleDuplicates == Settling /\ Cardinality(Found) > 1 /\ Noted(Found)

SettleMissingIgnored == Settling /\ Found = {} /\ NothingToDo

(* No file declares the page.                                              *)
SettleMissing ==
  LET p == page.path
  IN  /\ Settling /\ Found = {}
      /\ \/ page.life # "deleted" /\ Writing /\ Noted({p})
         \/ /\ page.life = "deleted" \/ (~Writing /\ (file[p] # Missing \/ del[p] # NoDelete))
            /\ NothingToDo
         \/ /\ page.life # "deleted" /\ ~Writing /\ file[p] = Missing /\ del[p] = NoDelete
            /\ Begin("delete", p, NoPath, "queue", NoPath)

(* _apply_startup_ingest                                                   *)
SettleInPlace(p) ==
  LET unchanged == page.life = "active" /\ listed[p] = page.body /\ del[p] = NoDelete
  IN  /\ Settling /\ Found = {p} /\ page.path = p
      /\ \/ (p \in replayed \/ unchanged) /\ NothingToDo
         \/ p \notin replayed /\ ~unchanged /\ Writing /\ Noted({p})
         \/ /\ p \notin replayed /\ ~unchanged /\ ~Writing
            /\ IF del[p] = NoDelete THEN Begin("modify", p, NoPath, "same", NoPath)
               ELSE Begin("modify", p, NoPath, "cancel", p)

(* _apply_startup_move, which starts with the file as it is now.           *)
SettleMoved(p) ==
  LET old == page.path
      kind == IF file[p] = page.body THEN "rename" ELSE "relocate"
      unclear == file[p] = Missing \/ Queued \ {old} # {}
  IN  /\ Settling /\ Found = {p} /\ old # p /\ page.life # "deleted"
      /\ \/ (p \in replayed \/ (~Writing /\ unclear)) /\ NothingToDo
         \/ p \notin replayed /\ Writing /\ Noted({p})
         \/ /\ p \notin replayed /\ ~Writing /\ ~unclear
            /\ IF del[old] = NoDelete THEN Begin(kind, p, old, "resolve", NoPath)
               ELSE Begin(kind, p, old, "claim", old)

(* A deleted page's file at another path.  With a pending delete of that   *)
(* path the occurrence is left open.                                       *)
SettleReturned(p) ==
  /\ Settling /\ Found = {p} /\ page.path # p /\ page.life = "deleted"
  /\ \/ p \in replayed /\ NothingToDo
     \/ p \notin replayed /\ Writing /\ Noted({p})
     \/ /\ p \notin replayed /\ ~Writing
        /\ Begin("add", p, NoPath, IF del[p] = NoDelete THEN "same" ELSE "idle", NoPath)

(* The watcher starts, and the expiry loop.                                *)
GoLive ==
  /\ Starting("settle") /\ Busy = {}
  /\ mode' = "live"
  /\ UNCHANGED <<rows, newest, hand, listed, replayed>>

Starts ==
  \/ Boot \/ RecoverIntents \/ IntentsRecovered \/ AllReplayed
  \/ SettleDuplicates \/ SettleMissing \/ GoLive
  \/ \E p \in Paths : Replay(p) \/ Scan(p) \/ SettleInPlace(p) \/ SettleMoved(p) \/ SettleReturned(p)

-----------------------------------------------------------------------------
Executor == Take \/ Put \/ PutBlocked
Passes == IntentLapses \/ \E d \in Paths : GraceEnds(d) \/ DeadClaimLapses(d)

Next ==
  \/ Editor \/ PrepareEdit \/ Executor
  \/ \E p \in Paths : Handler(p)
  \/ Batch \/ Expiry \/ Passes
  \/ \E d \in Paths : LiveClaimLapses(d)
  \/ Crash \/ Starts

(* Fairness.  Every task of a running service goes on; time passes.  A     *)
(* handler that polls for a claim, or waits for the page's lock, gets it   *)
(* if it is free again and again.  A pass of expire_deletes tries every    *)
(* delete that is due, so one that fails each time starves no other.       *)
(* Nobody has to edit, and leases of a working owner need not lapse.       *)
Fairness ==
  /\ WF_vars(Executor) /\ WF_vars(Batch \/ Starts) /\ WF_vars(Expiry)
  /\ WF_vars(Passes)
  /\ \A p \in Paths : SF_vars(Handler(p)) /\ SF_vars(ClaimDue(p))

Spec == Init /\ [][Next]_vars
FairSpec == Spec /\ Fairness
-----------------------------------------------------------------------------
(* Properties.                                                             *)

(* The service's own replacement of a file, which has it missing for a     *)
(* moment, never deletes or moves the page, whatever the watcher makes of  *)
(* that moment and wherever the service crashes.                           *)
OwnWritesNeverDelete == ~removed => page.life = "active" /\ page.path = Home

(* A page is not deleted before every file noticed within the grace period *)
(* has been looked at: it may be the other half of a move.                 *)
DeleteWaitsForCandidates ==
  [][page.life # "deleted" /\ page'.life = "deleted" =>
       \A p \in Paths : occ[p].kind = "add" => page.path \in occ[p].late]_vars

(* Whoever takes the page to another path takes the pending delete of the  *)
(* old one with it, unless it has been carried out: what is left over      *)
(* would make every later arrival of a file ambiguous.  After a crash the  *)
(* replay finds such deletes (see MovedPageIsRestored).                    *)
PendingDeleteIsOfThePage ==
  crashes = 0 =>
    \A d \in Paths : del[d] # NoDelete => page.path = d \/ del[d].event = "applied"

(* Nothing is going on any more, and nothing is left to notice.            *)
Quiet ==
  /\ mode = "live" /\ expiry = NoExpiry /\ ~Writing /\ Queued = {}
  /\ \A p \in Paths : raw[p] = "quiet" /\ ~IsPending(p)

Agree ==
  \A p \in Paths :
    IF p # page.path THEN file[p] = Missing
    ELSE page.life = "active" => file[p] = page.body

(* Files and row never part in silence: when all is quiet they agree, or   *)
(* the path is reported, through any restart that had nothing to replay.   *)
(* A page that is marked invalid or deleted may still have its file.       *)
QuietMeansInSync == Quiet /\ reported = {} /\ replayed = {} => Agree

(* The same without the exception for replays.                             *)
RestartCatchesUp == Quiet /\ reported = {} => Agree

(* A deleted page whose file turns up at another path is active again.     *)
MovedPageIsRestored ==
  [][page.life = "deleted" /\ page'.path # page.path => page'.life = "active"]_vars

(* Again and again no occurrence is open: handlers that wait for a claim   *)
(* or for the page's lock do not wait for each other for ever.             *)
EveryOccurrenceSettles == []<>(\A p \in Paths : ~IsPending(p))

(* Again and again no delete is left pending: each is carried out,         *)
(* cancelled, taken by a move or reported, unless an intent that needs     *)
(* recovery stands in its way; also when its claim was left behind.        *)
DeleteIsDecided ==
  []<>(\A d \in Paths : del[d] = NoDelete \/ Writing \/ d \in reported)
=============================================================================
