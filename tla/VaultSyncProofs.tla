--------------------------- MODULE VaultSyncProofs ---------------------------
(***************************************************************************)
(* The safety of following the vault, for any paths, ways to edit and      *)
(* numbers of edits, changes, restarts and lapses: the service's own       *)
(* replacements never delete or move the page, a delete waits for the      *)
(* files noticed in its grace period, and who takes the page elsewhere     *)
(* takes the pending delete with it.  And under what conditions the files  *)
(* and the row of a vault at rest agree, or the path is reported.          *)
(***************************************************************************)
EXTENDS VaultSync, FiniteSetTheorems, TLAPS

-----------------------------------------------------------------------------
(* The inductive invariant.                                                *)

(* An intent came from an occurrence that is still pending.  Handlers work *)
(* between the recovery of intents and the next crash, and not while the   *)
(* files are listed; the expiry loop when the service is live.             *)
Tasks ==
  /\ \A p \in Paths : occ[p].kind = "none" => occ[p] = NoOccurrence
  /\ intent.occ # NoPath => IsPending(intent.occ)
  /\ \A p \in Paths : hand[p].at = "idle" => hand[p] = Idle
  /\ \A p \in Paths : hand[p].at = "ingest" => hand[p].seen # Missing
  /\ mode \in {"down", "recover", "execute", "scan"} => Busy = {}
  /\ mode # "live" => expiry = NoExpiry
  /\ expiry.at = "idle" => expiry = NoExpiry
  /\ mode \in {"down", "recover", "execute", "replay"} => \A p \in Paths : listed[p] = Unseen

(* The handler an intent came from waits for it, once the intents of an    *)
(* earlier process have been recovered.                                    *)
AtWorkOn(p) == hand[p].at = "wait" /\ occ[p].event = "prepared"
WaitsForIt ==
  /\ mode # "execute" /\ Executing /\ intent.occ # NoPath => AtWorkOn(intent.occ)
  /\ mode = "replay" /\ Executing => intent.occ # NoPath
  /\ mode = "scan" => ~Executing

(* As long as the editor takes no file away, only an intent does.          *)
OnlyWrites ==
  /\ page.life = "active" /\ page.path = Home
  /\ Writing => intent.path = Home
  /\ file[Home] = Missing => intent.held
  /\ mode = "scan" /\ listed[Home] = Missing => Writing
  /\ \A p \in Paths : occ[p].kind \notin {"rename", "relocate"} /\ hand[p].at # "move"

(* The page's lock has one holder.  A delete that the expiry loop works on *)
(* under the lock is due, or was cancelled by the handler of its path,     *)
(* which then waits for the lock; and it was due when whatever was added   *)
(* since was noticed.                                                      *)
HoldsLock == {"ingest", "move", "wait", "finish", "reject"}
LockHeld == expiry.at \in {"persist", "apply", "complete"}
Candidates ==
  /\ \A d \in Paths : del[d].owner = "expiry" => del[d].due
  /\ LockHeld => \A p \in Paths : hand[p].at \notin HoldsLock
  /\ expiry.at \in {"persist", "apply"} =>
       /\ del[expiry.del].due \/ hand[expiry.del].at = "same"
       /\ \A p \in Paths : occ[p].kind = "add" => expiry.del \in occ[p].late

(* Before the first crash: deletes are queued before any other path of the *)
(* batch is looked at, so that what a handler has found of them can only   *)
(* have become fewer; and the page's path changes when there is none left. *)
Early == {"idle", "queue", "defer", "look"}
OnePass ==
  \A p, q \in Paths : hand[p].at \notin Early => hand[q].at \notin {"queue", "defer"}
Knows(h, p) ==
  /\ h.at = "cancel" => Queued \subseteq {p}
  /\ h.at = "claim" => h.del # NoPath
  /\ h.at \in {"claim", "resolve", "move"} => Queued \subseteq {h.del}
  /\ h.at \in {"same", "ingest"} => Queued = {}
FirstEvent(h, p) ==
  h.at \notin {"idle", "wait", "finish", "reject"} => occ[p].event = "none"
FirstStart ==
  mode \notin {"settle", "live"} =>
    Queued = {} /\ ~Writing /\ \A p \in Paths : occ[p] = NoOccurrence
Moving == Executing /\ intent.path # page.path
NoCrash ==
  /\ FirstStart /\ OnePass
  /\ \A p \in Paths : Knows(hand[p], p) /\ FirstEvent(hand[p], p)
  /\ Writing => (intent.at = "ready" <=> Executing)
  /\ Moving => Queued = {} /\ intent.occ # NoPath
  /\ Queued \subseteq {page.path}

IInv ==
  /\ TypeOK /\ Tasks /\ WaitsForIt
  /\ ~removed => OnlyWrites
  /\ Candidates
  /\ crashes = 0 => NoCrash

-----------------------------------------------------------------------------
LEMMA InitIInv ==
  ASSUME Init
  PROVE  IInv
<1>1. TypeOK
  <2>1. page \in Row /\ intent \in Intent /\ NoOccurrence \in OccurrenceRow /\ Idle \in Hand
    BY VaultSyncAssumption DEF Init, Row, Intent, NoIntent, OccurrenceRow, NoOccurrence, Hand,
       Idle, Missing
  <2>2. NoDelete.state \in State
    BY DEF State
  <2>3. NoDelete \in DeleteRow /\ NoExpiry \in ExpiryTask
    BY <2>2 DEF DeleteRow, NoDelete, NoExpiry, ExpiryTask, Missing
  <2>4. file \in [Paths -> 0 .. newest] /\ listed \in [Paths -> -1 .. newest]
    BY DEF Init, Missing, Unseen
  <2>5. Busy = {} /\ ~Writing
    BY DEF Init, Busy, Writing
  <2>6. /\ occ \in [Paths -> OccurrenceRow] /\ del \in [Paths -> DeleteRow]
        /\ hand \in [Paths -> Hand] /\ expiry \in ExpiryTask /\ expiry = NoExpiry
    BY <2>1, <2>3 DEF Init
  <2>7. page.body \in 1 .. newest /\ strays \subseteq Paths \X (1 .. newest) /\ newest \in Nat \ {0}
    BY DEF Init
  <2> QED
    BY <2>1, <2>4, <2>5, <2>6, <2>7 DEF Init, TypeOK
<1>2. Tasks /\ WaitsForIt /\ Candidates
  BY VaultSyncAssumption DEF Init, Tasks, WaitsForIt, Candidates, NoIntent, NoDelete, Idle, NoExpiry, Busy,
     Executing, Writing, LockHeld, HoldsLock
<1>3. OnlyWrites /\ NoCrash
  BY VaultSyncAssumption DEF Init, OnlyWrites, NoCrash, FirstStart, OnePass, Knows, FirstEvent,
     Moving, Executing, Writing, Queued, NoIntent, NoDelete, NoOccurrence, Idle, Missing, Early
<1> QED
  BY <1>1, <1>2, <1>3 DEF IInv

-----------------------------------------------------------------------------
(* Kinds of steps, with what they leave alone.                             *)

(* No delete is added, claimed for the expiry loop, or becomes due.        *)
Loosens ==
  /\ del' \in [Paths -> DeleteRow]
  /\ \A d \in Paths : del'[d] # NoDelete => del[d] # NoDelete
  /\ \A d \in Paths : del'[d].owner = "expiry" => del[d].owner = "expiry"
  /\ \A d \in Paths : del'[d].due = del[d].due

LEMMA ReleaseLoosens ==
  ASSUME TypeOK, NEW p \in Paths, NEW d \in Paths \cup {NoPath},
         \/ del' = del
         \/ del' = ReleasedBy(d, p)
         \/ Owned(d, p) /\ del' = [del EXCEPT ![d].owner = "gone"]
  PROVE  Loosens
<1>1. del \in [Paths -> DeleteRow]
  BY DEF TypeOK
<1>2. CASE del' = del
  BY <1>1, <1>2 DEF Loosens
<1>3. ASSUME Owned(d, p), NEW owner \in {"none", "gone"}, NEW fresh \in BOOLEAN,
             del' = [del EXCEPT ![d] = [del[d] EXCEPT !.owner = owner, !.fresh = fresh]]
      PROVE  Loosens
  <2>1. d \in Paths /\ del[d].owner = p /\ p # "none"
    BY <1>3, VaultSyncAssumption DEF Owned
  <2>2. del[d] # NoDelete
    BY <2>1 DEF NoDelete
  <2>3. /\ del'[d] = [del[d] EXCEPT !.owner = owner, !.fresh = fresh]
        /\ \A q \in Paths \ {d} : del'[q] = del[q]
    BY <1>1, <1>3, <2>1
  <2>5. del'[d] \in DeleteRow /\ del'[d].due = del[d].due /\ del'[d].owner = owner
    <3>1. del[d] \in DeleteRow /\ owner \in {"none", "gone"} /\ fresh \in BOOLEAN
      BY <1>1, <1>3, <2>1
    <3> QED
      BY <2>3, <3>1 DEF DeleteRow
  <2>4. del' \in [Paths -> DeleteRow]
    BY <1>1, <1>3, <2>1, <2>3, <2>5
  <2> QED
    BY <1>3, <2>1, <2>2, <2>3, <2>4, <2>5 DEF Loosens
<1>4. CASE del' = ReleasedBy(d, p) /\ Owned(d, p)
  BY <1>1, <1>3, <1>4 DEF ReleasedBy
<1>5. CASE Owned(d, p) /\ del' = [del EXCEPT ![d].owner = "gone"]
  <2>1. d \in Paths /\ del[d].fresh \in BOOLEAN
        /\ [del[d] EXCEPT !.owner = "gone", !.fresh = del[d].fresh] = [del[d] EXCEPT !.owner = "gone"]
    BY <1>1, <1>5 DEF Owned, DeleteRow
  <2> QED
    BY <1>3, <1>5, <2>1
<1> QED
  BY <1>2, <1>4, <1>5 DEF ReleasedBy

(* A handler comes to an end.                                              *)
Ends(p) ==
  /\ occ' = [occ EXCEPT ![p] = NoOccurrence]
  /\ hand' = [hand EXCEPT ![p] = Idle]
  /\ intent' = Untied(p)
  /\ Loosens
  /\ reported' \subseteq Paths /\ replayed' \subseteq Paths
  /\ UNCHANGED <<disk, page, strays, newest, expiry, mode, listed, history, counters>>

LEMMA EndKeeps ==
  ASSUME IInv, NEW p \in Paths, Ends(p), ~(Executing /\ intent.occ = p),
         hand[p].at = "same" => ~LockHeld
  PROVE  IInv'
<1> USE DEF Ends, Loosens, disk, history, counters
<1>0. TypeOK
  BY DEF IInv
<1>1. /\ hand'[p] = Idle /\ \A q \in Paths \ {p} : hand'[q] = hand[q]
      /\ occ'[p] = NoOccurrence /\ \A q \in Paths \ {p} : occ'[q] = occ[q]
      /\ hand' \in [Paths -> Hand] /\ occ' \in [Paths -> OccurrenceRow]
  <2>1. Idle \in Hand /\ NoOccurrence \in OccurrenceRow
    BY DEF Hand, Idle, OccurrenceRow, NoOccurrence, Missing
  <2> QED
    BY <1>0, <2>1 DEF TypeOK
<1>2. /\ intent' \in Intent /\ intent'.path = intent.path /\ intent'.at = intent.at
      /\ intent'.owner = intent.owner /\ intent'.held = intent.held /\ intent'.rev = intent.rev
      /\ intent'.occ \in {intent.occ, NoPath} /\ intent'.occ # p
  BY <1>0, VaultSyncAssumption DEF TypeOK, Intent, Untied
<1>3. (Writing' <=> Writing) /\ (Executing' <=> Executing) /\ (Executing => intent' = intent)
  <2>1. CASE intent.occ # p
    <3>1. intent' = intent
      BY <2>1 DEF Untied
    <3> QED
      BY <3>1 DEF Executing, Writing
  <2>2. CASE intent.occ = p
    <3>1. intent # NoIntent /\ intent.path # NoPath
      BY <1>0, <2>2, VaultSyncAssumption DEF TypeOK, Writing, NoIntent
    <3>2. intent' # NoIntent
      BY <1>2, <3>1 DEF NoIntent
    <3> QED
      BY <1>2, <2>2, <3>1, <3>2 DEF Executing, Writing
  <2> QED
    BY <2>1, <2>2
<1>4. TypeOK'
  <2>1. \A q \in Busy' : q \in Busy /\ IsPending(q)' /\ hand'[q].seen <= newest
    BY <1>0, <1>1 DEF TypeOK, Busy, IsPending
  <2> QED
    BY <1>0, <1>1, <1>2, <1>3, <2>1 DEF TypeOK
<1>5. Tasks'
  BY <1>0, <1>1, <1>2 DEF IInv, Tasks, TypeOK, Intent, Busy, Idle, IsPending
<1>6. WaitsForIt'
  BY <1>0, <1>1, <1>2, <1>3 DEF IInv, WaitsForIt, AtWorkOn, TypeOK, Intent
<1>7. ~removed' => OnlyWrites'
  BY <1>1, <1>2, <1>3 DEF IInv, OnlyWrites, Idle, NoOccurrence
<1>8. Candidates'
  <2>1. LockHeld' <=> LockHeld
    BY DEF LockHeld
  <2>2. \A d \in Paths : del'[d].owner = "expiry" => del'[d].due
    BY DEF IInv, Candidates
  <2>3. LockHeld => \A q \in Paths : hand'[q].at \notin HoldsLock
    BY <1>1 DEF IInv, Candidates, HoldsLock, Idle
  <2>4. ASSUME expiry.at \in {"persist", "apply"}
        PROVE  /\ del'[expiry.del].due \/ hand'[expiry.del].at = "same"
               /\ \A q \in Paths : occ'[q].kind = "add" => expiry.del \in occ'[q].late
    <3>1. expiry.del \in Paths
      BY <1>0, <2>4 DEF TypeOK, ExpiryTask, NoExpiry
    <3>2. expiry.del # p \/ hand[p].at # "same"
      BY <2>4 DEF LockHeld
    <3> QED
      BY <1>1, <2>4, <3>1, <3>2 DEF IInv, Candidates, NoOccurrence
  <2> QED
    BY <2>1, <2>2, <2>3, <2>4 DEF Candidates
<1>9. crashes' = 0 => NoCrash'
  <2> SUFFICES ASSUME crashes = 0 PROVE NoCrash'
    OBVIOUS
  <2>1. NoCrash
    BY DEF IInv
  <2>2. Queued' \subseteq Queued
    BY DEF Queued
  <2>3. FirstStart'
    BY <1>1, <1>3, <2>1, <2>2 DEF NoCrash, FirstStart
  <2>4. OnePass'
    BY <1>1, <2>1 DEF NoCrash, OnePass, Early, Idle
  <2>5. \A q \in Paths : Knows(hand[q], q)' /\ FirstEvent(hand[q], q)'
    BY <1>1, <2>1, <2>2 DEF NoCrash, Knows, FirstEvent, Idle
  <2>6. Moving' => Moving
    BY <1>2, <1>3 DEF Moving
  <2> QED
    BY <1>2, <1>3, <2>1, <2>2, <2>3, <2>4, <2>5, <2>6 DEF NoCrash, Moving
<1> QED
  BY <1>4, <1>5, <1>6, <1>7, <1>8, <1>9 DEF IInv

(* A handler goes to another step, and may record an event, change the     *)
(* page, open an intent or go on with one, and claim or remove deletes.    *)
MayGo(p, h) ==
  /\ h \in Hand /\ h.at # "idle" /\ h.seen <= newest
  /\ h.at = "ingest" => h.seen # Missing
  /\ h.at \in HoldsLock \/ hand[p].at = "same" => ~LockHeld
  /\ h.at = "move" => removed

Fewer(p, h) ==
  /\ del' \in [Paths -> DeleteRow]
  /\ \A d \in Paths : del'[d] # NoDelete => del[d] # NoDelete
  /\ \A d \in Paths :
       del'[d].owner = "expiry" => del[d].owner = "expiry" /\ del'[d].due = del[d].due
  /\ LockHeld => \A d \in Paths :
       del[d].due => del'[d].due \/ (d = p /\ h.at = "same")

Typed ==
  /\ newest' \in Nat /\ newest' >= newest
  /\ page' \in Row /\ page'.body \in 1 .. newest'
  /\ strays' \subseteq Paths \X (1 .. newest')
  /\ intent' \in Intent /\ (Writing' => intent'.path # NoPath /\ intent'.rev \in 1 .. newest')

Serves(p, h, o) ==
  /\ intent'.occ \in {intent.occ, p, NoPath}
  /\ Executing' =>
       \/ intent'.occ = p /\ h.at = "wait" /\ o.event = "prepared"
       \/ intent' = intent /\ intent.occ # p

StaysHome ==
  ~removed =>
    /\ page'.life = "active" /\ page'.path = Home
    /\ Writing' => intent'.path = Home
    /\ file[Home] = Missing => intent'.held

Follows(p, h, o) ==
  /\ h.at = "cancel" => Queued' \subseteq {p}
  /\ h.at = "claim" => h.del # NoPath
  /\ h.at \in {"claim", "resolve", "move"} => Queued' \subseteq {h.del}
  /\ h.at \in {"same", "ingest"} => Queued' = {}
  /\ h.at \notin {"idle", "wait", "finish", "reject"} => o.event = "none"
  /\ h.at \notin Early => \A q \in Paths : hand[q].at \notin {"queue", "defer"} \/ q = p
  /\ h.at \in {"queue", "defer"} => \A q \in Paths : hand[q].at \in Early \/ q = p
  /\ Writing' => (intent'.at = "ready" <=> Executing')
  /\ Moving' => Queued' = {} /\ intent'.occ # NoPath
  /\ Queued' \subseteq {page'.path}

LEMMA StepKeeps ==
  ASSUME IInv, NEW p \in Paths, NEW h, NEW o,
         hand' = [hand EXCEPT ![p] = h], occ' = [occ EXCEPT ![p] = o],
         replayed' \subseteq Paths,
         UNCHANGED <<disk, expiry, mode, listed, reported, history, counters>>,
         mode \in {"replay", "settle", "live"}, IsPending(p),
         o \in OccurrenceRow, o.kind = occ[p].kind, o.late = occ[p].late, o # NoOccurrence,
         MayGo(p, h), Fewer(p, h), Typed, Serves(p, h, o), StaysHome,
         crashes = 0 => Follows(p, h, o)
  PROVE  IInv'
<1> USE DEF disk, history, counters
<1>0. TypeOK
  BY DEF IInv
<1>1. /\ hand'[p] = h /\ (\A q \in Paths \ {p} : hand'[q] = hand[q]) /\ hand' \in [Paths -> Hand]
      /\ occ'[p] = o /\ (\A q \in Paths \ {p} : occ'[q] = occ[q])
      /\ occ' \in [Paths -> OccurrenceRow]
  BY <1>0 DEF TypeOK, MayGo
<1>2. Queued' \subseteq Queued
  BY DEF Queued, Fewer
<1>4. TypeOK'
  <2>1. \A q \in Busy' : IsPending(q)' /\ hand'[q].seen <= newest'
    BY <1>0, <1>1 DEF TypeOK, Busy, MayGo, IsPending, Typed, Hand
  <2>2. newest' \in Nat \ {0} /\ 0 .. newest \subseteq 0 .. newest' /\ -1 .. newest \subseteq -1 .. newest'
    BY <1>0 DEF TypeOK, Typed
  <2>3. file' \in [Paths -> 0 .. newest'] /\ listed' \in [Paths -> -1 .. newest']
    BY <1>0, <2>2 DEF TypeOK
  <2>4. del' \in [Paths -> DeleteRow]
    BY DEF Fewer
  <2>5. expiry' \in ExpiryTask /\ (expiry' # NoExpiry => expiry'.del # NoPath)
    BY <1>0 DEF TypeOK
  <2> QED
    BY <1>0, <1>1, <2>1, <2>2, <2>3, <2>4, <2>5 DEF TypeOK, Typed
<1>5. Tasks'
  <2>1. o.kind # "none"
    BY DEF IInv, Tasks, IsPending
  <2>2. \A q \in Paths : occ'[q].kind = "none" => occ'[q] = NoOccurrence
    BY <1>1, <2>1 DEF IInv, Tasks
  <2>3. intent'.occ # NoPath => IsPending(intent.occ)'
    BY <1>0, <1>1 DEF IInv, Tasks, Serves, IsPending, TypeOK, Intent
  <2> QED
    BY <1>1, <2>2, <2>3 DEF IInv, Tasks, Busy, Idle, MayGo
<1>6. WaitsForIt'
  <2>1. Executing' /\ intent' = intent => Executing
    BY DEF Executing, Writing
  <2>2. ASSUME Executing', intent'.occ # NoPath PROVE AtWorkOn(intent.occ)'
    <3>1. CASE intent'.occ = p
      BY <1>0, <1>1, <2>1, <2>2, <3>1 DEF IInv, WaitsForIt, AtWorkOn, Serves
    <3>2. CASE intent'.occ # p
      <4>1. intent' = intent /\ Executing /\ AtWorkOn(intent.occ)
        BY <2>1, <2>2, <3>2 DEF IInv, WaitsForIt, Serves
      <4>2. intent.occ \in Paths \ {p}
        BY <1>0, <2>2, <3>2, <4>1 DEF TypeOK, Intent
      <4> QED
        BY <1>1, <4>1, <4>2 DEF AtWorkOn
    <3> QED
      BY <3>1, <3>2
  <2>3. ASSUME mode = "replay", Executing' PROVE intent'.occ # NoPath
    <3>1. p # NoPath
      BY VaultSyncAssumption
    <3> QED
      BY <2>1, <2>3, <3>1 DEF IInv, WaitsForIt, Serves
  <2> QED
    BY <2>2, <2>3 DEF WaitsForIt
<1>7. ~removed' => OnlyWrites'
  BY <1>1 DEF IInv, OnlyWrites, MayGo, StaysHome
<1>8. Candidates'
  <2>1. LockHeld' <=> LockHeld
    BY DEF LockHeld
  <2>2. LockHeld => \A q \in Paths : hand'[q].at \notin HoldsLock
    BY <1>1 DEF IInv, Candidates, MayGo
  <2>3. ASSUME expiry.at \in {"persist", "apply"}
        PROVE  del'[expiry.del].due \/ hand'[expiry.del].at = "same"
    <3>1. expiry.del \in Paths /\ LockHeld
      BY <1>0, <2>3 DEF TypeOK, ExpiryTask, NoExpiry, LockHeld
    <3>2. expiry.del # p \/ hand[p].at # "same"
      BY <3>1 DEF MayGo
    <3> QED
      BY <1>1, <2>3, <3>1, <3>2 DEF IInv, Candidates, Fewer
  <2>4. \A d \in Paths : del'[d].owner = "expiry" => del'[d].due
    BY DEF IInv, Candidates, Fewer
  <2>5. ASSUME expiry.at \in {"persist", "apply"}, NEW q \in Paths, occ'[q].kind = "add"
        PROVE  expiry.del \in occ'[q].late
    BY <1>1, <2>5 DEF IInv, Candidates
  <2> QED
    BY <2>1, <2>2, <2>3, <2>4, <2>5 DEF Candidates
<1>9. crashes' = 0 => NoCrash'
  <2> SUFFICES ASSUME crashes = 0 PROVE NoCrash'
    OBVIOUS
  <2>1. NoCrash /\ Follows(p, h, o)
    BY DEF IInv
  <2>2. FirstStart'
    BY <2>1 DEF NoCrash, FirstStart, IsPending
  <2>3. OnePass'
    BY <1>1, <2>1 DEF NoCrash, OnePass, Early, Follows
  <2>4. ASSUME NEW q \in Paths PROVE Knows(hand[q], q)' /\ FirstEvent(hand[q], q)'
    <3>1. CASE q = p
      BY <1>1, <2>1, <3>1 DEF Knows, FirstEvent, Follows
    <3>2. CASE q # p
      BY <1>1, <1>2, <2>1, <3>2 DEF NoCrash, Knows, FirstEvent
    <3> QED
      BY <3>1, <3>2
  <2> QED
    BY <2>1, <2>2, <2>3, <2>4 DEF NoCrash, Follows
<1> QED
  BY <1>4, <1>5, <1>6, <1>7, <1>8, <1>9 DEF IInv

LEMMA MoveKeeps ==
  ASSUME IInv, NEW p \in Paths, NEW h,
         hand' = [hand EXCEPT ![p] = h], replayed' \subseteq Paths,
         UNCHANGED <<disk, rows, newest, expiry, mode, listed, history, counters>>,
         mode \in {"replay", "settle", "live"}, IsPending(p), MayGo(p, h),
         Executing /\ intent.occ = p => h.at = "wait" /\ occ[p].event = "prepared",
         crashes = 0 =>
           /\ Knows(h, p) /\ FirstEvent(h, p)
           /\ h.at \notin Early => \A q \in Paths : hand[q].at \notin {"queue", "defer"} \/ q = p
           /\ h.at \in {"queue", "defer"} => \A q \in Paths : hand[q].at \in Early \/ q = p
  PROVE  IInv'
<1> USE DEF rows
<1>0. TypeOK
  BY DEF IInv
<1> DEFINE o == occ[p]
<1>1. o \in OccurrenceRow /\ o # NoOccurrence /\ occ' = [occ EXCEPT ![p] = o]
  BY <1>0 DEF TypeOK, IsPending
<1>2. Fewer(p, h) /\ Typed
  BY <1>0 DEF Fewer, TypeOK, Typed, Writing
<1>3. Serves(p, h, o)
  BY DEF Serves, Executing, Writing
<1>4. StaysHome
  BY DEF IInv, OnlyWrites, StaysHome, Writing
<1>5. crashes = 0 => Follows(p, h, o)
  <2>1. Queued' = Queued /\ (Writing' <=> Writing) /\ (Executing' <=> Executing) /\ (Moving' <=> Moving)
    BY DEF Queued, Writing, Executing, Moving
  <2> QED
    BY <2>1 DEF IInv, NoCrash, Follows, Knows, FirstEvent
<1> HIDE DEF o
<1> QED
  BY <1>0, <1>1, <1>2, <1>3, <1>4, <1>5, StepKeeps DEF o

-----------------------------------------------------------------------------
(* Handlers.                                                               *)
LEMMA AtStep ==
  ASSUME TypeOK, NEW p \in Paths, NEW d \in Paths \cup {NoPath},
         NEW step \in {"idle", "queue", "defer", "look", "cancel", "same", "sort", "claim",
                       "resolve", "move", "ingest", "wait", "finish", "reject"}
  PROVE  /\ Goto(p, step) => \E h \in Hand :
              /\ hand' = [hand EXCEPT ![p] = h]
              /\ h.at = step /\ h.del = hand[p].del /\ h.seen = hand[p].seen
         /\ GotoWith(p, step, d) => \E h \in Hand :
              /\ hand' = [hand EXCEPT ![p] = h]
              /\ h.at = step /\ h.del = d /\ h.seen = hand[p].seen
         /\ See(p, step) => \E h \in Hand :
              /\ hand' = [hand EXCEPT ![p] = h]
              /\ h.at = step /\ h.del = hand[p].del /\ h.seen = file[p]
<1>1. hand[p] \in Hand /\ file[p] \in Nat
  BY DEF TypeOK
<1>2. Goto(p, step) => hand' = [hand EXCEPT ![p] = [hand[p] EXCEPT !.at = step]]
  BY DEF Goto
<1>3. GotoWith(p, step, d) => hand' = [hand EXCEPT ![p] = [hand[p] EXCEPT !.at = step, !.del = d]]
  BY DEF GotoWith
<1>4. See(p, step) => hand' = [hand EXCEPT ![p] = [hand[p] EXCEPT !.at = step, !.seen = file[p]]]
  BY DEF See
<1>5. \A x \in Paths \cup {NoPath}, n \in Nat :
        /\ [hand[p] EXCEPT !.at = step] \in Hand
        /\ [hand[p] EXCEPT !.at = step, !.del = x] \in Hand
        /\ [hand[p] EXCEPT !.at = step, !.seen = n] \in Hand
  BY <1>1 DEF Hand
<1>6. /\ hand[p] = [at |-> hand[p].at, del |-> hand[p].del, seen |-> hand[p].seen]
  BY <1>1 DEF Hand
<1> QED
  BY <1>1, <1>2, <1>3, <1>4, <1>5, <1>6

LEMMA Handles ==
  ASSUME IInv, NEW p \in Paths, hand[p].at # "idle"
  PROVE  /\ mode \in {"replay", "settle", "live"} /\ IsPending(p)
         /\ hand[p] \in Hand /\ hand[p].seen <= newest /\ newest \in Nat \ {0}
         /\ file[p] \in 0 .. newest /\ replayed \subseteq Paths
         /\ Executing /\ intent.occ = p => AtWorkOn(p)
         /\ hand[p].at \in HoldsLock => ~LockHeld
         /\ LockFree => ~LockHeld
<1>1. p \in Busy /\ p # NoPath
  BY VaultSyncAssumption DEF Busy, Idle
<1>2. mode \in {"replay", "settle", "live"}
  BY <1>1 DEF IInv, TypeOK, Tasks
<1> QED
  BY <1>1, <1>2 DEF IInv, TypeOK, WaitsForIt, Candidates, LockFree, LockHeld

LEMMA EndIsAnEnd ==
  ASSUME IInv, NEW p \in Paths, NEW bad \in BOOLEAN, End(p, bad),
         Loosens, replayed' \subseteq Paths,
         UNCHANGED <<disk, page, strays, newest, expiry, mode, listed, history, counters>>
  PROVE  Ends(p)
  BY DEF End, Ends, IInv, TypeOK

(* A handler ends otherwise than by its intent.                            *)
LEMMA HandlerEnds ==
  ASSUME IInv, NEW p \in Paths, hand[p].at \notin {"idle", "wait"}, Ends(p),
         hand[p].at = "same" => LockFree
  PROVE  IInv'
<1>1. ~(Executing /\ intent.occ = p)
  BY Handles DEF AtWorkOn
<1>2. LockFree => ~LockHeld
  BY DEF LockFree, LockHeld
<1> QED
  BY <1>1, <1>2, EndKeeps

LEMMA HandlerFails ==
  ASSUME IInv, NEW p \in Paths, NEW table, FailLeaving(p, table),
         \/ table = del
         \/ table = ReleasedBy(hand[p].del, p)
         \/ Owned(hand[p].del, p) /\ table = [del EXCEPT ![hand[p].del].owner = "gone"],
         hand[p].at \notin {"idle", "wait"}, hand[p].at = "same" => LockFree,
         UNCHANGED <<disk, expiry, start, history, counters>>
  PROVE  IInv'
<1>1. TypeOK /\ hand[p].del \in Paths \cup {NoPath} /\ replayed' \subseteq Paths
  BY Handles DEF IInv, Hand, start, TypeOK
<1>2. Loosens
  BY <1>1, ReleaseLoosens DEF FailLeaving
<1>3. Ends(p)
  BY <1>1, <1>2, EndIsAnEnd DEF FailLeaving, start
<1> QED
  BY <1>3, HandlerEnds

(* A handler goes on to another step, in the order the steps have.         *)
InOrder(p, h) ==
  \/ hand[p].at = "queue" /\ h.at = "defer"
  \/ /\ h.at \notin Early
     /\ hand[p].at \notin Early \/ \A q \in Paths : hand[q].at \notin {"queue", "defer"}

LEMMA OrderKept ==
  ASSUME NoCrash, NEW p \in Paths, NEW h, InOrder(p, h)
  PROVE  /\ h.at \notin Early => \A q \in Paths : hand[q].at \notin {"queue", "defer"} \/ q = p
         /\ h.at \in {"queue", "defer"} => \A q \in Paths : hand[q].at \in Early \/ q = p
  BY DEF NoCrash, OnePass, InOrder, Early

LEMMA HandlerMoves ==
  ASSUME IInv, NEW p \in Paths, NEW from, Handling(p, from), from \notin {"idle", "wait"},
         OnlyMoves, UNCHANGED returned,
         NEW h \in Hand, hand' = [hand EXCEPT ![p] = h], h.at # "idle", h.seen <= newest,
         h.at = "ingest" => h.seen # Missing, h.at = "move" => removed,
         h.at \in HoldsLock \/ from = "same" => LockFree,
         InOrder(p, h), crashes = 0 => Knows(h, p) /\ FirstEvent(h, p)
  PROVE  IInv'
<1>1. hand[p].at = from /\ MayGo(p, h)
  BY Handles DEF Handling, MayGo
<1>2. /\ UNCHANGED <<disk, rows, newest, expiry, mode, listed, history, counters>>
      /\ replayed' \subseteq Paths /\ mode \in {"replay", "settle", "live"} /\ IsPending(p)
      /\ ~(Executing /\ intent.occ = p)
  BY <1>1, Handles DEF Handling, OnlyMoves, start, history, AtWorkOn
<1>3. crashes = 0 =>
        /\ h.at \notin Early => \A q \in Paths : hand[q].at \notin {"queue", "defer"} \/ q = p
        /\ h.at \in {"queue", "defer"} => \A q \in Paths : hand[q].at \in Early \/ q = p
  BY OrderKept DEF IInv
<1> QED
  BY <1>1, <1>2, <1>3, MoveKeeps

(* Without a removal by the editor nothing looks like a move.              *)
LEMMA EvidenceIsRemoval ==
  ASSUME IInv, NEW d \in Paths, NEW p \in Paths, MoveEvidence(d, p)
  PROVE  removed
  BY DEF IInv, OnlyWrites, MoveEvidence, Writing, NoIntent

LEMMA DeferKeeps ==
  ASSUME IInv, NEW p \in Paths, Defer(p)
  PROVE  IInv'
<1>1. hand[p].at = "defer"
  BY DEF Defer, Handling
<1>2. Loosens
  BY ReleaseLoosens DEF IInv, Defer
<1>3. Ends(p)
  BY <1>1, <1>2, Handles, EndIsAnEnd DEF Defer, Handling, start, history
<1> QED
  BY <1>1, <1>3, HandlerEnds

LEMMA LookKeeps ==
  ASSUME IInv, NEW p \in Paths, Look(p)
  PROVE  IInv'
<1>0. TypeOK /\ Handling(p, "look") /\ hand[p].at = "look"
  BY DEF IInv, Look, Handling
<1>1. CASE Fail(p)
  BY <1>0, <1>1, HandlerFails DEF Look, Handling, Fail, history
<1>2. CASE del[p] # NoDelete /\ GotoWith(p, "cancel", p) /\ OnlyMoves
  <2>1. PICK h \in Hand : hand' = [hand EXCEPT ![p] = h] /\ h.at = "cancel" /\ h.seen = hand[p].seen
    BY <1>0, <1>2, AtStep
  <2>2. crashes = 0 => Knows(h, p) /\ FirstEvent(h, p)
    BY <1>0, <1>2, <2>1 DEF IInv, NoCrash, Knows, FirstEvent, Queued
  <2> QED
    BY <1>0, <1>2, <2>1, <2>2, Handles, HandlerMoves DEF Look, InOrder, Early, HoldsLock
<1>3. CASE del[p] = NoDelete /\ Goto(p, "sort") /\ OnlyMoves
  <2>1. PICK h \in Hand : hand' = [hand EXCEPT ![p] = h] /\ h.at = "sort" /\ h.seen = hand[p].seen
    BY <1>0, <1>3, AtStep, VaultSyncAssumption
  <2>2. crashes = 0 => Knows(h, p) /\ FirstEvent(h, p)
    BY <1>0, <1>3, <2>1 DEF IInv, NoCrash, Knows, FirstEvent
  <2> QED
    BY <1>0, <1>3, <2>1, <2>2, Handles, HandlerMoves DEF Look, InOrder, Early, HoldsLock
<1> QED
  BY <1>1, <1>2, <1>3 DEF Look

LEMMA CancelDeleteKeeps ==
  ASSUME IInv, NEW p \in Paths, CancelDelete(p)
  PROVE  IInv'
<1>0. TypeOK /\ hand[p].at = "cancel" /\ del \in [Paths -> DeleteRow]
  BY DEF IInv, CancelDelete, Handling, TypeOK
<1>1. PICK h \in Hand : hand' = [hand EXCEPT ![p] = h] /\ h.at = "same" /\ h.seen = hand[p].seen
  BY <1>0, AtStep DEF CancelDelete
<1> DEFINE o == occ[p]
<1>2. o \in OccurrenceRow /\ o # NoOccurrence /\ occ' = [occ EXCEPT ![p] = o]
  BY <1>0, Handles DEF TypeOK, IsPending, CancelDelete
<1>3. MayGo(p, h)
  BY <1>0, <1>1, Handles DEF MayGo, HoldsLock
<1>4. /\ del'[p] = NoDelete /\ \A d \in Paths \ {p} : del'[d] = del[d]
      /\ del' \in [Paths -> DeleteRow]
  <2>1. NoDelete \in DeleteRow
    BY DEF NoDelete, DeleteRow, State, Missing
  <2> QED
    BY <1>0, <2>1 DEF CancelDelete
<1>5. Fewer(p, h)
  BY <1>1, <1>4 DEF Fewer, NoDelete
<1>6. UNCHANGED <<page, intent, strays, newest>> /\ Typed
  BY <1>0 DEF CancelDelete, Typed, TypeOK, Writing
<1>7. Serves(p, h, o)
  BY <1>0, <1>6, Handles DEF Serves, Executing, Writing, AtWorkOn
<1>8. StaysHome
  BY <1>6 DEF IInv, OnlyWrites, StaysHome, Writing
<1>9. crashes = 0 => Follows(p, h, o)
  <2> SUFFICES ASSUME NoCrash PROVE Follows(p, h, o)
    BY DEF IInv
  <2>1. Queued \subseteq {p} /\ Queued' = {}
    BY <1>0, <1>4 DEF NoCrash, Knows, Queued
  <2>2. (Writing' <=> Writing) /\ (Executing' <=> Executing) /\ (Moving' <=> Moving)
    BY <1>6 DEF Writing, Executing, Moving
  <2> QED
    BY <1>0, <1>1, <1>6, <2>1, <2>2, OrderKept DEF NoCrash, FirstEvent, Follows, InOrder, Early
<1> HIDE DEF o
<1> QED
  BY <1>0, <1>1, <1>2, <1>3, <1>5, <1>6, <1>7, <1>8, <1>9, Handles, StepKeeps
  DEF o, CancelDelete, Handling, start, history

LEMMA SamePathKeeps ==
  ASSUME IInv, NEW p \in Paths, SamePath(p)
  PROVE  IInv'
<1>0. TypeOK /\ Handling(p, "same") /\ hand[p].at = "same" /\ LockFree
  BY DEF IInv, SamePath, Handling
<1>1. CASE End(p, FALSE) /\ UNCHANGED <<page, del, strays, newest>>
  <2>1. Loosens
    BY <1>0, <1>1, ReleaseLoosens
  <2>2. Ends(p)
    BY <1>0, <1>1, <2>1, Handles, EndIsAnEnd DEF SamePath, Handling, start, history
  <2> QED
    BY <1>0, <2>2, HandlerEnds
<1>2. CASE Fail(p)
  BY <1>0, <1>2, HandlerFails DEF SamePath, Handling, Fail, history
<1>3. CASE file[p] # Missing /\ See(p, "ingest") /\ OnlyMoves
  <2>1. PICK h \in Hand : hand' = [hand EXCEPT ![p] = h] /\ h.at = "ingest" /\ h.seen = file[p]
    BY <1>0, <1>3, AtStep, VaultSyncAssumption
  <2>2. crashes = 0 => Knows(h, p) /\ FirstEvent(h, p)
    BY <1>0, <2>1 DEF IInv, NoCrash, Knows, FirstEvent
  <2>3. InOrder(p, h) /\ h.seen <= newest /\ h.seen # Missing
    BY <1>0, <1>3, <2>1, Handles DEF InOrder, Early
  <2> QED
    BY <1>0, <1>3, <2>1, <2>2, <2>3, HandlerMoves DEF SamePath
<1> QED
  BY <1>1, <1>2, <1>3 DEF SamePath

LEMMA SortKeeps ==
  ASSUME IInv, NEW p \in Paths, Sort(p)
  PROVE  IInv'
<1>0. TypeOK /\ Handling(p, "sort") /\ hand[p].at = "sort" /\ LockFree
  BY DEF IInv, Sort, Handling
<1>1. CASE file[p] # Missing /\ Queued = {} /\ See(p, "ingest") /\ OnlyMoves
  <2>1. PICK h \in Hand : hand' = [hand EXCEPT ![p] = h] /\ h.at = "ingest" /\ h.seen = file[p]
    BY <1>0, <1>1, AtStep, VaultSyncAssumption
  <2>2. crashes = 0 => Knows(h, p) /\ FirstEvent(h, p)
    BY <1>0, <1>1, <2>1 DEF IInv, NoCrash, Knows, FirstEvent
  <2>3. InOrder(p, h) /\ h.seen <= newest /\ h.seen # Missing
    BY <1>0, <1>1, <2>1, Handles DEF InOrder, Early
  <2> QED
    BY <1>0, <1>1, <2>1, <2>2, <2>3, HandlerMoves DEF Sort
<1>2. ASSUME NEW d \in Queued, Queued = {d}, GotoWith(p, "claim", d), OnlyMoves
      PROVE  IInv'
  <2>1. d \in Paths /\ d # NoPath
    BY VaultSyncAssumption DEF Queued
  <2>2. PICK h \in Hand : /\ hand' = [hand EXCEPT ![p] = h] /\ h.at = "claim" /\ h.del = d
                          /\ h.seen = hand[p].seen
    BY <1>0, <1>2, <2>1, AtStep
  <2>3. crashes = 0 => Knows(h, p) /\ FirstEvent(h, p)
    BY <1>0, <1>2, <2>1, <2>2 DEF IInv, NoCrash, Knows, FirstEvent
  <2> QED
    BY <1>0, <1>2, <2>2, <2>3, Handles, HandlerMoves DEF Sort, InOrder, Early
<1>3. CASE Fail(p)
  BY <1>0, <1>3, HandlerFails DEF Sort, Handling, Fail, history
<1> QED
  BY <1>1, <1>2, <1>3 DEF Sort

LEMMA ClaimDeleteKeeps ==
  ASSUME IInv, NEW p \in Paths, ClaimDelete(p)
  PROVE  IInv'
<1> DEFINE d == hand[p].del
           o == occ[p]
<1>0. TypeOK /\ Handling(p, "claim") /\ hand[p].at = "claim" /\ d \in Paths \cup {NoPath}
  BY Handles DEF IInv, ClaimDelete, Handling, Hand
<1>1. CASE del[d] = NoDelete /\ GotoWith(p, "resolve", NoPath) /\ UNCHANGED del
  <2>1. PICK h \in Hand : /\ hand' = [hand EXCEPT ![p] = h] /\ h.at = "resolve" /\ h.del = NoPath
                          /\ h.seen = hand[p].seen
    BY <1>0, <1>1, AtStep
  <2>2. crashes = 0 => Knows(h, p) /\ FirstEvent(h, p)
    BY <1>0, <1>1, <2>1 DEF IInv, NoCrash, Knows, FirstEvent, Queued
  <2>3. OnlyMoves /\ UNCHANGED returned
    BY <1>1 DEF ClaimDelete, OnlyMoves, rows
  <2> QED
    BY <1>0, <2>1, <2>2, <2>3, Handles, HandlerMoves DEF InOrder, Early, HoldsLock
<1>2. CASE /\ del[d] # NoDelete /\ Goto(p, "resolve")
           /\ del' = [del EXCEPT ![d].owner = p, ![d].fresh = TRUE]
  <2>1. PICK h \in Hand : /\ hand' = [hand EXCEPT ![p] = h] /\ h.at = "resolve" /\ h.del = d
                          /\ h.seen = hand[p].seen
    BY <1>0, <1>2, AtStep
  <2>2. o \in OccurrenceRow /\ o # NoOccurrence /\ occ' = [occ EXCEPT ![p] = o]
    BY <1>0, Handles DEF TypeOK, IsPending, ClaimDelete
  <2>3. MayGo(p, h)
    BY <1>0, <2>1, Handles DEF MayGo, HoldsLock
  <2>4. /\ \A q \in Paths : q # d => del'[q] = del[q]
        /\ del' \in [Paths -> DeleteRow]
        /\ d \in Paths => del'[d].owner = p /\ del'[d].due = del[d].due
    <3>1. del \in [Paths -> DeleteRow]
      BY <1>0 DEF TypeOK
    <3>2. CASE d \in Paths
      <4>1. del[d] \in DeleteRow /\ del' = [del EXCEPT ![d] = [del[d] EXCEPT !.owner = p, !.fresh = TRUE]]
        BY <1>2, <3>1, <3>2
      <4> HIDE DEF d
      <4>2. [del[d] EXCEPT !.owner = p, !.fresh = TRUE] \in DeleteRow
        BY <4>1 DEF DeleteRow
      <4>3. del'[d] = [del[d] EXCEPT !.owner = p, !.fresh = TRUE]
        BY <3>1, <3>2, <4>1
      <4>4. del' \in [Paths -> DeleteRow] /\ \A q \in Paths : q # d => del'[q] = del[q]
        BY <3>1, <3>2, <4>1, <4>2
      <4> QED
        BY <4>1, <4>3, <4>4 DEF DeleteRow
    <3>3. CASE d \notin Paths
      BY <1>2, <3>1, <3>3
    <3> QED
      BY <3>2, <3>3
  <2>5. Fewer(p, h)
    <3>1. p # "expiry"
      BY VaultSyncAssumption
    <3> HIDE DEF d
    <3> QED
      BY <1>2, <2>4, <3>1 DEF Fewer
  <2>6. UNCHANGED <<page, intent, strays, newest>> /\ Typed
    BY <1>0 DEF ClaimDelete, Typed, TypeOK, Writing
  <2>7. Serves(p, h, o)
    BY <1>0, <2>6, Handles DEF Serves, Executing, Writing, AtWorkOn
  <2>8. StaysHome
    BY <2>6 DEF IInv, OnlyWrites, StaysHome, Writing
  <2>9. crashes = 0 => Follows(p, h, o)
    <3> SUFFICES ASSUME NoCrash PROVE Follows(p, h, o)
      BY DEF IInv
    <3>1. Queued' \subseteq Queued /\ Queued \subseteq {d}
      BY <1>0, <2>5 DEF NoCrash, Knows, Queued, Fewer
    <3>2. (Writing' <=> Writing) /\ (Executing' <=> Executing) /\ (Moving' <=> Moving)
      BY <2>6 DEF Writing, Executing, Moving
    <3> HIDE DEF d
    <3> QED
      BY <1>0, <2>1, <2>6, <3>1, <3>2, OrderKept DEF NoCrash, FirstEvent, Follows, InOrder, Early
  <2> HIDE DEF o
  <2> QED
    BY <1>0, <2>1, <2>2, <2>3, <2>5, <2>6, <2>7, <2>8, <2>9, Handles, StepKeeps
    DEF o, ClaimDelete, Handling, start, history
<1> QED
  BY <1>1, <1>2 DEF ClaimDelete

LEMMA ResolveKeeps ==
  ASSUME IInv, NEW p \in Paths, Resolve(p)
  PROVE  IInv'
<1> DEFINE d == hand[p].del
<1>0. /\ TypeOK /\ Handling(p, "resolve") /\ hand[p].at = "resolve" /\ LockFree
      /\ d \in Paths \cup {NoPath}
  BY Handles DEF IInv, Resolve, Handling, Hand
<1>1. CASE FailLeaving(p, IF Owned(d, p) THEN [del EXCEPT ![d].owner = "gone"] ELSE del)
  BY <1>0, <1>1, HandlerFails DEF Resolve, Handling, history
<1>2. CASE file[p] # Missing /\ d = NoPath /\ See(p, "ingest") /\ OnlyMoves
  <2>1. PICK h \in Hand : hand' = [hand EXCEPT ![p] = h] /\ h.at = "ingest" /\ h.seen = file[p]
    BY <1>0, <1>2, AtStep
  <2>2. crashes = 0 => Knows(h, p) /\ FirstEvent(h, p)
    <3>1. Queued \subseteq {d} => Queued = {}
      BY <1>2, VaultSyncAssumption DEF Queued
    <3> QED
      BY <1>0, <2>1, <3>1 DEF IInv, NoCrash, Knows, FirstEvent
  <2>3. InOrder(p, h) /\ h.seen <= newest /\ h.seen # Missing
    BY <1>0, <1>2, <2>1, Handles DEF InOrder, Early
  <2> QED
    BY <1>0, <1>2, <2>1, <2>2, <2>3, HandlerMoves DEF Resolve
<1>3. CASE d # NoPath /\ MoveEvidence(d, p) /\ See(p, "move") /\ OnlyMoves
  <2>1. PICK h \in Hand : /\ hand' = [hand EXCEPT ![p] = h] /\ h.at = "move" /\ h.seen = file[p]
                          /\ h.del = d
    BY <1>0, <1>3, AtStep
  <2>2. crashes = 0 => Knows(h, p) /\ FirstEvent(h, p)
    BY <1>0, <2>1 DEF IInv, NoCrash, Knows, FirstEvent
  <2>3. InOrder(p, h) /\ h.seen <= newest
    BY <1>0, <2>1, Handles DEF InOrder, Early
  <2>4. removed
    BY <1>0, <1>3, EvidenceIsRemoval
  <2> QED
    BY <1>0, <1>3, <2>1, <2>2, <2>3, <2>4, HandlerMoves DEF Resolve
<1>4. CASE FailReleasing(p)
  BY <1>0, <1>4, HandlerFails DEF Resolve, Handling, history, FailReleasing
<1> QED
  BY <1>1, <1>2, <1>3, <1>4 DEF Resolve

LEMMA ResolveStartupMoveKeeps ==
  ASSUME IInv, NEW p \in Paths, ResolveStartupMove(p)
  PROVE  IInv'
<1>0. /\ TypeOK /\ Handling(p, "resolve") /\ hand[p].at = "resolve" /\ LockFree
      /\ hand[p].del \in Paths \cup {NoPath}
  BY Handles DEF IInv, ResolveStartupMove, Handling, Hand
<1>1. CASE See(p, "move") /\ OnlyMoves
  <2>1. PICK h \in Hand : /\ hand' = [hand EXCEPT ![p] = h] /\ h.at = "move" /\ h.seen = file[p]
                          /\ h.del = hand[p].del
    BY <1>0, <1>1, AtStep
  <2>2. crashes = 0 => Knows(h, p) /\ FirstEvent(h, p)
    BY <1>0, <2>1 DEF IInv, NoCrash, Knows, FirstEvent
  <2>3. InOrder(p, h) /\ h.seen <= newest
    BY <1>0, <2>1, Handles DEF InOrder, Early
  <2>4. removed
    BY <1>0 DEF IInv, OnlyWrites, ResolveStartupMove
  <2> QED
    BY <1>0, <1>1, <2>1, <2>2, <2>3, <2>4, HandlerMoves DEF ResolveStartupMove
<1>2. CASE FailReleasing(p)
  BY <1>0, <1>2, HandlerFails DEF ResolveStartupMove, Handling, history, FailReleasing
<1> QED
  BY <1>1, <1>2 DEF ResolveStartupMove

-----------------------------------------------------------------------------
(* Mutations of the page.                                                  *)
LEMMA ChangedTyped ==
  ASSUME NEW row \in Row
  PROVE  /\ \A path \in Paths : LET new == Changed([row EXCEPT !.path = path]) IN
              new \in Row /\ new.path = path /\ new.body = row.body /\ new.life = row.life
         /\ \A life \in {"active", "invalid", "deleted"} :
              LET new == Changed([row EXCEPT !.life = life]) IN
              new \in Row /\ new.path = row.path /\ new.body = row.body /\ new.life = life
<1>1. \A r \in Row : /\ Changed(r) \in Row
                     /\ Changed(r).path = r.path /\ Changed(r).body = r.body
                     /\ Changed(r).life = r.life
  BY DEF Changed, Row
<1>2. ASSUME NEW path \in Paths
      PROVE  LET new == Changed([row EXCEPT !.path = path]) IN
             new \in Row /\ new.path = path /\ new.body = row.body /\ new.life = row.life
  <2> DEFINE r == [row EXCEPT !.path = path]
  <2>1. r \in Row /\ r.path = path /\ r.body = row.body /\ r.life = row.life
    BY DEF Row
  <2> HIDE DEF r
  <2>2. /\ Changed(r) \in Row /\ Changed(r).path = path /\ Changed(r).body = row.body
        /\ Changed(r).life = row.life
    BY <1>1, <2>1
  <2> QED
    BY <2>2 DEF r
<1>3. ASSUME NEW life \in {"active", "invalid", "deleted"}
      PROVE  LET new == Changed([row EXCEPT !.life = life]) IN
             new \in Row /\ new.path = row.path /\ new.body = row.body /\ new.life = life
  <2> DEFINE r == [row EXCEPT !.life = life]
  <2>1. r \in Row /\ r.path = row.path /\ r.body = row.body /\ r.life = life
    BY DEF Row
  <2> HIDE DEF r
  <2>2. /\ Changed(r) \in Row /\ Changed(r).path = row.path /\ Changed(r).body = row.body
        /\ Changed(r).life = life
    BY <1>1, <2>1
  <2> QED
    BY <2>2 DEF r
<1> QED
  BY <1>2, <1>3

LEMMA EventTyped ==
  ASSUME IInv, NEW p \in Paths, hand[p].at # "idle",
         NEW event \in {"prepared", "applied", "invalid"},
         NEW change \in {"rename", "relocate", "ingest"}, Event(p, event, change)
  PROVE  \E o \in OccurrenceRow :
           /\ occ' = [occ EXCEPT ![p] = o]
           /\ o.kind = occ[p].kind /\ o.late = occ[p].late /\ o.event = event /\ o # NoOccurrence
<1> DEFINE o == [occ[p] EXCEPT !.event = event, !.change = change, !.seen = hand[p].seen]
<1>1. occ[p] \in OccurrenceRow /\ hand[p] \in Hand
  BY DEF IInv, TypeOK
<1>2. o \in OccurrenceRow /\ o.kind = occ[p].kind /\ o.late = occ[p].late /\ o.event = event
  BY <1>1 DEF OccurrenceRow, Hand
<1>3. o # NoOccurrence
  BY <1>2 DEF NoOccurrence
<1>4. occ' = [occ EXCEPT ![p] = o]
  BY DEF Event
<1> HIDE DEF o
<1> QED
  BY <1>2, <1>3, <1>4

(* Under the lock, where a delete may be taken.                            *)
LEMMA TakesDelete ==
  ASSUME IInv, NEW p \in Paths, NEW h, hand[p].at \in HoldsLock,
         del' = del \/ del' = WithoutDelete(p)
  PROVE  /\ Fewer(p, h)
         /\ Queued' \subseteq Queued
         /\ del' = WithoutDelete(p) /\ Queued \subseteq {hand[p].del} => Queued' = {}
<1> DEFINE d == hand[p].del
<1>1. del \in [Paths -> DeleteRow] /\ ~LockHeld /\ d \in Paths \cup {NoPath}
  BY Handles DEF IInv, TypeOK, Hand, HoldsLock
<1>2. NoDelete \in DeleteRow
  BY DEF NoDelete, DeleteRow, State, Missing
<1>3. del' \in [Paths -> DeleteRow] /\ \A q \in Paths : del'[q] \in {del[q], NoDelete}
  <2>1. del' = del \/ del' = [del EXCEPT ![d] = NoDelete]
    BY DEF WithoutDelete
  <2> HIDE DEF d
  <2> QED
    BY <1>1, <1>2, <2>1
<1>4. Fewer(p, h)
  BY <1>1, <1>3 DEF Fewer, NoDelete
<1>5. ASSUME del' = WithoutDelete(p), Queued \subseteq {d} PROVE Queued' = {}
  <2>1. CASE d = NoPath
    BY <1>5, <2>1, VaultSyncAssumption DEF WithoutDelete, Queued
  <2>2. CASE d \in Paths
    <3>1. del' = [del EXCEPT ![d] = NoDelete]
      BY <1>5, <2>2, VaultSyncAssumption DEF WithoutDelete
    <3> HIDE DEF d
    <3> QED
      BY <1>1, <1>5, <2>2, <3>1 DEF Queued
  <2> QED
    BY <1>1, <2>1, <2>2
<1> QED
  BY <1>3, <1>4, <1>5 DEF Queued

LEMMA RenamePageKeeps ==
  ASSUME IInv, NEW p \in Paths, RenamePage(p)
  PROVE  IInv'
<1>0. TypeOK /\ Handling(p, "move") /\ hand[p].at = "move" /\ ~LockHeld
  BY Handles DEF IInv, RenamePage, Handling, HoldsLock
<1>1. PICK h \in Hand : hand' = [hand EXCEPT ![p] = h] /\ h.at = "finish" /\ h.seen = hand[p].seen
  BY <1>0, AtStep, VaultSyncAssumption DEF RenamePage
<1>2. PICK o \in OccurrenceRow :
        /\ occ' = [occ EXCEPT ![p] = o]
        /\ o.kind = occ[p].kind /\ o.late = occ[p].late /\ o.event = "applied" /\ o # NoOccurrence
  BY <1>0, EventTyped DEF RenamePage
<1>3. MayGo(p, h)
  BY <1>0, <1>1, Handles DEF MayGo
<1>4. Fewer(p, h) /\ (Queued \subseteq {hand[p].del} => Queued' = {})
  BY <1>0, TakesDelete DEF RenamePage, HoldsLock
<1>5. /\ page' \in Row /\ page'.body = page.body /\ UNCHANGED <<intent, strays, newest>>
      /\ ~Writing /\ ~Executing
  <2>1. page \in Row
    BY <1>0 DEF TypeOK
  <2> QED
    BY <2>1, ChangedTyped DEF RenamePage, MayRename, Executing
<1>6. Typed
  BY <1>0, <1>5 DEF Typed, TypeOK, Writing
<1>7. Serves(p, h, o)
  BY <1>5 DEF Serves, Executing, Writing
<1>8. StaysHome
  BY <1>0 DEF IInv, OnlyWrites, StaysHome
<1>9. crashes = 0 => Follows(p, h, o)
  <2> SUFFICES ASSUME NoCrash PROVE Follows(p, h, o)
    BY DEF IInv
  <2>1. Queued' = {}
    BY <1>0, <1>4 DEF NoCrash, Knows
  <2>2. ~Writing'
    BY <1>5 DEF Writing
  <2>3. ~Moving'
    BY <2>2 DEF Moving, Executing
  <2> QED
    BY <1>0, <1>1, <2>1, <2>2, <2>3, OrderKept DEF Follows, InOrder, Early
<1>10. /\ UNCHANGED <<disk, expiry, mode, listed, reported, history, counters>>
       /\ replayed' \subseteq Paths /\ mode \in {"replay", "settle", "live"} /\ IsPending(p)
  BY <1>0, Handles DEF RenamePage, Handling, start, history
<1> QED
  BY <1>1, <1>2, <1>3, <1>4, <1>6, <1>7, <1>8, <1>9, <1>10, StepKeeps

LEMMA RelocateKeeps ==
  ASSUME IInv, NEW p \in Paths, Relocate(p)
  PROVE  IInv'
<1>0. TypeOK /\ Handling(p, "move") /\ hand[p].at = "move" /\ ~LockHeld /\ hand[p].seen \in Nat
  BY Handles DEF IInv, Relocate, Handling, HoldsLock, Hand
<1>1. PICK h \in Hand : hand' = [hand EXCEPT ![p] = h] /\ h.at = "wait" /\ h.seen = hand[p].seen
  BY <1>0, AtStep, VaultSyncAssumption DEF Relocate
<1>2. PICK o \in OccurrenceRow :
        /\ occ' = [occ EXCEPT ![p] = o]
        /\ o.kind = occ[p].kind /\ o.late = occ[p].late /\ o.event = "prepared" /\ o # NoOccurrence
  BY <1>0, EventTyped DEF Relocate
<1>3. MayGo(p, h)
  BY <1>0, <1>1, Handles DEF MayGo
<1>4. Fewer(p, h) /\ (Queued \subseteq {hand[p].del} => Queued' = {})
  BY <1>0, TakesDelete DEF Relocate, HoldsLock
<1>5. /\ intent' \in Intent /\ intent' # NoIntent /\ intent'.path = p /\ intent'.occ = p
      /\ intent'.at = "ready" /\ intent'.owner = "live" /\ intent'.rev \in 1 .. newest + 1
      /\ p # NoPath
  <2>1. newest \in Nat /\ p # NoPath
    BY <1>0, VaultSyncAssumption DEF TypeOK
  <2>2. intent' = [path |-> p, expects |-> hand[p].seen, rev |-> newest + 1, occ |-> p,
                   at |-> "ready", held |-> FALSE, owner |-> "live"]
    BY DEF Relocate, NewIntent
  <2>3. intent' \in Intent
    BY <1>0, <2>1, <2>2 DEF Intent
  <2>4. intent' # NoIntent
    BY <2>1, <2>2 DEF NoIntent
  <2> QED
    BY <2>1, <2>2, <2>3, <2>4
<1>6. Typed
  BY <1>0, <1>5 DEF Typed, TypeOK, Relocate
<1>7. Serves(p, h, o)
  BY <1>1, <1>2, <1>5 DEF Serves
<1>8. StaysHome
  BY <1>0 DEF IInv, OnlyWrites, StaysHome
<1>9. crashes = 0 => Follows(p, h, o)
  <2> SUFFICES ASSUME NoCrash PROVE Follows(p, h, o)
    BY DEF IInv
  <2>1. Queued' = {}
    BY <1>0, <1>4 DEF NoCrash, Knows
  <2>2. Writing' /\ Executing'
    BY <1>5 DEF Writing, Executing
  <2> QED
    BY <1>0, <1>1, <1>5, <2>1, <2>2, OrderKept DEF Follows, InOrder, Early
<1>10. /\ UNCHANGED <<disk, expiry, mode, listed, reported, history, counters>>
       /\ replayed' \subseteq Paths /\ mode \in {"replay", "settle", "live"} /\ IsPending(p)
  BY <1>0, Handles DEF Relocate, Handling, start, history
<1> QED
  BY <1>1, <1>2, <1>3, <1>4, <1>6, <1>7, <1>8, <1>9, <1>10, StepKeeps

LEMMA GoOnKeeps ==
  ASSUME IInv, GoOn, UNCHANGED strays
  PROVE  /\ Typed /\ StaysHome
         /\ intent'.occ \in {intent.occ, NoPath} /\ (Executing' => intent'.occ = intent.occ)
<1>0. TypeOK /\ intent \in Intent /\ page \in Row /\ page.body \in 1 .. newest /\ newest \in Nat \ {0}
  BY DEF IInv, TypeOK
<1>1. CASE UNCHANGED <<page, intent, newest>>
  BY <1>0, <1>1 DEF IInv, TypeOK, OnlyWrites, StaysHome, Typed, Writing
<1> DEFINE there == file[intent.path]
<1>2. CASE /\ Writing /\ intent' = [intent EXCEPT !.at = "ready", !.owner = "live"]
           /\ UNCHANGED <<page, newest>>
  <2>1. /\ intent' \in Intent /\ intent'.path = intent.path /\ intent'.rev = intent.rev
        /\ intent'.occ = intent.occ /\ intent'.held = intent.held
    BY <1>0, <1>2 DEF Intent
  <2> QED
    BY <1>0, <1>2, <2>1 DEF IInv, TypeOK, OnlyWrites, StaysHome, Typed
<1>3. CASE /\ Writing /\ there = Missing /\ ~intent.held /\ intent' = NoIntent
           /\ page' = Changed([page EXCEPT !.life = "invalid"]) /\ UNCHANGED newest
  <2>1. ~Writing' /\ intent'.occ = NoPath /\ intent' \in Intent
    BY <1>3 DEF Writing, NoIntent, Intent, Missing
  <2>2. page' \in Row /\ page'.body = page.body
    BY <1>0, <1>3, ChangedTyped
  <2>3. removed
    BY <1>3 DEF IInv, OnlyWrites
  <2> QED
    BY <1>0, <1>3, <2>1, <2>2, <2>3 DEF TypeOK, Typed, StaysHome, Executing
<1>4. CASE /\ Writing /\ there \notin {Missing, intent.expects} /\ newest' = newest + 1
           /\ intent' = [NewIntent(page.path, there, NoPath) EXCEPT !.owner = "none"]
           /\ UNCHANGED page
  <2>1. intent.path \in Paths /\ there \in Nat /\ page.path \in Paths /\ page.path # NoPath
    BY <1>0, <1>4, VaultSyncAssumption DEF TypeOK, Intent, Row
  <2>2. intent' = [path |-> page.path, expects |-> there, rev |-> newest + 1, occ |-> NoPath,
                   at |-> "ready", held |-> FALSE, owner |-> "none"]
    BY <1>4 DEF NewIntent
  <2> HIDE DEF there
  <2>3. intent' \in Intent
    BY <1>0, <2>1, <2>2 DEF Intent
  <2>4. ~Executing' /\ intent'.occ = NoPath /\ intent'.path = page.path
    BY <2>2 DEF Executing
  <2>5. ~removed => file[Home] # Missing
    BY <1>4 DEF IInv, OnlyWrites, there
  <2>6. Typed
    BY <1>0, <1>4, <2>1, <2>2, <2>3 DEF TypeOK, Typed
  <2>7. StaysHome
    BY <1>4, <2>4, <2>5 DEF IInv, OnlyWrites, StaysHome
  <2> QED
    BY <2>4, <2>6, <2>7
<1> QED
  BY <1>1, <1>2, <1>3, <1>4 DEF GoOn, Resumed

LEMMA RepeatMoveKeeps ==
  ASSUME IInv, NEW p \in Paths, RepeatMove(p)
  PROVE  IInv'
<1> DEFINE o == occ[p]
<1>0. TypeOK /\ Handling(p, "move") /\ hand[p].at = "move" /\ ~LockHeld
  BY Handles DEF IInv, RepeatMove, Handling, HoldsLock
<1>1. o \in OccurrenceRow /\ o # NoOccurrence /\ occ' = [occ EXCEPT ![p] = o]
  BY <1>0, Handles DEF TypeOK, IsPending, RepeatMove
<1>2. o.event # "none" /\ crashes # 0
  BY <1>0 DEF RepeatMove, MayRepeatMove, IInv, NoCrash, FirstEvent
<1>3. /\ UNCHANGED <<disk, expiry, mode, listed, reported, history, counters>>
      /\ replayed' \subseteq Paths /\ mode \in {"replay", "settle", "live"} /\ IsPending(p)
  BY <1>0, Handles DEF RepeatMove, Handling, start, history
<1>4. CASE o.event = "applied"
  <2>1. PICK h \in Hand : hand' = [hand EXCEPT ![p] = h] /\ h.at = "finish" /\ h.seen = hand[p].seen
    BY <1>0, <1>4, AtStep, VaultSyncAssumption DEF RepeatMove
  <2>2. MayGo(p, h)
    BY <1>0, <2>1, Handles DEF MayGo
  <2>3. Fewer(p, h)
    BY <1>0, TakesDelete DEF RepeatMove, HoldsLock
  <2>4. UNCHANGED <<page, intent, newest, strays>>
    BY <1>4 DEF RepeatMove
  <2>5. Typed /\ StaysHome
    BY <1>0, <2>4 DEF TypeOK, Typed, IInv, OnlyWrites, StaysHome, Writing
  <2>6. Serves(p, h, o)
    BY <1>0, <2>4, Handles DEF Serves, Executing, Writing, AtWorkOn
  <2> HIDE DEF o
  <2> QED
    BY <1>1, <1>2, <1>3, <2>1, <2>2, <2>3, <2>5, <2>6, StepKeeps DEF o
<1>5. CASE o.event = "prepared" /\ intent.occ = p
  <2>1. PICK h \in Hand : hand' = [hand EXCEPT ![p] = h] /\ h.at = "wait" /\ h.seen = hand[p].seen
    BY <1>0, <1>5, AtStep, VaultSyncAssumption DEF RepeatMove
  <2>2. MayGo(p, h)
    BY <1>0, <2>1, Handles DEF MayGo
  <2>3. Fewer(p, h)
    BY <1>0, TakesDelete DEF RepeatMove, HoldsLock
  <2>4. GoOn /\ UNCHANGED strays
    BY <1>5 DEF RepeatMove
  <2>5. Typed /\ StaysHome
    BY <2>4, GoOnKeeps
  <2>6. Serves(p, h, o)
    BY <1>5, <2>1, <2>4, GoOnKeeps DEF Serves
  <2> HIDE DEF o
  <2> QED
    BY <1>1, <1>2, <1>3, <2>1, <2>2, <2>3, <2>5, <2>6, StepKeeps DEF o
<1> QED
  BY <1>4, <1>5 DEF RepeatMove, MayRepeatMove

LEMMA MoveFailsKeeps ==
  ASSUME IInv, NEW p \in Paths, MoveFails(p)
  PROVE  IInv'
<1>1. hand[p].at = "move" /\ UNCHANGED <<disk, expiry, start, history, counters>>
  BY DEF MoveFails, Handling, history
<1>2. FailLeaving(p, ReleasedBy(hand[p].del, p))
  BY DEF MoveFails, FailReleasing
<1> QED
  BY <1>1, <1>2, HandlerFails

LEMMA AdoptKeeps ==
  ASSUME IInv, NEW p \in Paths, Handling(p, "ingest"), occ[p].event = "none", Adopt(p), ~Writing,
         UNCHANGED returned, strays' \subseteq strays, Bound(p) \/ page.life = "deleted"
  PROVE  IInv'
<1>0. TypeOK /\ hand[p].at = "ingest" /\ ~LockHeld /\ hand[p].seen \in Nat
  BY Handles DEF IInv, Handling, HoldsLock, Hand
<1>1. PICK h \in Hand : hand' = [hand EXCEPT ![p] = h] /\ h.at = "wait" /\ h.seen = hand[p].seen
  BY <1>0, AtStep, VaultSyncAssumption DEF Adopt
<1>2. PICK o \in OccurrenceRow :
        /\ occ' = [occ EXCEPT ![p] = o]
        /\ o.kind = occ[p].kind /\ o.late = occ[p].late /\ o.event = "prepared" /\ o # NoOccurrence
  BY <1>0, EventTyped DEF Adopt
<1>3. MayGo(p, h)
  BY <1>0, <1>1, Handles DEF MayGo
<1>4. Fewer(p, h) /\ Queued' = Queued
  BY <1>0 DEF Adopt, Fewer, TypeOK, Queued
<1>5. /\ intent' \in Intent /\ intent' # NoIntent /\ intent'.path = p /\ intent'.occ = p
      /\ intent'.at = "ready" /\ intent'.owner = "live" /\ intent'.rev \in 1 .. newest + 1
      /\ p # NoPath
  <2>1. newest \in Nat /\ p # NoPath
    BY <1>0, VaultSyncAssumption DEF TypeOK
  <2>2. intent' = [path |-> p, expects |-> hand[p].seen, rev |-> newest + 1, occ |-> p,
                   at |-> "ready", held |-> FALSE, owner |-> "live"]
    BY DEF Adopt, NewIntent
  <2>3. intent' \in Intent
    BY <1>0, <2>1, <2>2 DEF Intent
  <2>4. intent' # NoIntent
    BY <2>1, <2>2 DEF NoIntent
  <2> QED
    BY <2>1, <2>2, <2>3, <2>4
<1>6. Typed
  BY <1>0, <1>5 DEF Typed, TypeOK, Adopt
<1>7. Serves(p, h, o)
  BY <1>1, <1>2, <1>5 DEF Serves
<1>8. StaysHome
  <2>1. ~intent.held
    BY DEF Writing, NoIntent
  <2> QED
    BY <1>5, <2>1 DEF IInv, OnlyWrites, StaysHome, Bound, Adopt
<1>9. crashes = 0 => Follows(p, h, o)
  <2> SUFFICES ASSUME NoCrash PROVE Follows(p, h, o)
    BY DEF IInv
  <2>1. Queued' = {}
    BY <1>0, <1>4 DEF NoCrash, Knows
  <2>2. Writing' /\ Executing'
    BY <1>5 DEF Writing, Executing
  <2> QED
    BY <1>0, <1>1, <1>5, <2>1, <2>2, OrderKept DEF Follows, InOrder, Early
<1>10. /\ UNCHANGED <<disk, expiry, mode, listed, reported, history, counters>>
       /\ replayed' \subseteq Paths /\ mode \in {"replay", "settle", "live"} /\ IsPending(p)
  BY <1>0, Handles DEF Adopt, Handling, start, history
<1> QED
  BY <1>1, <1>2, <1>3, <1>4, <1>6, <1>7, <1>8, <1>9, <1>10, StepKeeps

(* The result of an ingestion that opens no intent.                        *)
LEMMA IngestResult ==
  ASSUME IInv, NEW p \in Paths, Handling(p, "ingest"), NEW event \in {"applied", "invalid"},
         NEW step \in {"finish", "reject"}, Event(p, event, "ingest"), Goto(p, step),
         strays' \subseteq Paths \X (1 .. newest),
         UNCHANGED <<page, intent, del, reported, newest, returned>>
  PROVE  IInv'
<1>0. TypeOK /\ hand[p].at = "ingest" /\ ~LockHeld
  BY Handles DEF IInv, Handling, HoldsLock
<1>1. PICK h \in Hand : hand' = [hand EXCEPT ![p] = h] /\ h.at = step /\ h.seen = hand[p].seen
  BY <1>0, AtStep, VaultSyncAssumption
<1>2. PICK o \in OccurrenceRow :
        /\ occ' = [occ EXCEPT ![p] = o]
        /\ o.kind = occ[p].kind /\ o.late = occ[p].late /\ o.event = event /\ o # NoOccurrence
  BY <1>0, EventTyped
<1>3. MayGo(p, h)
  BY <1>0, <1>1, Handles DEF MayGo
<1>4. Fewer(p, h) /\ Queued' = Queued
  BY <1>0 DEF Fewer, TypeOK, Queued
<1>5. Typed
  BY <1>0 DEF Typed, TypeOK, Writing
<1>6. Serves(p, h, o)
  BY <1>0, Handles DEF Serves, Executing, Writing, AtWorkOn
<1>7. StaysHome
  BY DEF IInv, OnlyWrites, StaysHome, Writing
<1>8. crashes = 0 => Follows(p, h, o)
  <2> SUFFICES ASSUME NoCrash PROVE Follows(p, h, o)
    BY DEF IInv
  <2>1. (Writing' <=> Writing) /\ (Executing' <=> Executing) /\ (Moving' <=> Moving)
    BY DEF Writing, Executing, Moving
  <2> QED
    BY <1>0, <1>1, <1>4, <2>1, OrderKept DEF NoCrash, Follows, InOrder, Early
<1>9. /\ UNCHANGED <<disk, expiry, mode, listed, reported, history, counters>>
      /\ replayed' \subseteq Paths /\ mode \in {"replay", "settle", "live"} /\ IsPending(p)
  BY <1>0, Handles DEF Handling, start, history
<1> QED
  BY <1>1, <1>2, <1>3, <1>4, <1>5, <1>6, <1>7, <1>8, <1>9, StepKeeps

LEMMA IngestKeeps ==
  ASSUME IInv, NEW p \in Paths, Ingest(p)
  PROVE  IInv'
<1>0. /\ TypeOK /\ Handling(p, "ingest") /\ hand[p].at = "ingest" /\ occ[p].event = "none"
      /\ UNCHANGED returned
  BY DEF IInv, Ingest, Handling
<1>1. hand[p].seen \in 1 .. newest /\ strays \subseteq Paths \X (1 .. newest)
  BY <1>0, Handles DEF IInv, TypeOK, Tasks, Hand, Missing
<1>2. CASE Fail(p)
  BY <1>0, <1>2, HandlerFails DEF Handling, Fail, history
<1>3. CASE Adopt(p) /\ ~Writing /\ strays' \subseteq strays /\ (Bound(p) \/ page.life = "deleted")
  BY <1>0, <1>3, AdoptKeeps
<1>4. CASE /\ Event(p, "applied", "ingest") /\ Goto(p, "finish")
           /\ UNCHANGED <<page, intent, del, strays, reported, newest>>
  BY <1>0, <1>1, <1>4, IngestResult
<1>5. CASE /\ Event(p, "invalid", "ingest") /\ Goto(p, "reject")
           /\ strays' = strays \cup {<<p, hand[p].seen>>}
           /\ UNCHANGED <<page, intent, del, reported, newest>>
  <2>1. strays' \subseteq Paths \X (1 .. newest)
    BY <1>1, <1>5
  <2> QED
    BY <1>0, <1>5, <2>1, IngestResult
<1> QED
  BY <1>2, <1>3, <1>4, <1>5 DEF Ingest, Restorable

LEMMA IngestAgainKeeps ==
  ASSUME IInv, NEW p \in Paths, IngestAgain(p)
  PROVE  IInv'
<1> DEFINE o == occ[p]
<1>0. TypeOK /\ Handling(p, "ingest") /\ hand[p].at = "ingest" /\ ~LockHeld /\ UNCHANGED returned
  BY Handles DEF IInv, IngestAgain, Handling, HoldsLock
<1>1. crashes # 0
  BY <1>0 DEF IngestAgain, IInv, NoCrash, FirstEvent
<1>2. ASSUME NEW step \in {"finish", "reject"}, Goto(p, step), OnlyMoves
      PROVE  IInv'
  <2>1. PICK h \in Hand : hand' = [hand EXCEPT ![p] = h] /\ h.at = step /\ h.seen = hand[p].seen
    BY <1>0, <1>2, AtStep, VaultSyncAssumption
  <2>2. MayGo(p, h)
    BY <1>0, <2>1, Handles DEF MayGo
  <2>3. ~(Executing /\ intent.occ = p)
    BY <1>0, Handles DEF AtWorkOn
  <2>4. /\ UNCHANGED <<disk, rows, newest, expiry, mode, listed, history, counters>>
        /\ replayed' \subseteq Paths /\ mode \in {"replay", "settle", "live"} /\ IsPending(p)
    BY <1>0, <1>2, Handles DEF Handling, OnlyMoves, start, history
  <2> QED
    BY <1>1, <2>1, <2>2, <2>3, <2>4, MoveKeeps
<1>3. CASE /\ o.event = "prepared" /\ intent.occ = p /\ Goto(p, "wait") /\ GoOn
           /\ UNCHANGED <<occ, del, strays, reported>>
  <2>1. PICK h \in Hand : hand' = [hand EXCEPT ![p] = h] /\ h.at = "wait" /\ h.seen = hand[p].seen
    BY <1>0, <1>3, AtStep, VaultSyncAssumption
  <2>2. MayGo(p, h)
    BY <1>0, <2>1, Handles DEF MayGo
  <2>3. Fewer(p, h)
    BY <1>0, <1>3 DEF Fewer, TypeOK
  <2>4. Typed /\ StaysHome
    BY <1>3, GoOnKeeps
  <2>5. Serves(p, h, o)
    BY <1>3, <2>1, GoOnKeeps DEF Serves
  <2>6. o \in OccurrenceRow /\ o # NoOccurrence /\ occ' = [occ EXCEPT ![p] = o]
    BY <1>0, <1>3, Handles DEF TypeOK, IsPending
  <2>7. /\ UNCHANGED <<disk, expiry, mode, listed, reported, history, counters>>
        /\ replayed' \subseteq Paths /\ mode \in {"replay", "settle", "live"} /\ IsPending(p)
    BY <1>0, <1>3, Handles DEF Handling, start, history
  <2> HIDE DEF o
  <2> QED
    BY <1>1, <2>1, <2>2, <2>3, <2>4, <2>5, <2>6, <2>7, StepKeeps DEF o
<1>4. CASE Fail(p)
  BY <1>0, <1>4, HandlerFails DEF Handling, Fail, history
<1>5. CASE Goto(p, IF o.event = "applied" THEN "finish" ELSE "reject") /\ OnlyMoves
  BY <1>2, <1>5
<1> QED
  BY <1>3, <1>4, <1>5 DEF IngestAgain

LEMMA FinishKeeps ==
  ASSUME IInv, NEW p \in Paths, Finish(p)
  PROVE  IInv'
<1>1. hand[p].at \in {"finish", "wait"} /\ (hand[p].at = "wait" => occ[p].event = "applied")
  BY DEF Finish, Handling
<1>2. Loosens
  BY ReleaseLoosens DEF IInv, Finish
<1>3. Ends(p)
  BY <1>1, <1>2, Handles, EndIsAnEnd DEF Finish, Handling, start, history
<1>4. ~(Executing /\ intent.occ = p)
  BY <1>1, Handles DEF AtWorkOn
<1> QED
  BY <1>1, <1>3, <1>4, EndKeeps

LEMMA RejectKeeps ==
  ASSUME IInv, NEW p \in Paths, Reject(p)
  PROVE  IInv'
<1>1. hand[p].at = "reject"
  BY DEF Reject, Handling
<1>2. Loosens
  BY ReleaseLoosens DEF IInv, Reject
<1>3. Ends(p)
  BY <1>1, <1>2, Handles, EndIsAnEnd DEF Reject, Handling, start, history
<1> QED
  BY <1>1, <1>3, HandlerEnds

LEMMA GiveUpKeeps ==
  ASSUME IInv, NEW p \in Paths, GiveUp(p)
  PROVE  IInv'
<1>1. hand[p].at = "wait" /\ ~(Executing /\ intent.occ = p)
  BY DEF GiveUp, Handling
<1>2. Loosens
  BY ReleaseLoosens DEF IInv, GiveUp, Fail, FailLeaving
<1>3. Ends(p)
  BY <1>1, <1>2, Handles, EndIsAnEnd DEF GiveUp, Fail, FailLeaving, Handling, start, history
<1> QED
  BY <1>1, <1>3, EndKeeps

(* A new pending delete: what was noticed before it is not late.           *)
LEMMA NewDeleteKeeps ==
  ASSUME IInv, NEW p \in Paths, Handling(p, "queue"), page.path = p, del[p] = NoDelete,
         Goto(p, "defer"),
         del' = [del EXCEPT ![p] = [NoDelete EXCEPT !.hash = page.body]],
         occ' = [q \in Paths |-> [occ[q] EXCEPT !.late = @ \ {p}]],
         returned' = returned \ {p}, UNCHANGED <<page, strays, newest, intent, reported>>
  PROVE  IInv'
<1> USE DEF disk, counters, start
<1>0. TypeOK /\ hand[p].at = "queue" /\ mode \in {"replay", "settle", "live"} /\ replayed' \subseteq Paths
  BY Handles DEF IInv, Handling
<1>1. PICK h \in Hand : /\ hand' = [hand EXCEPT ![p] = h] /\ h.at = "defer" /\ h.seen = hand[p].seen
  BY <1>0, AtStep, VaultSyncAssumption
<1>2. /\ hand'[p] = h /\ \A q \in Paths \ {p} : hand'[q] = hand[q]
      /\ hand' \in [Paths -> Hand]
  BY <1>0, <1>1 DEF TypeOK
<1>3. \A q \in Paths :
        /\ occ'[q].kind = occ[q].kind /\ occ'[q].event = occ[q].event
        /\ occ'[q].late = occ[q].late \ {p} /\ occ'[q] \in OccurrenceRow
        /\ occ'[q] = NoOccurrence <=> occ[q] = NoOccurrence
  <2> SUFFICES ASSUME NEW q \in Paths
               PROVE  /\ occ'[q].kind = occ[q].kind /\ occ'[q].event = occ[q].event
                      /\ occ'[q].late = occ[q].late \ {p} /\ occ'[q] \in OccurrenceRow
                      /\ occ'[q] = NoOccurrence <=> occ[q] = NoOccurrence
    OBVIOUS
  <2>1. occ[q] \in OccurrenceRow /\ occ'[q] = [occ[q] EXCEPT !.late = occ[q].late \ {p}]
    BY <1>0 DEF TypeOK
  <2>2. /\ occ'[q] \in OccurrenceRow /\ occ'[q].kind = occ[q].kind
        /\ occ'[q].event = occ[q].event /\ occ'[q].late = occ[q].late \ {p}
    BY <2>1 DEF OccurrenceRow
  <2>3. occ'[q].kind = "none" => occ'[q] = NoOccurrence
    <3>1. occ[q].kind = "none" => occ[q] = NoOccurrence
      BY DEF IInv, Tasks
    <3>2. [NoOccurrence EXCEPT !.late = NoOccurrence.late \ {p}] = NoOccurrence
      <4>1. NoOccurrence.late \ {p} = {} /\ NoOccurrence.late = {}
        BY DEF NoOccurrence
      <4> QED
        BY <4>1 DEF NoOccurrence
    <3> QED
      BY <2>1, <2>2, <3>1, <3>2
  <2>4. NoOccurrence.kind = "none"
    BY DEF NoOccurrence
  <2> QED
    BY <2>2, <2>3, <2>4 DEF IInv, Tasks
<1>4. occ' \in [Paths -> OccurrenceRow]
  BY <1>3
<1>5. /\ del' \in [Paths -> DeleteRow] /\ \A d \in Paths \ {p} : del'[d] = del[d]
      /\ del'[p].owner = "none" /\ del'[p].due = FALSE
  <2>1. page.body \in Nat /\ del \in [Paths -> DeleteRow]
    BY <1>0 DEF TypeOK, Row
  <2>2. [NoDelete EXCEPT !.hash = page.body] \in DeleteRow
    BY <2>1 DEF NoDelete, DeleteRow, State
  <2>3. [NoDelete EXCEPT !.hash = page.body].owner = "none" /\ [NoDelete EXCEPT !.hash = page.body].due = FALSE
    BY DEF NoDelete
  <2> HIDE DEF NoDelete
  <2> QED
    BY <2>1, <2>2, <2>3
<1>6. (Writing' <=> Writing) /\ (Executing' <=> Executing) /\ (Moving' <=> Moving)
  BY DEF Writing, Executing, Moving
<1>7. TypeOK'
  <2>1. \A q \in Busy' : IsPending(q)' /\ hand'[q].seen <= newest
    <3> SUFFICES ASSUME NEW q \in Paths, hand'[q] # Idle PROVE IsPending(q)' /\ hand'[q].seen <= newest
      BY DEF Busy
    <3>1. q \in Busy
      BY <1>0, <1>2 DEF Busy, Idle
    <3> QED
      BY <1>0, <1>1, <1>2, <1>3, <3>1 DEF TypeOK, IsPending
  <2>2. returned' \subseteq Paths /\ removed' \in BOOLEAN
    BY <1>0 DEF TypeOK, Handling
  <2>3. expiry' \in ExpiryTask /\ (expiry' # NoExpiry => expiry'.del # NoPath)
    BY <1>0 DEF TypeOK, Handling
  <2> QED
    BY <1>0, <1>2, <1>4, <1>5, <1>6, <2>1, <2>2, <2>3 DEF TypeOK, Handling
<1>8. Tasks'
  <2>1. intent'.occ # NoPath => IsPending(intent.occ)'
    BY <1>0, <1>3 DEF IInv, Tasks, IsPending, TypeOK, Intent
  <2>2. \A q \in Paths : occ'[q].kind = "none" => occ'[q] = NoOccurrence
    BY <1>3 DEF IInv, Tasks
  <2> QED
    BY <1>0, <1>1, <1>2, <2>1, <2>2 DEF IInv, Tasks, Busy, Handling
<1>9. WaitsForIt'
  <2>1. intent.occ \in Paths \cup {NoPath}
    BY <1>0 DEF TypeOK, Intent
  <2>2. \A q \in Paths : AtWorkOn(q) => AtWorkOn(q)'
    BY <1>0, <1>2, <1>3 DEF AtWorkOn
  <2> QED
    BY <1>6, <2>1, <2>2 DEF IInv, WaitsForIt, Handling
<1>10. ~removed' => OnlyWrites'
  BY <1>1, <1>2, <1>3, <1>6 DEF IInv, OnlyWrites, Handling
<1>11. Candidates'
  <2>1. (LockHeld' <=> LockHeld) /\ expiry' = expiry
    BY DEF LockHeld, Handling
  <2>2. \A d \in Paths : del'[d].owner = "expiry" => del'[d].due
    BY <1>5 DEF IInv, Candidates
  <2>3. LockHeld => \A q \in Paths : hand'[q].at \notin HoldsLock
    BY <1>1, <1>2 DEF IInv, Candidates, HoldsLock
  <2>4. ASSUME expiry.at \in {"persist", "apply"}
        PROVE  /\ del'[expiry.del].due \/ hand'[expiry.del].at = "same"
               /\ \A q \in Paths : occ'[q].kind = "add" => expiry.del \in occ'[q].late
    <3>1. expiry.del \in Paths
      BY <1>0, <2>4 DEF TypeOK, ExpiryTask, NoExpiry
    <3>2. expiry.del # p
      BY <1>0, <2>4 DEF IInv, Candidates, NoDelete
    <3> QED
      BY <1>2, <1>3, <1>5, <2>4, <3>1, <3>2 DEF IInv, Candidates
  <2> QED
    BY <2>1, <2>2, <2>3, <2>4 DEF Candidates
<1>12. crashes' = 0 => NoCrash'
  <2> SUFFICES ASSUME crashes = 0 PROVE NoCrash'
    BY DEF Handling
  <2>1. NoCrash
    BY DEF IInv
  <2>2. Queued' = Queued \cup {p}
    <3>1. del'[p] # NoDelete
      <4>1. page.body # Missing
        BY <1>0 DEF TypeOK, Missing
      <4>2. [NoDelete EXCEPT !.hash = page.body].hash = page.body /\ NoDelete.hash = Missing
        BY DEF NoDelete
      <4>3. del'[p] = [NoDelete EXCEPT !.hash = page.body]
        BY <1>0 DEF TypeOK
      <4> QED
        BY <4>1, <4>2, <4>3
    <3> QED
      BY <1>5, <3>1 DEF Queued
  <2>3. \A q \in Paths : hand[q].at \in Early
    BY <1>0, <2>1 DEF NoCrash, OnePass
  <2>4. ~Moving
    <3>1. Moving => AtWorkOn(intent.occ) /\ intent.occ \in Paths
      BY <1>0, <2>1 DEF IInv, WaitsForIt, NoCrash, Moving, TypeOK, Intent
    <3> QED
      BY <2>3, <3>1 DEF AtWorkOn, Early
  <2>5. mode \in {"settle", "live"}
    BY <1>0, <2>1, Handles DEF NoCrash, FirstStart, IsPending
  <2>6. FirstStart'
    BY <2>5 DEF FirstStart, Handling
  <2>7. \A q \in Paths : hand'[q].at \in Early
    BY <1>1, <1>2, <2>3 DEF Early
  <2>8. OnePass'
    BY <2>7 DEF OnePass
  <2>9. \A q \in Paths : Knows(hand[q], q)'
    BY <2>7 DEF Knows, Early
  <2>10. \A q \in Paths : FirstEvent(hand[q], q)'
    BY <1>0, <1>1, <1>2, <1>3, <2>1 DEF NoCrash, FirstEvent
  <2> QED
    BY <1>6, <2>1, <2>2, <2>4, <2>6, <2>8, <2>9, <2>10 DEF NoCrash
<1> QED
  BY <1>7, <1>8, <1>9, <1>10, <1>11, <1>12 DEF IInv

LEMMA QueueKeeps ==
  ASSUME IInv, NEW p \in Paths, Queue(p)
  PROVE  IInv'
<1>0. TypeOK /\ Handling(p, "queue") /\ hand[p].at = "queue"
  BY DEF IInv, Queue, Handling
<1>1. CASE End(p, FALSE) /\ UNCHANGED <<del, returned>>
  <2>1. Loosens
    BY <1>0, <1>1, ReleaseLoosens
  <2>2. Ends(p)
    BY <1>0, <1>1, <2>1, Handles, EndIsAnEnd DEF Queue, Handling, start, history
  <2> QED
    BY <1>0, <2>2, HandlerEnds
<1>2. CASE Goto(p, "defer") /\ UNCHANGED <<intent, occ, del, reported, returned>>
  <2>1. PICK h \in Hand : hand' = [hand EXCEPT ![p] = h] /\ h.at = "defer" /\ h.seen = hand[p].seen
    BY <1>0, <1>2, AtStep, VaultSyncAssumption
  <2>2. crashes = 0 => Knows(h, p) /\ FirstEvent(h, p)
    BY <1>0, <2>1 DEF IInv, NoCrash, Knows, FirstEvent
  <2>3. InOrder(p, h) /\ h.seen <= newest /\ OnlyMoves
    BY <1>0, <1>2, <2>1, Handles DEF InOrder, Queue, OnlyMoves, rows
  <2> QED
    BY <1>0, <1>2, <2>1, <2>2, <2>3, HandlerMoves DEF HoldsLock
<1> QED
  BY <1>0, <1>1, <1>2, NewDeleteKeeps DEF Queue

LEMMA HandlerKeeps ==
  ASSUME IInv, NEW p \in Paths, Handler(p)
  PROVE  IInv'
  BY QueueKeeps, DeferKeeps, LookKeeps, CancelDeleteKeeps, SamePathKeeps, SortKeeps, ClaimDeleteKeeps,
     ResolveKeeps, ResolveStartupMoveKeeps, RenamePageKeeps, RelocateKeeps, RepeatMoveKeeps,
     MoveFailsKeeps, IngestKeeps, IngestAgainKeeps, FinishKeeps, RejectKeeps, GiveUpKeeps DEF Handler

LEMMA OccurrenceTyped ==
  ASSUME TypeOK, NEW kind \in {"add", "modify", "delete", "rename", "relocate"},
         NEW old \in Paths \cup {NoPath}
  PROVE  /\ Occurrence(kind, old) \in OccurrenceRow
         /\ Occurrence(kind, old).kind = kind /\ Occurrence(kind, old).event = "none"
         /\ Occurrence(kind, old).late = {d \in Queued : del[d].due}
         /\ Occurrence(kind, old) # NoOccurrence
<1> DEFINE late == {d \in Queued : del[d].due}
<1>1. late \in SUBSET Paths
  BY DEF Queued
<1> HIDE DEF late
<1>2. PICK r \in OccurrenceRow : r = NoOccurrence /\ r.event = "none" /\ r.kind = "none"
  <2>1. NoOccurrence \in OccurrenceRow
    BY DEF NoOccurrence, OccurrenceRow, Missing
  <2>2. NoOccurrence.event = "none" /\ NoOccurrence.kind = "none"
    BY DEF NoOccurrence
  <2> QED
    BY <2>1, <2>2
<1> DEFINE new == [r EXCEPT !.kind = kind, !.old = old, !.late = late]
<1>3. Occurrence(kind, old) = new
  BY <1>2 DEF Occurrence, late
<1>4. new \in OccurrenceRow /\ new.kind = kind /\ new.event = "none" /\ new.late = late
  BY <1>1, <1>2 DEF OccurrenceRow
<1> HIDE DEF new
<1>5. new # NoOccurrence
  BY <1>2, <1>4
<1> QED
  BY <1>3, <1>4, <1>5 DEF late

-----------------------------------------------------------------------------
(* A batch.                                                                *)
LEMMA BatchKeeps ==
  ASSUME IInv, Batch
  PROVE  IInv'
<1> USE DEF start, counters
<1> DEFINE noticed == {p \in Paths : raw[p] # "quiet"}
<1>0. TypeOK /\ mode = "live" /\ mode' = "live" /\ Busy = {} /\ \A p \in Paths : hand[p] = Idle
  BY DEF IInv, Batch, Busy
<1>1. /\ hand' = [p \in Paths |->
                    IF p \notin noticed THEN Idle
                    ELSE [Idle EXCEPT !.at = IF file[p] = Missing THEN "queue" ELSE "look"]]
      /\ occ' = [p \in Paths |-> IF p \in noticed THEN Occurrence(KindOf(p), NoPath) ELSE occ[p]]
  BY DEF Batch
<1>2. \A p \in Paths : /\ hand'[p] \in Hand /\ hand'[p].seen = Missing
                       /\ hand'[p].at \in {"idle", "queue", "look"}
                       /\ p \in noticed => hand'[p].at # "idle"
                       /\ p \notin noticed => hand'[p] = Idle
  <2>1. \A step \in {"queue", "look"} : LET h == [Idle EXCEPT !.at = step] IN
          h \in Hand /\ h.seen = Missing /\ h.at = step
    BY DEF Idle, Hand, Missing
  <2>2. Idle \in Hand /\ Idle.seen = Missing /\ Idle.at = "idle"
    BY DEF Idle, Hand, Missing
  <2> HIDE DEF noticed
  <2> QED
    BY <1>1, <2>1, <2>2, SMTT(30)
<1>3. \A p \in noticed : KindOf(p) \in {"add", "modify", "delete"}
  BY DEF KindOf
<1>4. /\ \A p \in noticed :
            /\ occ'[p] \in OccurrenceRow /\ occ'[p].event = "none" /\ occ'[p] # NoOccurrence
            /\ occ'[p].kind \in {"add", "modify", "delete"}
            /\ occ'[p].late = {d \in Queued : del[d].due}
      /\ \A p \in Paths \ noticed : occ'[p] = occ[p]
  <2>1. \A p \in noticed : occ'[p] = Occurrence(KindOf(p), NoPath)
    BY <1>1
  <2> HIDE DEF noticed
  <2> QED
    BY <1>0, <1>1, <1>3, <2>1, OccurrenceTyped
<1> HIDE DEF noticed
<1>5. UNCHANGED <<file, page, intent, del, strays, reported, newest, expiry, removed, counters, listed, replayed>>
  BY DEF Batch
<1>6. occ' \in [Paths -> OccurrenceRow] /\ hand' \in [Paths -> Hand]
  <2>1. occ \in [Paths -> OccurrenceRow]
    BY <1>0 DEF TypeOK
  <2>2. \A p \in Paths : occ'[p] \in OccurrenceRow
    BY <1>4, <2>1
  <2>3. occ' \in [Paths -> OccurrenceRow]
    BY <1>1, <2>2
  <2>4. hand' \in [Paths -> Hand]
    BY <1>1, <1>2
  <2> QED
    BY <2>3, <2>4
<1>7. TypeOK'
  <2>1. \A p \in Busy' : IsPending(p)' /\ hand'[p].seen <= newest'
    BY <1>0, <1>2, <1>4, <1>5 DEF TypeOK, Busy, IsPending, Missing
  <2>2. raw' \in [Paths -> {"quiet", "modified", "added"}] /\ returned' \subseteq Paths
    BY <1>0 DEF TypeOK, Batch
  <2>3. Writing' <=> Writing
    BY <1>5 DEF Writing
  <2> QED
    BY <1>0, <1>5, <1>6, <2>1, <2>2, <2>3 DEF TypeOK
<1>8. Tasks'
  <2>1. \A p \in Paths : IsPending(p) => IsPending(p)'
    BY <1>4 DEF IsPending
  <2>2. intent'.occ # NoPath => IsPending(intent.occ)'
    BY <1>0, <1>5, <2>1 DEF IInv, Tasks, TypeOK, Intent
  <2>3. \A p \in Paths : occ'[p].kind = "none" => occ'[p] = NoOccurrence
    BY <1>4 DEF IInv, Tasks
  <2> QED
    BY <1>0, <1>2, <1>5, <2>2, <2>3 DEF IInv, Tasks
<1>9. ~(Executing /\ intent.occ # NoPath) /\ (Executing' <=> Executing) /\ (Writing' <=> Writing)
  <2>1. intent.occ \in Paths \cup {NoPath}
    BY <1>0 DEF TypeOK, Intent
  <2> QED
    BY <1>0, <1>5, <2>1 DEF IInv, WaitsForIt, AtWorkOn, Idle, Executing, Writing
<1>10. WaitsForIt'
  BY <1>0, <1>5, <1>9 DEF WaitsForIt
<1>11. ~removed' => OnlyWrites'
  BY <1>0, <1>2, <1>4, <1>5, <1>9 DEF IInv, OnlyWrites
<1>12. Candidates'
  <2>1. LockHeld' => \A p \in Paths : hand'[p].at \notin HoldsLock
    BY <1>2 DEF HoldsLock
  <2>2. ASSUME expiry.at \in {"persist", "apply"}
        PROVE  /\ del'[expiry.del].due
               /\ \A p \in Paths : occ'[p].kind = "add" => expiry.del \in occ'[p].late
    <3>1. expiry.del \in Paths
      BY <1>0, <2>2 DEF TypeOK, ExpiryTask, NoExpiry
    <3>2. del[expiry.del].due
      BY <1>0, <2>2, <3>1 DEF IInv, Candidates, Idle
    <3>3. expiry.del \in Queued
      BY <3>1, <3>2 DEF Queued, NoDelete
    <3> QED
      BY <1>4, <1>5, <2>2, <3>2, <3>3 DEF IInv, Candidates
  <2> QED
    BY <1>5, <2>1, <2>2 DEF IInv, Candidates
<1>13. crashes' = 0 => NoCrash'
  <2> SUFFICES ASSUME NoCrash PROVE NoCrash'
    BY <1>5 DEF IInv
  <2>1. FirstStart' /\ OnePass'
    BY <1>0, <1>2 DEF FirstStart, OnePass, Early
  <2>2. \A p \in Paths : Knows(hand[p], p)' /\ FirstEvent(hand[p], p)'
    <3>1. \A p \in Paths : hand'[p].at # "idle" => occ'[p].event = "none"
      BY <1>2, <1>4 DEF Idle
    <3> QED
      BY <1>2, <3>1 DEF Knows, FirstEvent
  <2>3. (Moving' <=> Moving) /\ Queued' = Queued
    BY <1>5, <1>9 DEF Moving, Queued
  <2> QED
    BY <1>5, <1>9, <2>1, <2>2, <2>3 DEF NoCrash
<1> QED
  BY <1>7, <1>8, <1>10, <1>11, <1>12, <1>13 DEF IInv

-----------------------------------------------------------------------------
(* Deletes: the expiry loop, and time.                                     *)
LEMMA DeletesKeep ==
  ASSUME IInv,
         UNCHANGED <<disk, intent, occ, strays, newest, hand, start, history, edits, writes, crashes>>,
         lapses' \in Nat, reported' \subseteq Paths,
         del' \in [Paths -> DeleteRow],
         \A d \in Paths : del'[d] # NoDelete => del[d] # NoDelete,
         \A d \in Paths : del'[d].owner = "expiry" => del'[d].due,
         expiry' \in ExpiryTask, expiry' # NoExpiry => mode = "live" /\ expiry'.del # NoPath,
         expiry'.at = "idle" => expiry' = NoExpiry,
         LockHeld' => LockHeld \/ LockFree,
         expiry'.at \in {"persist", "apply"} =>
           /\ del'[expiry'.del].due \/ hand[expiry'.del].at = "same"
           /\ \A p \in Paths : occ[p].kind = "add" => expiry'.del \in occ[p].late,
         page' \in Row, page'.body = page.body, page'.path = page.path,
         ~removed => page'.life = page.life
  PROVE  IInv'
<1> USE DEF disk, history, start
<1>0. TypeOK
  BY DEF IInv
<1>1. (Writing' <=> Writing) /\ (Executing' <=> Executing) /\ (Moving' <=> Moving)
  BY DEF Writing, Executing, Moving
<1>2. TypeOK'
  <2>1. Busy' = Busy /\ \A p \in Paths : IsPending(p)' <=> IsPending(p)
    BY DEF Busy, IsPending
  <2> QED
    BY <1>0, <1>1, <2>1 DEF TypeOK, Busy
<1>3. Tasks'
  BY DEF IInv, Tasks, Busy, IsPending
<1>4. WaitsForIt'
  BY <1>1 DEF IInv, WaitsForIt, AtWorkOn
<1>5. ~removed' => OnlyWrites'
  BY <1>1 DEF IInv, OnlyWrites
<1>6. Candidates'
  <2>1. LockHeld' => \A p \in Paths : hand'[p].at \notin HoldsLock
    BY DEF IInv, Candidates, LockFree, HoldsLock
  <2> QED
    BY <2>1 DEF IInv, Candidates
<1>7. crashes' = 0 => NoCrash'
  <2> SUFFICES ASSUME NoCrash PROVE NoCrash'
    BY DEF IInv
  <2>1. Queued' \subseteq Queued
    BY DEF Queued
  <2>2. FirstStart' /\ OnePass'
    BY <1>1, <2>1 DEF NoCrash, FirstStart, OnePass
  <2>3. \A p \in Paths : Knows(hand[p], p)' /\ FirstEvent(hand[p], p)'
    BY <2>1 DEF NoCrash, Knows, FirstEvent
  <2> QED
    BY <1>1, <2>1, <2>2, <2>3 DEF NoCrash
<1> QED
  BY <1>2, <1>3, <1>4, <1>5, <1>6, <1>7 DEF IInv

(* Rows of the table that one update touches.                              *)
LEMMA RowTouched ==
  ASSUME TypeOK, NEW d \in Paths, NEW row \in DeleteRow, del[d] # NoDelete \/ row = NoDelete,
         row.owner = "expiry" => row.due, IInv,
         NEW table, table = [del EXCEPT ![d] = row]
  PROVE  /\ table \in [Paths -> DeleteRow] /\ table[d] = row
         /\ \A q \in Paths : table[q] # NoDelete => del[q] # NoDelete
         /\ \A q \in Paths : table[q].owner = "expiry" => table[q].due
         /\ \A q \in Paths \ {d} : table[q] = del[q]
<1>1. del \in [Paths -> DeleteRow]
  BY DEF TypeOK
<1>2. /\ table \in [Paths -> DeleteRow] /\ table[d] = row
      /\ \A q \in Paths \ {d} : table[q] = del[q]
  BY <1>1
<1> QED
  BY <1>2 DEF IInv, Candidates

LEMMA OwnerTouched ==
  ASSUME TypeOK, NEW d \in Paths,
         NEW owner \in {"none", "expiry", "gone"}, NEW fresh \in BOOLEAN
  PROVE  \E row \in DeleteRow :
           /\ [del EXCEPT ![d].owner = owner, ![d].fresh = fresh] = [del EXCEPT ![d] = row]
           /\ row.owner = owner /\ row.due = del[d].due
<1>1. del[d] \in DeleteRow
  BY DEF TypeOK
<1> DEFINE row == [del[d] EXCEPT !.owner = owner, !.fresh = fresh]
<1>2. row \in DeleteRow /\ row.owner = owner /\ row.due = del[d].due
  BY <1>1 DEF DeleteRow
<1>3. [del EXCEPT ![d].owner = owner, ![d].fresh = fresh] = [del EXCEPT ![d] = row]
  OBVIOUS
<1> HIDE DEF row
<1> QED
  BY <1>2, <1>3

LEMMA NoExpiryTyped ==
  /\ NoExpiry \in ExpiryTask /\ NoExpiry.at = "idle" /\ NoExpiry.del = NoPath
<1>1. NoDelete.state \in State
  BY DEF State
<1> QED
  BY <1>1 DEF NoExpiry, ExpiryTask

LEMMA ExpiryContext ==
  ASSUME IInv, NEW step \in {"idle", "lock", "persist", "apply", "complete"}, Expiring(step)
  PROVE  /\ TypeOK /\ mode = "live" /\ expiry.at = step /\ expiry \in ExpiryTask
         /\ UNCHANGED <<disk, intent, occ, strays, newest, hand, start, history, counters>>
         /\ lapses' \in Nat /\ reported \subseteq Paths /\ del \in [Paths -> DeleteRow] /\ page \in Row
         /\ step # "idle" => expiry.del \in Paths
<1>1. TypeOK /\ mode = "live" /\ expiry.at = step
      /\ UNCHANGED <<disk, intent, occ, strays, newest, hand, start, history, counters>>
  BY DEF IInv, Expiring
<1>2. /\ expiry \in ExpiryTask /\ lapses' \in Nat /\ reported \subseteq Paths
      /\ del \in [Paths -> DeleteRow] /\ page \in Row
  BY <1>1 DEF TypeOK, counters
<1>3. step # "idle" => expiry # NoExpiry
  BY <1>1 DEF NoExpiry
<1>4. step # "idle" => expiry.del \in Paths
  BY <1>1, <1>2, <1>3 DEF TypeOK, ExpiryTask
<1> QED
  BY <1>1, <1>2, <1>4

(* The loop lets go of the delete, whose event may have been recorded.     *)
LEMMA LetGoKeeps ==
  ASSUME IInv, NEW step \in {"lock", "persist", "apply", "complete"}, Expiring(step),
         NEW table \in [Paths -> DeleteRow], LetGo(table),
         \A q \in Paths : /\ table[q] # NoDelete => del[q] # NoDelete
                          /\ table[q].owner = "expiry" => table[q].due,
         reported' \subseteq Paths, UNCHANGED page
  PROVE  IInv'
<1>1. /\ TypeOK /\ mode = "live" /\ lapses' \in Nat /\ page \in Row /\ expiry.del \in Paths
      /\ UNCHANGED <<disk, intent, occ, strays, newest, hand, start, history, counters>>
  BY ExpiryContext
<1>2. expiry' = NoExpiry /\ NoExpiry \in ExpiryTask /\ NoExpiry.at = "idle"
  BY <1>1, NoExpiryTyped DEF LetGo
<1>3. /\ del' \in [Paths -> DeleteRow]
      /\ \A q \in Paths : del'[q] # NoDelete => del[q] # NoDelete
      /\ \A q \in Paths : del'[q].owner = "expiry" => del'[q].due
  <2> DEFINE d == expiry.del
  <2>1. CASE del' = table
    BY <2>1
  <2>2. CASE table[d].owner = "expiry" /\ del' = [table EXCEPT ![d].owner = "none", ![d].fresh = FALSE]
    <3>1. d \in Paths /\ table[d] \in DeleteRow
          /\ del' = [table EXCEPT ![d] = [table[d] EXCEPT !.owner = "none", !.fresh = FALSE]]
      BY <1>1, <2>2
    <3> HIDE DEF d
    <3>2. [table[d] EXCEPT !.owner = "none", !.fresh = FALSE] \in DeleteRow
          /\ [table[d] EXCEPT !.owner = "none", !.fresh = FALSE].owner = "none"
      BY <3>1 DEF DeleteRow
    <3>3. del' \in [Paths -> DeleteRow] /\ del'[d].owner = "none"
          /\ \A q \in Paths \ {d} : del'[q] = table[q]
      BY <3>1, <3>2
    <3>4. table[d] # NoDelete
      BY <2>2 DEF NoDelete
    <3> QED
      BY <3>1, <3>3, <3>4
  <2> QED
    BY <2>1, <2>2 DEF LetGo
<1>4. ~LockHeld'
  BY <1>2 DEF LockHeld
<1>5. UNCHANGED <<edits, writes, crashes>>
  BY <1>1 DEF counters
<1> QED
  BY <1>1, <1>2, <1>3, <1>4, <1>5, DeletesKeep

LEMMA DeleteEventTyped ==
  ASSUME TypeOK, expiry.del \in Paths, NEW state \in State,
         NEW event \in {"none", "pending", "applied", "superseded"}
  PROVE  /\ DeleteEvent(event, state) \in [Paths -> DeleteRow]
         /\ \A q \in Paths : LET row == DeleteEvent(event, state)[q] IN
              /\ row # NoDelete => del[q] # NoDelete
              /\ row.owner = del[q].owner /\ row.due = del[q].due
<1> DEFINE d == expiry.del
           table == DeleteEvent(event, state)
<1>1. del \in [Paths -> DeleteRow]
  BY DEF TypeOK
<1>2. CASE table = del
  BY <1>1, <1>2
<1>3. CASE del[d] # NoDelete /\ table = [del EXCEPT ![d].event = event, ![d].state = state]
  <2>1. d \in Paths /\ del[d] \in DeleteRow
        /\ table = [del EXCEPT ![d] = [del[d] EXCEPT !.event = event, !.state = state]]
    BY <1>1, <1>3
  <2> HIDE DEF d, table
  <2> DEFINE row == [del[d] EXCEPT !.event = event, !.state = state]
  <2>2. row \in DeleteRow /\ row.owner = del[d].owner /\ row.due = del[d].due
    BY <2>1 DEF DeleteRow
  <2> HIDE DEF row
  <2>3. /\ table \in [Paths -> DeleteRow] /\ table[d] = row
        /\ \A q \in Paths \ {d} : table[q] = del[q]
    BY <1>1, <2>1, <2>2 DEF row
  <2> QED
    BY <1>3, <2>2, <2>3 DEF table
<1> QED
  BY <1>2, <1>3 DEF DeleteEvent

LEMMA ClaimDueKeeps ==
  ASSUME IInv, NEW d \in Paths, ClaimDue(d)
  PROVE  IInv'
<1>1. /\ TypeOK /\ mode = "live" /\ lapses' \in Nat /\ page \in Row /\ reported \subseteq Paths
      /\ UNCHANGED <<disk, intent, occ, strays, newest, hand, start, history, counters>>
  BY ExpiryContext DEF ClaimDue
<1>2. /\ expiry' \in ExpiryTask /\ expiry'.at = "lock" /\ expiry'.del = d /\ d # NoPath
  BY NoExpiryTyped, VaultSyncAssumption DEF ClaimDue, ExpiryTask
<1>3. PICK row \in DeleteRow : /\ del' = [del EXCEPT ![d] = row]
                               /\ row.owner = "expiry" /\ row.due = del[d].due
  BY <1>1, OwnerTouched DEF ClaimDue
<1>4. del[d].due /\ del[d] # NoDelete
  BY DEF ClaimDue, NoDelete
<1>5. /\ del' \in [Paths -> DeleteRow]
      /\ \A q \in Paths : del'[q] # NoDelete => del[q] # NoDelete
      /\ \A q \in Paths : del'[q].owner = "expiry" => del'[q].due
  BY <1>1, <1>3, <1>4, RowTouched
<1>6. ~LockHeld' /\ UNCHANGED <<page, reported, edits, writes, crashes>>
  BY <1>1, <1>2 DEF LockHeld, ClaimDue, counters
<1> QED
  BY <1>1, <1>2, <1>5, <1>6, DeletesKeep

LEMMA RecheckKeeps ==
  ASSUME IInv, Recheck
  PROVE  IInv'
<1> DEFINE d == expiry.del
<1>0. Expiring("lock") /\ LockFree /\ UNCHANGED <<page, reported>>
  BY DEF Recheck
<1>1. /\ TypeOK /\ mode = "live" /\ lapses' \in Nat /\ page \in Row /\ reported \subseteq Paths
      /\ UNCHANGED <<disk, intent, occ, strays, newest, hand, start, history, counters>>
      /\ del \in [Paths -> DeleteRow] /\ d \in Paths /\ d # NoPath
  BY <1>0, ExpiryContext, VaultSyncAssumption
<1>2. \A q \in Paths : del[q].owner = "expiry" => del[q].due
  BY DEF IInv, Candidates
<1>3. CASE LetGo(del)
  BY <1>0, <1>1, <1>2, <1>3, LetGoKeeps
<1>4. CASE /\ Owned(d, "expiry") /\ MayExpire(d) /\ UNCHANGED del
           /\ expiry' = [expiry EXCEPT !.at = "persist", !.event = del[d].event, !.state = del[d].state]
  <2>1. del[d].event \in {"none", "pending", "applied", "superseded"} /\ del[d].state \in State
    BY <1>1 DEF DeleteRow
  <2>2. expiry' \in ExpiryTask /\ expiry'.at = "persist" /\ expiry'.del = d
    <3>1. expiry \in ExpiryTask
      BY <1>0, ExpiryContext
    <3> QED
      BY <1>4, <2>1, <3>1 DEF ExpiryTask
  <2>3. del'[d].due /\ \A p \in Paths : occ[p].kind = "add" => d \in occ[p].late
    BY <1>2, <1>4 DEF Owned, MayExpire
  <2>4. UNCHANGED <<page, reported, edits, writes, crashes>>
    BY <1>0, <1>1 DEF counters
  <2> QED
    BY <1>0, <1>1, <1>2, <1>4, <2>2, <2>3, <2>4, DeletesKeep
<1> QED
  BY <1>3, <1>4 DEF Recheck

(* The loop goes on under the lock, with the delete it has.                *)
LEMMA GoesOn ==
  ASSUME IInv, NEW step \in {"persist", "apply"}, Expiring(step), NEW next \in {"apply", "complete"},
         expiry' \in ExpiryTask, expiry'.at = next, expiry'.del = expiry.del,
         del' \in [Paths -> DeleteRow],
         \A q \in Paths : /\ del'[q] # NoDelete => del[q] # NoDelete
                          /\ del'[q].owner = del[q].owner /\ del'[q].due = del[q].due,
         UNCHANGED reported, page' \in Row, page'.body = page.body, page'.path = page.path,
         ~removed => page'.life = page.life
  PROVE  IInv'
<1>1. /\ TypeOK /\ mode = "live" /\ lapses' \in Nat /\ page \in Row /\ reported \subseteq Paths
      /\ UNCHANGED <<disk, intent, occ, strays, newest, hand, start, history, counters>>
      /\ expiry.at = step /\ expiry.del \in Paths /\ expiry.del # NoPath
  BY ExpiryContext, VaultSyncAssumption
<1>2. /\ del[expiry.del].due \/ hand[expiry.del].at = "same"
      /\ \A p \in Paths : occ[p].kind = "add" => expiry.del \in occ[p].late
      /\ \A q \in Paths : del[q].owner = "expiry" => del[q].due
      /\ LockHeld
  BY <1>1 DEF IInv, Candidates, LockHeld
<1>3. UNCHANGED <<edits, writes, crashes>>
  BY <1>1 DEF counters
<1> QED
  BY <1>1, <1>2, <1>3, DeletesKeep

LEMMA PersistDeleteKeeps ==
  ASSUME IInv, PersistDelete
  PROVE  IInv'
<1>0. Expiring("persist") /\ UNCHANGED page
  BY DEF PersistDelete
<1>1. /\ TypeOK /\ page \in Row /\ reported \subseteq Paths /\ del \in [Paths -> DeleteRow]
      /\ expiry.del \in Paths /\ expiry \in ExpiryTask
  BY <1>0, ExpiryContext
<1>2. ASSUME NEW step \in {"apply", "complete"}, ExpiryAt(step), UNCHANGED <<del, reported>>
      PROVE  IInv'
  <2>1. expiry' \in ExpiryTask /\ expiry'.at = step /\ expiry'.del = expiry.del
    BY <1>1, <1>2 DEF ExpiryAt, ExpiryTask
  <2> QED
    BY <1>0, <1>1, <1>2, <2>1, GoesOn
<1>3. CASE /\ del' = DeleteEvent("pending", page) /\ UNCHANGED reported
           /\ expiry' = [expiry EXCEPT !.at = "apply", !.event = "pending", !.state = page]
  <2>1. page \in State
    BY <1>1 DEF State
  <2>2. expiry' \in ExpiryTask /\ expiry'.at = "apply" /\ expiry'.del = expiry.del
    BY <1>1, <1>3, <2>1 DEF ExpiryTask
  <2>3. /\ del' \in [Paths -> DeleteRow]
        /\ \A q \in Paths : /\ del'[q] # NoDelete => del[q] # NoDelete
                            /\ del'[q].owner = del[q].owner /\ del'[q].due = del[q].due
    BY <1>1, <1>3, <2>1, DeleteEventTyped
  <2> QED
    BY <1>0, <1>1, <1>3, <2>2, <2>3, GoesOn
<1>4. CASE Abandon(del)
  <2>1. \A q \in Paths : del[q].owner = "expiry" => del[q].due
    BY DEF IInv, Candidates
  <2>2. LetGo(del) /\ reported' \subseteq Paths
    BY <1>1, <1>4 DEF Abandon
  <2> QED
    BY <1>0, <1>1, <2>1, <2>2, LetGoKeeps
<1> QED
  BY <1>2, <1>3, <1>4 DEF PersistDelete

LEMMA ApplyDeleteKeeps ==
  ASSUME IInv, ApplyDelete
  PROVE  IInv'
<1>0. Expiring("apply")
  BY DEF ApplyDelete
<1>1. /\ TypeOK /\ page \in Row /\ reported \subseteq Paths /\ del \in [Paths -> DeleteRow]
      /\ expiry.del \in Paths /\ expiry.state \in State /\ expiry \in ExpiryTask
      /\ \A q \in Paths : del[q].owner = "expiry" => del[q].due
  BY <1>0, ExpiryContext DEF ExpiryTask, IInv, Candidates
<1>2. CASE Abandon(del) /\ UNCHANGED page
  <2>1. LetGo(del) /\ reported' \subseteq Paths
    BY <1>1, <1>2 DEF Abandon
  <2> QED
    BY <1>0, <1>1, <1>2, <2>1, LetGoKeeps
<1>3. CASE Abandon(DeleteEvent("superseded", expiry.state)) /\ UNCHANGED page
  <2> DEFINE table == DeleteEvent("superseded", expiry.state)
  <2>1. LetGo(table) /\ reported' \subseteq Paths
    BY <1>1, <1>3 DEF Abandon
  <2>2. /\ table \in [Paths -> DeleteRow]
        /\ \A q \in Paths : /\ table[q] # NoDelete => del[q] # NoDelete
                            /\ table[q].owner = del[q].owner /\ table[q].due = del[q].due
    BY <1>1, DeleteEventTyped
  <2> HIDE DEF table
  <2> QED
    BY <1>0, <1>1, <1>3, <2>1, <2>2, LetGoKeeps
<1>4. CASE /\ ~Writing /\ page.path = expiry.del /\ file[expiry.del] = Missing
           /\ page' = Changed([page EXCEPT !.life = "deleted"])
           /\ del' = DeleteEvent("applied", expiry.state)
           /\ ExpiryAt("complete") /\ UNCHANGED reported
  <2>1. expiry' \in ExpiryTask /\ expiry'.at = "complete" /\ expiry'.del = expiry.del
    BY <1>1, <1>4 DEF ExpiryAt, ExpiryTask
  <2>2. /\ del' \in [Paths -> DeleteRow]
        /\ \A q \in Paths : /\ del'[q] # NoDelete => del[q] # NoDelete
                            /\ del'[q].owner = del[q].owner /\ del'[q].due = del[q].due
    BY <1>1, <1>4, DeleteEventTyped
  <2>3. page' \in Row /\ page'.body = page.body /\ page'.path = page.path
    BY <1>1, <1>4, ChangedTyped
  <2>4. removed
    BY <1>4 DEF IInv, OnlyWrites, Writing, NoIntent
  <2> QED
    BY <1>0, <1>4, <2>1, <2>2, <2>3, <2>4, GoesOn
<1> QED
  BY <1>2, <1>3, <1>4 DEF ApplyDelete

LEMMA CompleteDeleteKeeps ==
  ASSUME IInv, CompleteDelete
  PROVE  IInv'
<1> DEFINE d == expiry.del
<1>0. Expiring("complete") /\ UNCHANGED page
  BY DEF CompleteDelete
<1>1. /\ TypeOK /\ page \in Row /\ reported \subseteq Paths /\ del \in [Paths -> DeleteRow]
      /\ d \in Paths /\ \A q \in Paths : del[q].owner = "expiry" => del[q].due
      /\ mode = "live" /\ lapses' \in Nat
      /\ UNCHANGED <<disk, intent, occ, strays, newest, hand, start, history, counters>>
  BY <1>0, ExpiryContext DEF IInv, Candidates
<1>2. CASE expiry' = NoExpiry /\ del' = [del EXCEPT ![d] = NoDelete] /\ UNCHANGED reported
  <2>1. NoDelete \in DeleteRow /\ NoDelete.owner = "none"
    BY DEF NoDelete, DeleteRow, State, Missing
  <2>2. /\ del' \in [Paths -> DeleteRow]
        /\ \A q \in Paths : del'[q] # NoDelete => del[q] # NoDelete
        /\ \A q \in Paths : del'[q].owner = "expiry" => del'[q].due
    BY <1>1, <1>2, <2>1, RowTouched
  <2>3. expiry' \in ExpiryTask /\ expiry'.at = "idle"
    BY <1>1, <1>2, NoExpiryTyped
  <2>4. ~LockHeld' /\ UNCHANGED <<edits, writes, crashes>>
    BY <1>1, <2>3 DEF LockHeld, counters
  <2> QED
    BY <1>0, <1>1, <1>2, <2>2, <2>3, <2>4, DeletesKeep
<1>3. CASE LetGo(del) /\ reported' \in {reported, reported \cup {d}}
  <2>1. reported' \subseteq Paths
    BY <1>1, <1>3
  <2> QED
    BY <1>0, <1>1, <1>3, <2>1, LetGoKeeps
<1> QED
  BY <1>2, <1>3 DEF CompleteDelete, Abandon

LEMMA ExpiryKeeps ==
  ASSUME IInv, Expiry
  PROVE  IInv'
  BY ClaimDueKeeps, RecheckKeeps, PersistDeleteKeeps, ApplyDeleteKeeps, CompleteDeleteKeeps DEF Expiry

LEMMA GraceEndsKeeps ==
  ASSUME IInv, NEW d \in Paths, GraceEnds(d)
  PROVE  IInv'
<1>1. /\ TypeOK /\ del \in [Paths -> DeleteRow] /\ del[d] \in DeleteRow
      /\ \A q \in Paths : del[q].owner = "expiry" => del[q].due
  BY DEF IInv, TypeOK, Candidates
<1> DEFINE row == [del[d] EXCEPT !.due = TRUE]
<1>2. row \in DeleteRow /\ row.due /\ row.owner = del[d].owner
  BY <1>1 DEF DeleteRow
<1>3. del' = [del EXCEPT ![d] = row]
  BY DEF GraceEnds
<1> HIDE DEF row
<1>4. /\ del' \in [Paths -> DeleteRow] /\ del'[d] = row
      /\ \A q \in Paths \ {d} : del'[q] = del[q]
  BY <1>1, <1>2, <1>3
<1>5. /\ \A q \in Paths : del'[q] # NoDelete => del[q] # NoDelete
      /\ \A q \in Paths : del'[q].owner = "expiry" => del'[q].due
      /\ \A q \in Paths : del[q].due => del'[q].due
  BY <1>1, <1>2, <1>4 DEF GraceEnds
<1>6. /\ UNCHANGED <<disk, page, intent, occ, strays, newest, hand, expiry, start, history>>
      /\ UNCHANGED <<reported, edits, writes, crashes, lapses>>
  BY DEF GraceEnds, tasks, counters
<1>7. /\ expiry \in ExpiryTask /\ (expiry # NoExpiry => mode = "live" /\ expiry.del # NoPath)
      /\ page \in Row /\ reported \subseteq Paths /\ lapses \in Nat
      /\ expiry.at = "idle" => expiry = NoExpiry
  BY DEF IInv, TypeOK, Tasks
<1>8. LockHeld' => LockHeld
  BY <1>6 DEF LockHeld
<1>9. expiry.at \in {"persist", "apply"} =>
        /\ del'[expiry.del].due \/ hand[expiry.del].at = "same"
        /\ \A p \in Paths : occ[p].kind = "add" => expiry.del \in occ[p].late
  <2>1. expiry.at \in {"persist", "apply"} => expiry.del \in Paths
    BY <1>1 DEF TypeOK, ExpiryTask, NoExpiry
  <2> QED
    BY <1>5, <2>1 DEF IInv, Candidates
<1> QED
  BY <1>4, <1>5, <1>6, <1>7, <1>8, <1>9, DeletesKeep

LEMMA ClaimLapsesKeeps ==
  ASSUME IInv, NEW d \in Paths, ClaimLapses(d), lapses' \in Nat
  PROVE  IInv'
<1>1. /\ TypeOK /\ del \in [Paths -> DeleteRow] /\ del[d] \in DeleteRow
      /\ \A q \in Paths : del[q].owner = "expiry" => del[q].due
  BY DEF IInv, TypeOK, Candidates
<1> DEFINE row == [del[d] EXCEPT !.fresh = FALSE]
<1>2. row \in DeleteRow /\ row.due = del[d].due /\ row.owner = del[d].owner
  BY <1>1 DEF DeleteRow
<1>3. del' = [del EXCEPT ![d] = row] /\ del[d] # NoDelete
  BY DEF ClaimLapses, NoDelete
<1> HIDE DEF row
<1>4. /\ del' \in [Paths -> DeleteRow] /\ del'[d] = row
      /\ \A q \in Paths \ {d} : del'[q] = del[q]
  BY <1>1, <1>2, <1>3
<1>5. /\ \A q \in Paths : del'[q] # NoDelete => del[q] # NoDelete
      /\ \A q \in Paths : del'[q].owner = "expiry" => del'[q].due
      /\ \A q \in Paths : del[q].due => del'[q].due
  BY <1>1, <1>2, <1>3, <1>4
<1>6. /\ UNCHANGED <<disk, page, intent, occ, strays, newest, hand, expiry, start, history>>
      /\ UNCHANGED <<reported, edits, writes, crashes>>
  BY DEF ClaimLapses, tasks
<1>7. /\ expiry \in ExpiryTask /\ (expiry # NoExpiry => mode = "live" /\ expiry.del # NoPath)
      /\ page \in Row /\ reported \subseteq Paths
      /\ expiry.at = "idle" => expiry = NoExpiry
  BY DEF IInv, TypeOK, Tasks
<1>8. LockHeld' => LockHeld
  BY <1>6 DEF LockHeld
<1>9. expiry.at \in {"persist", "apply"} =>
        /\ del'[expiry.del].due \/ hand[expiry.del].at = "same"
        /\ \A p \in Paths : occ[p].kind = "add" => expiry.del \in occ[p].late
  <2>1. expiry.at \in {"persist", "apply"} => expiry.del \in Paths
    BY <1>1 DEF TypeOK, ExpiryTask, NoExpiry
  <2> QED
    BY <1>5, <2>1 DEF IInv, Candidates
<1> QED
  BY <1>4, <1>5, <1>6, <1>7, <1>8, <1>9, DeletesKeep

-----------------------------------------------------------------------------
(* The editor and the executor: the files, and the intent.                 *)
LEMMA OutsideKeeps ==
  ASSUME IInv,
         UNCHANGED <<page, occ, del, strays, reported, tasks, start, returned, crashes, lapses>>,
         edits' \in Nat, writes' \in Nat, newest' \in Nat, newest' >= newest,
         file' \in [Paths -> 0 .. newest'], raw' \in [Paths -> {"quiet", "modified", "added"}],
         removed' \in BOOLEAN, removed => removed',
         intent' \in Intent, Writing' => intent'.path # NoPath /\ intent'.rev \in 1 .. newest',
         intent'.occ \in {intent.occ, NoPath},
         Executing' =>
           \/ Executing /\ intent'.occ = intent.occ /\ intent'.path = intent.path
           \/ mode = "live" /\ intent'.occ = NoPath /\ intent'.path = page.path,
         Writing' => Writing \/ mode = "live", Writing => Writing',
         ~removed' => /\ Writing' => intent'.path = Home
                      /\ file'[Home] = Missing => intent'.held,
         crashes = 0 => (Writing' => (intent'.at = "ready" <=> Executing'))
  PROVE  IInv'
<1> USE DEF tasks, start
<1>0. TypeOK
  BY DEF IInv
<1>1. TypeOK'
  <2>1. Busy' = Busy /\ \A p \in Paths : IsPending(p)' <=> IsPending(p)
    BY DEF Busy, IsPending
  <2>2. /\ newest' \in Nat \ {0} /\ -1 .. newest \subseteq -1 .. newest'
        /\ 1 .. newest \subseteq 1 .. newest'
    BY <1>0 DEF TypeOK
  <2>3. listed' \in [Paths -> -1 .. newest'] /\ page' \in Row /\ page'.body \in 1 .. newest'
        /\ strays' \subseteq Paths \X (1 .. newest')
    BY <1>0, <2>2 DEF TypeOK
  <2>4. \A p \in Busy' : IsPending(p)' /\ hand'[p].seen <= newest'
    BY <1>0, <2>1 DEF TypeOK, Hand, Busy
  <2> QED
    BY <1>0, <2>2, <2>3, <2>4 DEF TypeOK
<1>2. Tasks'
  BY <1>0 DEF IInv, Tasks, Busy, IsPending, TypeOK, Intent
<1>3. WaitsForIt'
  BY DEF IInv, WaitsForIt, AtWorkOn
<1>4. ~removed' => OnlyWrites'
  BY DEF IInv, OnlyWrites
<1>5. Candidates'
  BY DEF IInv, Candidates, LockHeld
<1>6. crashes' = 0 => NoCrash'
  <2> SUFFICES ASSUME NoCrash, crashes = 0 PROVE NoCrash'
    BY DEF IInv
  <2>1. Queued' = Queued
    BY DEF Queued
  <2>2. FirstStart' /\ OnePass'
    BY <2>1 DEF NoCrash, FirstStart, OnePass
  <2>3. \A p \in Paths : Knows(hand[p], p)' /\ FirstEvent(hand[p], p)'
    BY <2>1 DEF NoCrash, Knows, FirstEvent
  <2>4. Moving' => Moving /\ intent'.occ = intent.occ
    BY DEF Moving
  <2> QED
    BY <2>1, <2>2, <2>3, <2>4 DEF NoCrash
<1> QED
  BY <1>1, <1>2, <1>3, <1>4, <1>5, <1>6 DEF IInv

LEMMA FilesTyped ==
  ASSUME TypeOK, NEW f, Files(f)
  PROVE  file' = f /\ raw' \in [Paths -> {"quiet", "modified", "added"}]
<1>1. \A p \in Paths : Heard(p, f) \in {"quiet", "modified", "added"}
  BY DEF TypeOK, Heard
<1> QED
  BY <1>1 DEF Files

LEMMA EditorKeeps ==
  ASSUME IInv, Editor
  PROVE  IInv'
<1>0. TypeOK /\ newest \in Nat \ {0} /\ file \in [Paths -> 0 .. newest]
  BY DEF IInv, TypeOK
<1>1. ASSUME NEW way, Edit(way), NEW f, Files(f), newest' \in {newest, newest + 1},
             f \in [Paths -> 0 .. newest'],
             way \notin {"remove", "move"} => (f[Home] = Missing => file[Home] = Missing)
      PROVE  IInv'
  <2>1. /\ UNCHANGED <<page, intent, occ, del, strays, reported, tasks, start, returned, writes, crashes, lapses>>
        /\ edits' \in Nat /\ writes' \in Nat /\ removed' = (removed \/ way \in {"remove", "move"})
    BY <1>0, <1>1 DEF Edit, rows, TypeOK
  <2>2. file' = f /\ raw' \in [Paths -> {"quiet", "modified", "added"}]
    BY <1>0, <1>1, FilesTyped
  <2>3. /\ (Writing' <=> Writing) /\ (Executing' <=> Executing) /\ intent' \in Intent
        /\ newest' \in Nat /\ newest' >= newest
        /\ Writing' => intent'.path # NoPath /\ intent'.rev \in 1 .. newest'
    BY <1>0, <1>1, <2>1 DEF TypeOK, Writing, Executing
  <2>4. crashes = 0 => (Writing' => (intent'.at = "ready" <=> Executing'))
    BY <2>1, <2>3 DEF IInv, NoCrash
  <2>5. ~removed' => /\ Writing' => intent'.path = Home
                     /\ file'[Home] = Missing => intent'.held
    BY <1>1, <2>1, <2>2, <2>3 DEF IInv, OnlyWrites
  <2>6. removed' \in BOOLEAN /\ (removed => removed')
    BY <1>0, <2>1 DEF TypeOK
  <2> QED
    BY <1>1, <2>1, <2>2, <2>3, <2>4, <2>5, <2>6, OutsideKeeps
<1>2. ASSUME NEW p \in Paths, Write(p) PROVE IInv'
  <2> DEFINE f == [file EXCEPT ![p] = newest']
  <2>1. Edit("write") /\ Files(f) /\ newest' = newest + 1
    BY <1>2 DEF Write
  <2>2. f \in [Paths -> 0 .. newest'] /\ (f[Home] = Missing => file[Home] = Missing)
    BY <1>0, <2>1, VaultSyncAssumption DEF Missing
  <2> HIDE DEF f
  <2> QED
    BY <1>1, <2>1, <2>2
<1>3. ASSUME NEW p \in Paths, Remove(p) PROVE IInv'
  <2> DEFINE f == [file EXCEPT ![p] = Missing]
  <2>1. Edit("remove") /\ Files(f) /\ newest' = newest
    BY <1>3 DEF Remove
  <2>2. f \in [Paths -> 0 .. newest']
    BY <1>0, <2>1 DEF Missing
  <2> HIDE DEF f
  <2> QED
    BY <1>1, <2>1, <2>2
<1>4. ASSUME NEW p \in Paths, Restore(p) PROVE IInv'
  <2> DEFINE f == [file EXCEPT ![p] = page.body]
  <2>1. Edit("restore") /\ Files(f) /\ newest' = newest
    BY <1>4 DEF Restore
  <2>2. page.body \in 1 .. newest
    BY <1>0 DEF TypeOK
  <2>3. f \in [Paths -> 0 .. newest'] /\ (f[Home] = Missing => file[Home] = Missing)
    BY <1>0, <2>1, <2>2, VaultSyncAssumption DEF Missing
  <2> HIDE DEF f
  <2> QED
    BY <1>1, <2>1, <2>3
<1>5. ASSUME NEW p \in Paths, NEW q \in Paths, Move(p, q) PROVE IInv'
  <2> DEFINE f == [file EXCEPT ![p] = Missing, ![q] = file[p]]
  <2>1. Edit("move") /\ Files(f) /\ newest' = newest
    BY <1>5 DEF Move
  <2>2. f \in [Paths -> 0 .. newest']
    BY <1>0, <2>1 DEF Missing
  <2> HIDE DEF f
  <2> QED
    BY <1>1, <2>1, <2>2
<1> QED
  BY <1>2, <1>3, <1>4, <1>5 DEF Editor

LEMMA PrepareEditKeeps ==
  ASSUME IInv, PrepareEdit
  PROVE  IInv'
<1>0. TypeOK /\ newest \in Nat \ {0} /\ file \in [Paths -> 0 .. newest] /\ page \in Row
  BY DEF IInv, TypeOK
<1>1. /\ UNCHANGED <<disk, page, occ, del, strays, reported, tasks, start, history, edits, crashes, lapses>>
      /\ mode = "live" /\ ~Writing /\ newest' = newest + 1 /\ writes' = writes + 1
  BY DEF PrepareEdit
<1>2. page.path \in Paths /\ page.path # NoPath /\ page.body \in Nat
  BY <1>0, VaultSyncAssumption DEF Row
<1>3. intent' = [path |-> page.path, expects |-> page.body, rev |-> newest + 1, occ |-> NoPath,
                 at |-> "ready", held |-> FALSE, owner |-> "live"]
  BY DEF PrepareEdit, NewIntent
<1>4. intent' \in Intent /\ intent' # NoIntent
  <2>1. intent' \in Intent
    BY <1>0, <1>2, <1>3 DEF Intent
  <2>2. intent' # NoIntent
    BY <1>2, <1>3 DEF NoIntent
  <2> QED
    BY <2>1, <2>2
<1>5. Executing' /\ Writing' /\ intent'.path = page.path /\ intent'.rev \in 1 .. newest'
      /\ intent'.occ = NoPath /\ intent'.at = "ready"
  BY <1>0, <1>1, <1>3, <1>4 DEF Executing, Writing
<1>6. /\ file' \in [Paths -> 0 .. newest'] /\ raw' \in [Paths -> {"quiet", "modified", "added"}]
      /\ edits' \in Nat /\ writes' \in Nat /\ newest' \in Nat /\ newest' >= newest
      /\ removed' \in BOOLEAN /\ removed' = removed
  <2>1. 0 .. newest \subseteq 0 .. newest + 1
    BY <1>0
  <2> QED
    BY <1>0, <1>1, <2>1 DEF TypeOK, disk, history
<1>7. ~removed' => /\ intent'.path = Home
                   /\ file'[Home] = Missing => intent'.held
  BY <1>1, <1>5, <1>6 DEF IInv, OnlyWrites, disk, Writing, NoIntent
<1> QED
  BY <1>1, <1>2, <1>4, <1>5, <1>6, <1>7, OutsideKeeps DEF history

(* The intent's state changes, and the file it is about.                   *)
LEMMA ExecutorKeeps ==
  ASSUME IInv, Writing, NEW i \in Intent, intent' = i, i.path = intent.path, i.rev = intent.rev,
         i.occ = intent.occ, i.owner = "live" => Executing /\ i.at \in {"ready", "stuck"},
         i.owner # "live" => i.at # "ready" \/ crashes # 0,
         file' \in [Paths -> 0 .. newest], raw' \in [Paths -> {"quiet", "modified", "added"}],
         file'[Home] = Missing => i.held \/ (file[Home] = Missing /\ ~intent.held),
         UNCHANGED <<page, occ, del, strays, reported, newest, tasks, start, history, counters>>
  PROVE  IInv'
<1>0. TypeOK /\ newest \in Nat \ {0} /\ edits \in Nat /\ writes \in Nat /\ removed \in BOOLEAN
      /\ intent.path # NoPath /\ intent.rev \in 1 .. newest
  BY DEF IInv, TypeOK
<1>1. Writing' /\ (Executing' => Executing) /\ (i.at = "ready" /\ i.owner = "live" <=> Executing')
  <2>1. intent' # NoIntent
    BY <1>0 DEF NoIntent
  <2> QED
    BY <2>1 DEF Writing, Executing
<1>2. crashes = 0 => (i.at = "ready" <=> Executing')
  BY <1>1
<1>3. ~removed => /\ i.path = Home
                  /\ file'[Home] = Missing => i.held
  BY DEF IInv, OnlyWrites
<1> QED
  BY <1>0, <1>1, <1>2, <1>3, OutsideKeeps DEF history, counters

LEMMA TakeKeeps ==
  ASSUME IInv, Take
  PROVE  IInv'
<1>0. /\ TypeOK /\ newest \in Nat \ {0} /\ file \in [Paths -> 0 .. newest] /\ intent \in Intent
      /\ Executing /\ Writing /\ ~intent.held
      /\ UNCHANGED <<page, occ, del, strays, reported, newest, tasks, start, history, counters>>
  BY DEF IInv, TypeOK, Take, Executing
<1>1. CASE /\ Files([file EXCEPT ![intent.path] = Missing]) /\ intent' = [intent EXCEPT !.held = TRUE]
  <2> DEFINE f == [file EXCEPT ![intent.path] = Missing]
             i == [intent EXCEPT !.held = TRUE]
  <2>1. /\ i \in Intent /\ i.path = intent.path /\ i.rev = intent.rev /\ i.occ = intent.occ
        /\ i.owner = intent.owner /\ i.at = intent.at /\ i.held
    BY <1>0 DEF Intent
  <2>2. f \in [Paths -> 0 .. newest]
    <3>1. Missing \in 0 .. newest
      BY <1>0 DEF Missing
    <3> HIDE DEF i
    <3> QED
      BY <1>0, <3>1
  <2>3. Files(f) /\ intent' = i
    BY <1>1
  <2> HIDE DEF f, i
  <2>4. file' = f /\ raw' \in [Paths -> {"quiet", "modified", "added"}]
    BY <1>0, <2>3, FilesTyped
  <2>5. intent.owner = "live" /\ intent.at = "ready"
    BY <1>0 DEF Executing
  <2> QED
    BY <1>0, <2>1, <2>2, <2>3, <2>4, <2>5, ExecutorKeeps
<1>2. CASE intent' = [intent EXCEPT !.at = "stuck"] /\ UNCHANGED disk
  <2> DEFINE i == [intent EXCEPT !.at = "stuck"]
  <2>1. /\ i \in Intent /\ i.path = intent.path /\ i.rev = intent.rev /\ i.occ = intent.occ
        /\ i.owner = intent.owner /\ i.at = "stuck" /\ i.held = intent.held
    BY <1>0 DEF Intent
  <2>2. file' = file /\ raw' \in [Paths -> {"quiet", "modified", "added"}] /\ intent' = i
    BY <1>0, <1>2 DEF TypeOK, disk
  <2> HIDE DEF i
  <2>3. intent.owner = "live"
    BY <1>0 DEF Executing
  <2> QED
    BY <1>0, <2>1, <2>2, <2>3, ExecutorKeeps
<1> QED
  BY <1>1, <1>2 DEF Take

LEMMA PutBlockedKeeps ==
  ASSUME IInv, PutBlocked
  PROVE  IInv'
<1>0. /\ TypeOK /\ newest \in Nat \ {0} /\ file \in [Paths -> 0 .. newest] /\ intent \in Intent
      /\ Executing /\ Writing /\ intent.held
      /\ UNCHANGED <<disk, page, occ, del, strays, reported, newest, tasks, start, history, counters>>
  BY DEF IInv, TypeOK, PutBlocked, Executing
<1> DEFINE i == [intent EXCEPT !.at = "stuck"]
<1>1. /\ i \in Intent /\ i.path = intent.path /\ i.rev = intent.rev /\ i.occ = intent.occ
      /\ i.owner = intent.owner /\ i.at = "stuck" /\ i.held = intent.held
  BY <1>0 DEF Intent
<1>2. file' = file /\ raw' \in [Paths -> {"quiet", "modified", "added"}] /\ intent' = i
  BY <1>0 DEF TypeOK, disk, PutBlocked
<1> HIDE DEF i
<1> QED
  BY <1>0, <1>1, <1>2, ExecutorKeeps

LEMMA IntentLapsesKeeps ==
  ASSUME IInv, IntentLapses
  PROVE  IInv'
<1>0. /\ TypeOK /\ newest \in Nat \ {0} /\ file \in [Paths -> 0 .. newest] /\ intent \in Intent
      /\ Writing
      /\ UNCHANGED <<disk, page, occ, del, strays, reported, newest, tasks, start, history, counters>>
  BY DEF IInv, TypeOK, IntentLapses, Writing, NoIntent
<1> DEFINE i == [intent EXCEPT !.owner = "none"]
<1>1. /\ i \in Intent /\ i.path = intent.path /\ i.rev = intent.rev /\ i.occ = intent.occ
      /\ i.owner = "none" /\ i.at = intent.at /\ i.held = intent.held
  BY <1>0 DEF Intent
<1>2. file' = file /\ raw' \in [Paths -> {"quiet", "modified", "added"}] /\ intent' = i
  BY <1>0 DEF TypeOK, disk, IntentLapses
<1>3. i.at # "ready" \/ crashes # 0
  <2>1. ASSUME crashes = 0, intent.at = "ready" PROVE FALSE
    <3>1. Executing
      BY <1>0, <2>1 DEF IInv, NoCrash
    <3> QED
      BY <2>1, <3>1 DEF Executing, IntentLapses
  <2> QED
    BY <1>1, <2>1
<1> HIDE DEF i
<1> QED
  BY <1>0, <1>1, <1>2, <1>3, ExecutorKeeps

LEMMA PutKeeps ==
  ASSUME IInv, Put
  PROVE  IInv'
<1> DEFINE c == intent.occ
<1>0. /\ TypeOK /\ newest \in Nat \ {0} /\ file \in [Paths -> 0 .. newest] /\ page \in Row
      /\ Executing /\ Writing /\ intent \in Intent /\ intent.path \in Paths
      /\ intent.rev \in 1 .. newest /\ intent' = NoIntent
      /\ UNCHANGED <<del, strays, reported, newest, hand, expiry, mode, listed, replayed>>
      /\ UNCHANGED <<removed, returned, edits, writes, crashes, lapses>>
  BY DEF IInv, TypeOK, Put, Executing, Intent, tasks, start, history, counters
<1>1. file' = [file EXCEPT ![intent.path] = intent.rev] /\ raw' \in [Paths -> {"quiet", "modified", "added"}]
  BY <1>0, FilesTyped DEF Put
<1>2. /\ page' \in Row /\ page'.path = intent.path /\ page'.body = intent.rev
      /\ page'.life = "active"
  <2>1. page' = Changed([page EXCEPT !.path = intent.path, !.life = "active", !.body = intent.rev])
    BY DEF Put
  <2>2. intent.rev \in Nat
    BY <1>0
  <2> DEFINE row == [page EXCEPT !.path = intent.path, !.life = "active", !.body = intent.rev]
  <2>3. row \in Row /\ row.path = intent.path /\ row.body = intent.rev /\ row.life = "active"
    BY <1>0, <2>2 DEF Row
  <2>4. page' = [row EXCEPT !.epoch = @ + 1]
    BY <2>1 DEF Changed
  <2> HIDE DEF row
  <2> QED
    BY <2>3, <2>4 DEF Row
<1>3. /\ occ' \in [Paths -> OccurrenceRow]
      /\ \A p \in Paths : occ'[p].kind = occ[p].kind /\ occ'[p].late = occ[p].late
      /\ \A p \in Paths : p # c => occ'[p] = occ[p]
      /\ \A p \in Paths : IsPending(p) => IsPending(p)'
  <2>1. occ \in [Paths -> OccurrenceRow]
    BY <1>0 DEF TypeOK
  <2>2. occ' = [p \in Paths |-> IF p = c THEN [occ[p] EXCEPT !.event = "applied"] ELSE occ[p]]
    BY DEF Put
  <2>3. ASSUME NEW p \in Paths
        PROVE  LET o == [occ[p] EXCEPT !.event = "applied"] IN
               o \in OccurrenceRow /\ o.kind = occ[p].kind /\ o.late = occ[p].late /\ o # NoOccurrence
    <3>1. occ[p] \in OccurrenceRow
      BY <2>1
    <3>2. [occ[p] EXCEPT !.event = "applied"] \in OccurrenceRow
      BY <3>1 DEF OccurrenceRow
    <3>3. [occ[p] EXCEPT !.event = "applied"].event = "applied"
      BY <3>1 DEF OccurrenceRow
    <3>4. /\ [occ[p] EXCEPT !.event = "applied"].kind = occ[p].kind
          /\ [occ[p] EXCEPT !.event = "applied"].late = occ[p].late
      BY <3>1 DEF OccurrenceRow
    <3>5. NoOccurrence.event = "none"
      BY DEF NoOccurrence
    <3> QED
      BY <3>2, <3>3, <3>4, <3>5
  <2> HIDE DEF c
  <2> QED
    BY <2>1, <2>2, <2>3 DEF IsPending
<1>4. ~Writing' /\ ~Executing' /\ intent'.occ = NoPath /\ intent' \in Intent /\ ~intent'.held
  BY <1>0 DEF Writing, Executing, NoIntent, Intent, Missing
<1>5. \A p \in Paths : occ'[p] = NoOccurrence => occ[p] = NoOccurrence
  BY <1>3 DEF IsPending
<1>6. TypeOK'
  <2>1. file' \in [Paths -> 0 .. newest]
    <3>1. intent.rev \in 0 .. newest
      BY <1>0
    <3> QED
      BY <1>0, <1>1, <3>1
  <2>2. \A p \in Busy' : IsPending(p)' /\ hand'[p].seen <= newest
    BY <1>0, <1>3 DEF TypeOK, Busy
  <2> QED
    BY <1>0, <1>1, <1>2, <1>3, <1>4, <2>1, <2>2 DEF TypeOK
<1>7. Tasks'
  <2>1. \A p \in Paths : occ'[p].kind = "none" => occ'[p] = NoOccurrence
    <3>1. c # NoPath => IsPending(c)
      BY DEF IInv, Tasks
    <3>2. \A p \in Paths : occ[p].kind = "none" => occ[p] = NoOccurrence
      BY DEF IInv, Tasks
    <3>3. \A p \in Paths : p = c => IsPending(p)
      BY <3>1, VaultSyncAssumption
    <3> QED
      BY <1>3, <3>2, <3>3 DEF IsPending
  <2>2. Busy' = Busy
    BY <1>0 DEF Busy
  <2> QED
    BY <1>0, <1>4, <2>1, <2>2 DEF IInv, Tasks
<1>8. WaitsForIt'
  BY <1>4 DEF WaitsForIt
<1>9. ~removed' => OnlyWrites'
  <2> SUFFICES ASSUME OnlyWrites, ~removed PROVE OnlyWrites'
    BY <1>0 DEF IInv
  <2>1. intent.path = Home /\ file'[Home] # Missing /\ mode # "scan"
    BY <1>0, <1>1, VaultSyncAssumption DEF OnlyWrites, Missing, IInv, WaitsForIt
  <2> QED
    BY <1>0, <1>2, <1>3, <1>4, <2>1 DEF OnlyWrites
<1>10. Candidates'
  BY <1>0, <1>3 DEF IInv, Candidates, LockHeld
<1>11. crashes' = 0 => NoCrash'
  <2> SUFFICES ASSUME NoCrash, crashes = 0 PROVE NoCrash'
    BY <1>0 DEF IInv
  <2>1. Queued' = Queued /\ Queued' \subseteq {page'.path}
    BY <1>0, <1>2 DEF Queued, NoCrash, Moving
  <2>2. mode \in {"settle", "live"}
    BY <1>0 DEF NoCrash, FirstStart
  <2>3. c # NoPath => AtWorkOn(c)
    BY <1>0, <2>2 DEF IInv, WaitsForIt
  <2>4. \A p \in Paths : FirstEvent(hand[p], p)'
    <3> SUFFICES ASSUME NEW p \in Paths PROVE FirstEvent(hand[p], p)'
      OBVIOUS
    <3>1. CASE p = c
      BY <1>0, <2>3, <3>1, VaultSyncAssumption DEF FirstEvent, AtWorkOn
    <3>2. CASE p # c
      BY <1>0, <1>3, <3>2 DEF FirstEvent, NoCrash
    <3> QED
      BY <3>1, <3>2
  <2>5. \A p \in Paths : Knows(hand[p], p)'
    BY <1>0, <2>1 DEF NoCrash, Knows
  <2>6. FirstStart' /\ OnePass'
    BY <1>0, <2>2 DEF FirstStart, NoCrash, OnePass
  <2> QED
    BY <1>4, <2>1, <2>4, <2>5, <2>6 DEF NoCrash, Moving
<1> QED
  BY <1>6, <1>7, <1>8, <1>9, <1>10, <1>11 DEF IInv

-----------------------------------------------------------------------------
(* Crashes and starts.                                                     *)
LEMMA CrashKeeps ==
  ASSUME IInv, Crash
  PROVE  IInv'
<1>0. /\ TypeOK /\ intent \in Intent /\ del \in [Paths -> DeleteRow] /\ crashes \in Nat
      /\ UNCHANGED <<file, page, occ, strays, reported, newest, removed, returned, edits, writes, lapses>>
      /\ crashes' = crashes + 1 /\ mode' = "down"
      /\ hand' = [p \in Paths |-> Idle] /\ expiry' = NoExpiry
      /\ raw' = [p \in Paths |-> "quiet"]
      /\ listed' = [p \in Paths |-> Unseen] /\ replayed' = {}
  BY DEF IInv, TypeOK, Crash, history
<1>1. /\ intent' \in Intent /\ intent'.occ = intent.occ /\ intent'.path = intent.path
      /\ intent'.rev = intent.rev /\ intent'.held = intent.held /\ intent'.owner # "live"
      /\ Writing' <=> Writing
  <2>1. CASE intent.owner = "live"
    <3>1. intent' = [intent EXCEPT !.owner = "dead"]
      BY <2>1 DEF Crash
    <3>2. /\ intent' \in Intent /\ intent'.occ = intent.occ /\ intent'.path = intent.path
          /\ intent'.rev = intent.rev /\ intent'.held = intent.held /\ intent'.owner = "dead"
      BY <1>0, <3>1 DEF Intent
    <3>3. Writing /\ Writing'
      BY <2>1, <3>2 DEF Writing, NoIntent
    <3> QED
      BY <3>2, <3>3
  <2>2. CASE intent.owner # "live"
    <3>1. intent' = intent
      BY <2>2 DEF Crash
    <3> QED
      BY <1>0, <2>2, <3>1 DEF Writing
  <2> QED
    BY <2>1, <2>2
<1>2. del' \in [Paths -> DeleteRow] /\ \A d \in Paths : del'[d].owner # "expiry"
  <2>1. del' = [d \in Paths |-> IF del[d].owner = "none" THEN del[d]
                                ELSE [del[d] EXCEPT !.owner = "gone"]]
    BY DEF Crash
  <2>2. ASSUME NEW d \in Paths
        PROVE  del'[d] \in DeleteRow /\ del'[d].owner # "expiry"
    <3>1. del[d] \in DeleteRow
      BY <1>0
    <3>2. CASE del[d].owner = "none"
      BY <2>1, <3>1, <3>2
    <3>3. CASE del[d].owner # "none"
      <4>1. del'[d] = [del[d] EXCEPT !.owner = "gone"]
        BY <2>1, <3>3
      <4> QED
        BY <3>1, <4>1 DEF DeleteRow
    <3> QED
      BY <3>2, <3>3
  <2> QED
    BY <2>1, <2>2
<1>3. Busy' = {} /\ ~Executing' /\ ~LockHeld' /\ expiry'.at = "idle" /\ crashes' # 0
  BY <1>0, <1>1 DEF Busy, Executing, LockHeld, NoExpiry
<1>4. TypeOK'
  <2>1. hand' \in [Paths -> Hand] /\ expiry' \in ExpiryTask
    BY <1>0, NoExpiryTyped DEF Idle, Hand, Missing
  <2>2. listed' \in [Paths -> -1 .. newest] /\ raw' \in [Paths -> {"quiet", "modified", "added"}]
    BY <1>0 DEF TypeOK, Unseen
  <2> QED
    BY <1>0, <1>1, <1>2, <1>3, <2>1, <2>2 DEF TypeOK
<1>5. Tasks' /\ WaitsForIt'
  BY <1>0, <1>1, <1>3 DEF IInv, Tasks, WaitsForIt, IsPending, Idle
<1>6. ~removed' => OnlyWrites'
  BY <1>0, <1>1 DEF IInv, OnlyWrites, Idle
<1>7. Candidates'
  BY <1>2, <1>3 DEF Candidates
<1> QED
  BY <1>3, <1>4, <1>5, <1>6, <1>7 DEF IInv

(* A step of the start-up that changes no row but what is reported.        *)
LEMMA StageKeeps ==
  ASSUME IInv,
         UNCHANGED <<disk, page, intent, occ, del, strays, newest, hand, expiry, removed, returned, counters>>,
         reported' \subseteq Paths, replayed' \subseteq Paths, listed' \in [Paths -> -1 .. newest],
         mode' \in {"recover", "replay", "scan", "settle", "live"},
         mode' \in {"recover", "scan"} => Busy = {}, mode # "live",
         mode' \in {"recover", "replay"} => \A p \in Paths : listed'[p] = Unseen,
         mode = "execute" => ~Executing, mode' \in {"replay", "scan"} => ~Executing,
         ~removed /\ mode' = "scan" /\ listed'[Home] = Missing => Writing,
         mode = "settle" => mode' \in {"settle", "live"}
  PROVE  IInv'
<1> USE DEF disk, counters
<1>0. TypeOK /\ Busy' = Busy /\ (\A p \in Paths : IsPending(p)' <=> IsPending(p)) /\ Queued' = Queued
      /\ expiry = NoExpiry
  BY DEF IInv, Tasks, Busy, IsPending, Queued
<1>1. TypeOK'
  <2>1. \A p \in Busy' : IsPending(p)' /\ hand'[p].seen <= newest
    BY <1>0 DEF TypeOK, Busy
  <2>2. Writing' <=> Writing
    BY DEF Writing
  <2> QED
    BY <1>0, <2>1, <2>2 DEF TypeOK
<1>2. Tasks'
  BY <1>0 DEF IInv, Tasks, IsPending
<1>3. WaitsForIt'
  BY DEF IInv, WaitsForIt, Executing, Writing, AtWorkOn
<1>4. ~removed' => OnlyWrites'
  BY DEF IInv, OnlyWrites, Writing
<1>5. Candidates'
  BY DEF IInv, Candidates, LockHeld
<1>6. crashes' = 0 => NoCrash'
  <2> SUFFICES ASSUME NoCrash, crashes = 0 PROVE NoCrash'
    BY DEF IInv
  <2>1. FirstStart'
    BY <1>0 DEF NoCrash, FirstStart, Writing
  <2>2. OnePass' /\ \A p \in Paths : Knows(hand[p], p)' /\ FirstEvent(hand[p], p)'
    BY <1>0 DEF NoCrash, OnePass, Knows, FirstEvent
  <2> QED
    BY <1>0, <2>1, <2>2 DEF NoCrash, Moving, Executing, Writing
<1> QED
  BY <1>1, <1>2, <1>3, <1>4, <1>5, <1>6 DEF IInv

LEMMA BootKeeps ==
  ASSUME IInv, Boot
  PROVE  IInv'
<1>1. mode = "down" /\ mode' = "recover"
      /\ UNCHANGED <<disk, page, intent, occ, del, strays, newest, hand, expiry, removed, returned, counters>>
      /\ UNCHANGED <<reported, replayed, listed>>
  BY DEF Boot, Starting, rows
<1>2. /\ reported \subseteq Paths /\ replayed \subseteq Paths /\ listed \in [Paths -> -1 .. newest]
      /\ Busy = {} /\ \A p \in Paths : listed[p] = Unseen
  BY <1>1 DEF IInv, TypeOK, Tasks
<1> QED
  BY <1>1, <1>2, StageKeeps

LEMMA IntentsRecoveredKeeps ==
  ASSUME IInv, IntentsRecovered
  PROVE  IInv'
<1>1. mode = "execute" /\ mode' = "replay" /\ ~Executing
      /\ UNCHANGED <<disk, page, intent, occ, del, strays, newest, hand, expiry, removed, returned, counters>>
      /\ UNCHANGED <<reported, replayed, listed>>
  BY DEF IntentsRecovered, Starting, rows
<1>2. /\ reported \subseteq Paths /\ replayed \subseteq Paths /\ listed \in [Paths -> -1 .. newest]
      /\ \A p \in Paths : listed[p] = Unseen
  BY <1>1 DEF IInv, TypeOK, Tasks
<1> QED
  BY <1>1, <1>2, StageKeeps

LEMMA AllReplayedKeeps ==
  ASSUME IInv, AllReplayed
  PROVE  IInv'
<1>1. mode = "replay" /\ mode' = "scan" /\ Busy = {}
      /\ UNCHANGED <<disk, page, intent, occ, del, strays, newest, hand, expiry, removed, returned, counters>>
      /\ UNCHANGED <<reported, replayed, listed>>
  BY DEF AllReplayed, Starting, rows
<1>2. /\ reported \subseteq Paths /\ replayed \subseteq Paths /\ listed \in [Paths -> -1 .. newest]
      /\ \A p \in Paths : listed[p] = Unseen
  BY <1>1 DEF IInv, TypeOK, Tasks
<1>3. ~Executing
  <2>1. intent.occ \in Paths \cup {NoPath}
    BY DEF IInv, TypeOK, Intent
  <2> QED
    BY <1>1, <2>1 DEF IInv, Tasks, WaitsForIt, AllReplayed
<1>4. listed[Home] # Missing
  BY <1>2, VaultSyncAssumption DEF Unseen, Missing
<1> QED
  BY <1>1, <1>2, <1>3, <1>4, StageKeeps

LEMMA GoLiveKeeps ==
  ASSUME IInv, GoLive
  PROVE  IInv'
<1>1. mode = "settle" /\ mode' = "live"
      /\ UNCHANGED <<disk, page, intent, occ, del, strays, newest, hand, expiry, removed, returned, counters>>
      /\ UNCHANGED <<reported, replayed, listed>>
  BY DEF GoLive, Starting, rows
<1>2. reported \subseteq Paths /\ replayed \subseteq Paths /\ listed \in [Paths -> -1 .. newest]
  BY DEF IInv, TypeOK
<1> QED
  BY <1>1, <1>2, StageKeeps

LEMMA ScanKeeps ==
  ASSUME IInv, NEW p \in Paths, Scan(p)
  PROVE  IInv'
<1>1. mode = "scan" /\ mode' = "scan" /\ listed' = [listed EXCEPT ![p] = file[p]]
      /\ UNCHANGED <<disk, page, intent, occ, del, strays, newest, hand, expiry, removed, returned, counters>>
      /\ UNCHANGED <<reported, replayed>>
  BY DEF Scan, Starting, rows
<1>2. /\ reported \subseteq Paths /\ replayed \subseteq Paths /\ listed \in [Paths -> -1 .. newest]
      /\ Busy = {} /\ ~Executing /\ file \in [Paths -> 0 .. newest] /\ newest \in Nat
  BY <1>1 DEF IInv, TypeOK, Tasks, WaitsForIt
<1>3. listed' \in [Paths -> -1 .. newest]
  <2>1. file[p] \in -1 .. newest
    BY <1>2
  <2> QED
    BY <1>1, <1>2, <2>1
<1>4. ~removed /\ listed'[Home] = Missing => Writing
  <2>1. listed'[Home] = listed[Home] \/ listed'[Home] = file[Home]
    BY <1>1, <1>2, VaultSyncAssumption
  <2>2. intent.held => Writing
    BY DEF Writing, NoIntent
  <2> QED
    BY <1>1, <2>1, <2>2 DEF IInv, OnlyWrites
<1> QED
  BY <1>1, <1>2, <1>3, <1>4, StageKeeps

LEMMA RecoverIntentsKeeps ==
  ASSUME IInv, RecoverIntents
  PROVE  IInv'
<1>0. /\ TypeOK /\ mode = "recover" /\ mode' = "execute" /\ GoOn
      /\ UNCHANGED <<disk, occ, del, strays, reported, hand, expiry, listed, replayed>>
      /\ UNCHANGED <<removed, returned, edits, writes, crashes, lapses>>
  BY DEF IInv, RecoverIntents, Starting, counters
<1>1. /\ Typed /\ StaysHome /\ intent'.occ \in {intent.occ, NoPath}
      /\ Busy' = Busy /\ Busy = {} /\ Queued' = Queued
      /\ \A p \in Paths : IsPending(p)' <=> IsPending(p)
  BY <1>0, GoOnKeeps DEF IInv, Tasks, Busy, Queued, IsPending
<1>2. TypeOK'
  <2>1. newest' \in Nat \ {0} /\ 0 .. newest \subseteq 0 .. newest' /\ -1 .. newest \subseteq -1 .. newest'
    BY <1>0, <1>1 DEF TypeOK, Typed
  <2>2. file' \in [Paths -> 0 .. newest'] /\ listed' \in [Paths -> -1 .. newest']
    BY <1>0, <2>1 DEF TypeOK, disk
  <2> QED
    BY <1>0, <1>1, <2>1, <2>2 DEF TypeOK, Typed, disk
<1>3. Tasks'
  BY <1>0, <1>1 DEF IInv, Tasks, IsPending
<1>4. WaitsForIt'
  BY <1>0 DEF WaitsForIt
<1>5. ~removed' => OnlyWrites'
  BY <1>0, <1>1 DEF IInv, OnlyWrites, StaysHome, disk
<1>6. Candidates'
  BY <1>0 DEF IInv, Candidates, LockHeld
<1>7. crashes' = 0 => NoCrash'
  <2> SUFFICES ASSUME NoCrash, crashes = 0 PROVE NoCrash'
    BY <1>0 DEF IInv
  <2>1. ~Writing
    BY <1>0 DEF NoCrash, FirstStart
  <2>2. UNCHANGED <<page, intent, newest>>
    BY <1>0, <2>1 DEF GoOn
  <2>3. FirstStart' /\ OnePass'
    BY <1>0, <1>1, <2>2 DEF NoCrash, FirstStart, OnePass, Writing
  <2>4. \A p \in Paths : Knows(hand[p], p)' /\ FirstEvent(hand[p], p)'
    BY <1>0, <1>1 DEF NoCrash, Knows, FirstEvent
  <2> QED
    BY <1>1, <2>1, <2>2, <2>3, <2>4 DEF NoCrash, Moving, Executing, Writing
<1> QED
  BY <1>2, <1>3, <1>4, <1>5, <1>6, <1>7 DEF IInv

LEMMA ReplayKeeps ==
  ASSUME IInv, NEW p \in Paths, Replay(p)
  PROVE  IInv'
<1>0. /\ TypeOK /\ mode = "replay" /\ IsPending(p) /\ hand[p] = Idle /\ ~Executing
      /\ UNCHANGED <<disk, expiry, mode, listed, history, counters>>
  <2>1. mode = "replay" /\ Busy = {} /\ IsPending(p) /\ UNCHANGED <<disk, expiry, mode, listed, history, counters>>
    BY DEF Replay, Starting, history
  <2>2. \A q \in Paths : hand[q].at # "wait"
    BY <2>1 DEF Busy, Idle
  <2>3. ~Executing
    <3>1. intent.occ \in Paths \cup {NoPath}
      BY DEF IInv, TypeOK, Intent
    <3> QED
      BY <2>1, <2>2, <3>1 DEF IInv, WaitsForIt, AtWorkOn
  <2> QED
    BY <2>1, <2>3 DEF IInv, Busy
<1>1. replayed' \subseteq Paths /\ crashes # 0
  BY <1>0 DEF Replay, TypeOK, IInv, NoCrash, FirstStart, IsPending
<1>2. hand[p].at = "idle" /\ hand[p].seen = 0 /\ newest \in Nat
  BY <1>0 DEF Idle, Missing, TypeOK
<1>3. ASSUME NEW bad \in BOOLEAN, End(p, bad), UNCHANGED <<page, del, strays, newest>>
      PROVE  IInv'
  <2>1. Loosens
    BY <1>0, <1>3, ReleaseLoosens
  <2>2. Ends(p)
    BY <1>0, <1>1, <1>3, <2>1, EndIsAnEnd
  <2> QED
    BY <1>0, <1>2, <2>2, EndKeeps
<1>4. ASSUME NEW h \in Hand, hand' = [hand EXCEPT ![p] = h], h.at \in {"claim", "resolve", "look", "queue"},
             h.seen = hand[p].seen, OnlyMoves
      PROVE  IInv'
  <2>1. MayGo(p, h)
    BY <1>2, <1>4 DEF MayGo, HoldsLock
  <2>2. UNCHANGED <<rows, newest>>
    BY <1>4 DEF OnlyMoves
  <2> QED
    BY <1>0, <1>1, <1>4, <2>1, <2>2, MoveKeeps
<1>5. ASSUME NEW step \in {"resolve", "look", "queue"}, Goto(p, step), OnlyMoves
      PROVE  IInv'
  <2>1. PICK h \in Hand : hand' = [hand EXCEPT ![p] = h] /\ h.at = step /\ h.seen = hand[p].seen
    BY <1>0, <1>5, AtStep
  <2> QED
    BY <1>4, <1>5, <2>1
<1>6. ASSUME GotoWith(p, "claim", occ[p].old), OnlyMoves
      PROVE  IInv'
  <2>1. occ[p].old \in Paths \cup {NoPath}
    BY <1>0 DEF TypeOK, OccurrenceRow
  <2>2. PICK h \in Hand : hand' = [hand EXCEPT ![p] = h] /\ h.at = "claim" /\ h.seen = hand[p].seen
    BY <1>0, <1>6, <2>1, AtStep
  <2> QED
    BY <1>4, <1>6, <2>2
<1> QED
  BY <1>3, <1>5, <1>6 DEF Replay, Fail, FailLeaving

-----------------------------------------------------------------------------
(* The comparison of the files found with the row.                         *)
LEMMA SettlingContext ==
  ASSUME IInv, Settling
  PROVE  /\ TypeOK /\ mode = "scan" /\ mode' = "settle" /\ Busy = {} /\ ~Executing
         /\ UNCHANGED <<disk, page, intent, del, strays, newest, expiry, removed, returned, counters>>
         /\ UNCHANGED <<listed, replayed>>
         /\ crashes = 0 => Queued = {} /\ ~Writing /\ \A p \in Paths : occ[p] = NoOccurrence
<1>1. mode = "scan" /\ mode' = "settle"
      /\ UNCHANGED <<disk, page, intent, del, strays, newest, expiry, removed, returned, counters>>
      /\ UNCHANGED <<listed, replayed>>
  BY DEF Settling, Starting
<1> QED
  BY <1>1 DEF IInv, Tasks, WaitsForIt, NoCrash, FirstStart

LEMMA NotedKeeps ==
  ASSUME IInv, Settling, NEW paths \in SUBSET Paths, Noted(paths)
  PROVE  IInv'
<1>1. /\ mode = "scan" /\ mode' = "settle"
      /\ UNCHANGED <<disk, page, intent, occ, del, strays, newest, hand, expiry, removed, returned, counters>>
      /\ UNCHANGED <<listed, replayed>>
  BY SettlingContext DEF Noted
<1>2. /\ reported' \subseteq Paths /\ replayed \subseteq Paths /\ listed \in [Paths -> -1 .. newest]
  BY DEF IInv, TypeOK, Noted
<1> QED
  BY <1>1, <1>2, StageKeeps

LEMMA NothingToDoKeeps ==
  ASSUME IInv, Settling, NothingToDo
  PROVE  IInv'
  BY NotedKeeps DEF NothingToDo

LEMMA BeginKeeps ==
  ASSUME IInv, Settling, NEW p \in Paths, NEW kind \in {"add", "modify", "delete", "rename", "relocate"},
         NEW old \in Paths \cup {NoPath}, NEW d \in Paths \cup {NoPath},
         NEW step \in {"queue", "same", "cancel", "resolve", "claim", "idle"},
         Begin(kind, p, old, step, d),
         step = "idle" => d = NoPath, step = "claim" => d # NoPath,
         kind \in {"rename", "relocate"} => removed
  PROVE  IInv'
<1>0. /\ TypeOK /\ mode = "scan" /\ mode' = "settle" /\ Busy = {} /\ ~Executing
      /\ UNCHANGED <<disk, page, intent, del, strays, newest, expiry, removed, returned, counters>>
      /\ UNCHANGED <<listed, replayed, reported>>
  BY SettlingContext DEF Begin
<1>1. \A q \in Paths : hand[q] = Idle
  BY <1>0 DEF Busy
<1>2. PICK h \in Hand : /\ hand' = [hand EXCEPT ![p] = h]
                        /\ h.at = step /\ h.del = d /\ h.seen = hand[p].seen
  BY <1>0, AtStep DEF Begin
<1> DEFINE o == Occurrence(kind, old)
<1>3. o \in OccurrenceRow /\ o.kind = kind /\ o.event = "none" /\ o # NoOccurrence
  BY <1>0, OccurrenceTyped
<1>4. occ' = [occ EXCEPT ![p] = o]
  BY DEF Begin
<1> HIDE DEF o
<1>5. /\ hand'[p] = h /\ (\A q \in Paths \ {p} : hand'[q] = Idle) /\ hand' \in [Paths -> Hand]
      /\ occ'[p] = o /\ (\A q \in Paths \ {p} : occ'[q] = occ[q])
      /\ occ' \in [Paths -> OccurrenceRow]
  BY <1>0, <1>1, <1>2, <1>3, <1>4 DEF TypeOK
<1>6. h.seen = 0 /\ (step = "idle" => h = Idle)
  <2>1. h.seen = Missing
    BY <1>1, <1>2 DEF Idle
  <2>2. ASSUME step = "idle" PROVE h = Idle
    BY <1>2, <2>1, <2>2 DEF Idle, Hand
  <2> QED
    BY <2>1, <2>2 DEF Missing
<1>7. /\ expiry = NoExpiry /\ ~LockHeld /\ expiry.at = "idle"
      /\ (Writing' <=> Writing) /\ ~Executing' /\ Queued' = Queued
  BY <1>0, NoExpiryTyped DEF IInv, Tasks, LockHeld, Writing, Executing, Queued
<1>8. TypeOK'
  <2>1. Busy' \subseteq {p} /\ \A q \in Busy' : IsPending(q)' /\ hand'[q].seen <= newest
    BY <1>0, <1>3, <1>5, <1>6 DEF Busy, IsPending, TypeOK
  <2> QED
    BY <1>0, <1>5, <1>7, <2>1 DEF TypeOK, disk, counters
<1>9. Tasks'
  <2>1. \A q \in Paths : occ'[q].kind = "none" => occ'[q] = NoOccurrence
    BY <1>3, <1>5 DEF IInv, Tasks
  <2>2. intent.occ # NoPath => IsPending(intent.occ)'
    <3>1. intent.occ \in Paths \cup {NoPath}
      BY <1>0 DEF TypeOK, Intent
    <3>2. \A q \in Paths : IsPending(q) => IsPending(q)'
      BY <1>3, <1>5 DEF IsPending
    <3>3. intent.occ # NoPath => IsPending(intent.occ)
      BY DEF IInv, Tasks
    <3>4. intent'.occ = intent.occ
      BY <1>0
    <3> QED
      BY <3>1, <3>2, <3>3, <3>4 DEF IsPending
  <2>3. \A q \in Paths : /\ hand'[q].at = "idle" => hand'[q] = Idle
                         /\ hand'[q].at # "ingest"
    BY <1>2, <1>5, <1>6 DEF Idle
  <2> QED
    BY <1>0, <1>7, <2>1, <2>2, <2>3 DEF Tasks
<1>10. WaitsForIt'
  BY <1>7 DEF WaitsForIt
<1>11. ~removed' => OnlyWrites'
  <2> SUFFICES ASSUME ~removed, OnlyWrites PROVE OnlyWrites'
    BY <1>0 DEF IInv
  <2>1. \A q \in Paths : occ'[q].kind \notin {"rename", "relocate"} /\ hand'[q].at # "move"
    BY <1>2, <1>3, <1>5 DEF OnlyWrites, Idle
  <2> QED
    BY <1>0, <1>7, <2>1 DEF OnlyWrites, disk
<1>12. Candidates'
  BY <1>0, <1>7 DEF IInv, Candidates, LockHeld
<1>13. crashes' = 0 => NoCrash'
  <2> SUFFICES ASSUME crashes = 0, NoCrash PROVE NoCrash'
    BY <1>0 DEF IInv, counters
  <2>1. Queued = {} /\ ~Writing /\ \A q \in Paths : occ[q] = NoOccurrence
    BY SettlingContext
  <2>2. FirstStart'
    BY <1>0 DEF FirstStart
  <2>3. OnePass'
    BY <1>2, <1>5 DEF OnePass, Early, Idle
  <2>4. \A q \in Paths : Knows(hand[q], q)'
    BY <1>2, <1>5, <1>7, <2>1 DEF Knows, Idle
  <2>5. \A q \in Paths : FirstEvent(hand[q], q)'
    BY <1>3, <1>5 DEF FirstEvent, Idle
  <2> QED
    BY <1>7, <2>1, <2>2, <2>3, <2>4, <2>5 DEF NoCrash, Moving
<1> QED
  BY <1>8, <1>9, <1>10, <1>11, <1>12, <1>13 DEF IInv

LEMMA SettleMissingKeeps ==
  ASSUME IInv, SettleMissing
  PROVE  IInv'
<1>1. Settling /\ page.path \in Paths
  BY DEF SettleMissing, IInv, TypeOK, Row
<1>2. CASE Noted({page.path})
  BY <1>1, <1>2, NotedKeeps
<1>3. CASE NothingToDo
  BY <1>1, <1>3, NothingToDoKeeps
<1>4. CASE Begin("delete", page.path, NoPath, "queue", NoPath)
  BY <1>1, <1>4, BeginKeeps
<1> QED
  BY <1>2, <1>3, <1>4 DEF SettleMissing

LEMMA SettleInPlaceKeeps ==
  ASSUME IInv, NEW p \in Paths, SettleInPlace(p)
  PROVE  IInv'
<1>1. Settling /\ p # NoPath
  BY VaultSyncAssumption DEF SettleInPlace
<1>2. CASE Noted({p})
  BY <1>1, <1>2, NotedKeeps
<1>3. CASE NothingToDo
  BY <1>1, <1>3, NothingToDoKeeps
<1>4. CASE Begin("modify", p, NoPath, "same", NoPath)
  BY <1>1, <1>4, BeginKeeps
<1>5. CASE Begin("modify", p, NoPath, "cancel", p)
  BY <1>1, <1>5, BeginKeeps
<1> QED
  BY <1>2, <1>3, <1>4, <1>5 DEF SettleInPlace

LEMMA SettleMovedKeeps ==
  ASSUME IInv, NEW p \in Paths, SettleMoved(p)
  PROVE  IInv'
<1> DEFINE old == page.path
<1>1. Settling /\ Found = {p} /\ old # p /\ old \in Paths /\ old # NoPath /\ mode = "scan"
  BY SettlingContext, VaultSyncAssumption DEF SettleMoved, IInv, TypeOK, Row
<1>2. CASE Noted({p})
  BY <1>1, <1>2, NotedKeeps
<1>3. CASE NothingToDo
  BY <1>1, <1>3, NothingToDoKeeps
<1>4. ASSUME ~Writing, NEW kind \in {"rename", "relocate"},
             Begin(kind, p, old, "resolve", NoPath) \/ Begin(kind, p, old, "claim", old)
      PROVE  IInv'
  <2>1. removed
    BY <1>1, <1>4 DEF IInv, OnlyWrites, Found
  <2> QED
    BY <1>1, <1>4, <2>1, BeginKeeps
<1> QED
  BY <1>2, <1>3, <1>4 DEF SettleMoved

LEMMA SettleReturnedKeeps ==
  ASSUME IInv, NEW p \in Paths, SettleReturned(p)
  PROVE  IInv'
<1>1. Settling
  BY DEF SettleReturned
<1>2. CASE Noted({p})
  BY <1>1, <1>2, NotedKeeps
<1>3. CASE NothingToDo
  BY <1>1, <1>3, NothingToDoKeeps
<1>4. ASSUME NEW step \in {"same", "idle"}, Begin("add", p, NoPath, step, NoPath)
      PROVE  IInv'
  BY <1>1, <1>4, BeginKeeps
<1> QED
  BY <1>2, <1>3, <1>4 DEF SettleReturned

LEMMA StartsKeep ==
  ASSUME IInv, Starts
  PROVE  IInv'
<1>1. CASE SettleDuplicates
  <2>1. Settling /\ Found \subseteq Paths /\ Noted(Found)
    BY <1>1 DEF SettleDuplicates, Found
  <2> QED
    BY <2>1, NotedKeeps
<1> QED
  BY <1>1, BootKeeps, RecoverIntentsKeeps, IntentsRecoveredKeeps, AllReplayedKeeps, SettleMissingKeeps,
     GoLiveKeeps, ReplayKeeps, ScanKeeps, SettleInPlaceKeeps, SettleMovedKeeps, SettleReturnedKeeps
  DEF Starts

-----------------------------------------------------------------------------
(* Every step.                                                             *)
LEMMA NextIInv ==
  ASSUME IInv, [Next]_vars
  PROVE  IInv'
<1>1. CASE Editor
  BY <1>1, EditorKeeps
<1>2. CASE PrepareEdit
  BY <1>2, PrepareEditKeeps
<1>3. CASE Executor
  BY <1>3, TakeKeeps, PutKeeps, PutBlockedKeeps DEF Executor
<1>4. CASE \E p \in Paths : Handler(p)
  BY <1>4, HandlerKeeps
<1>5. CASE Batch
  BY <1>5, BatchKeeps
<1>6. CASE Expiry
  BY <1>6, ExpiryKeeps
<1>7. CASE Passes
  <2>1. ASSUME NEW d \in Paths, DeadClaimLapses(d) PROVE IInv'
    <3>1. ClaimLapses(d) /\ lapses' \in Nat
      BY <2>1 DEF DeadClaimLapses, IInv, TypeOK
    <3> QED
      BY <3>1, ClaimLapsesKeeps
  <2> QED
    BY <1>7, <2>1, IntentLapsesKeeps, GraceEndsKeeps DEF Passes
<1>8. ASSUME NEW d \in Paths, LiveClaimLapses(d) PROVE IInv'
  <2>1. ClaimLapses(d) /\ lapses' \in Nat
    BY <1>8 DEF LiveClaimLapses, IInv, TypeOK
  <2> QED
    BY <2>1, ClaimLapsesKeeps
<1>9. CASE Crash
  BY <1>9, CrashKeeps
<1>10. CASE Starts
  BY <1>10, StartsKeep
<1>11. CASE UNCHANGED vars
  <2> USE <1>11 DEF vars, disk, rows, tasks, start, history, counters
  <2>1. TypeOK' /\ Tasks'
    BY DEF IInv, TypeOK, Tasks, Writing, Busy, IsPending
  <2>2. WaitsForIt' /\ (~removed' => OnlyWrites')
    BY DEF IInv, WaitsForIt, OnlyWrites, Executing, Writing, AtWorkOn
  <2>3. Candidates'
    BY DEF IInv, Candidates, LockHeld
  <2>4. crashes' = 0 => NoCrash'
    BY DEF IInv, NoCrash, FirstStart, OnePass, Knows, FirstEvent, Moving, Executing, Writing, Queued
  <2> QED
    BY <2>1, <2>2, <2>3, <2>4 DEF IInv
<1> QED
  BY <1>1, <1>2, <1>3, <1>4, <1>5, <1>6, <1>7, <1>8, <1>9, <1>10, <1>11 DEF Next

LEMMA SpecIInv == Spec => []IInv
<1>1. Init => IInv
  BY InitIInv
<1>2. IInv /\ [Next]_vars => IInv'
  BY NextIInv
<1> QED
  BY <1>1, <1>2, PTL DEF Spec

(* Rows, files and tasks keep their types; a task is about a pending       *)
(* occurrence, an open intent has its path and its revision.               *)
THEOREM VaultSyncTypeCorrect == Spec => []TypeOK
<1>1. IInv => TypeOK
  BY DEF IInv
<1> QED
  BY <1>1, SpecIInv, PTL

(* As long as the editor takes no file away, no step of the service,       *)
(* before or after any number of crashes, deletes, invalidates or moves    *)
(* the page: the file missing in the middle of a replacement is never      *)
(* taken for a removal.                                                    *)
THEOREM OwnWritesCorrect == Spec => []OwnWritesNeverDelete
<1>1. IInv => OwnWritesNeverDelete
  BY DEF IInv, OnlyWrites, OwnWritesNeverDelete
<1> QED
  BY <1>1, SpecIInv, PTL

(* Before the first crash whoever takes the page to another path takes the *)
(* pending delete of the old one with it.                                  *)
THEOREM DeletesAreOfThePage == Spec => []PendingDeleteIsOfThePage
<1>1. IInv => PendingDeleteIsOfThePage
  BY DEF IInv, NoCrash, Queued, PendingDeleteIsOfThePage
<1> QED
  BY <1>1, SpecIInv, PTL

(* Only the expiry loop deletes the page.                                  *)
LEMMA OthersDoNotDelete ==
  ASSUME IInv, [Next]_vars, ~ApplyDelete, page.life # "deleted"
  PROVE  page'.life # "deleted"
<1>0. page \in Row
  BY DEF IInv, TypeOK
<1>1. ASSUME GoOn PROVE page'.life # "deleted"
  BY <1>0, <1>1, ChangedTyped DEF GoOn, Resumed
<1>2. CASE Put
  BY <1>0, <1>2 DEF Put, Changed, Row
<1>3. ASSUME NEW p \in Paths, Handler(p) PROVE page'.life # "deleted"
  <2>1. CASE RenamePage(p)
    BY <1>0, <2>1, ChangedTyped DEF RenamePage
  <2>2. CASE RepeatMove(p)
    BY <1>1, <2>2 DEF RepeatMove
  <2>3. CASE IngestAgain(p)
    BY <1>1, <2>3 DEF IngestAgain, OnlyMoves, rows, Fail, FailLeaving
  <2>4. CASE Queue(p) \/ Defer(p) \/ Look(p) \/ CancelDelete(p) \/ SamePath(p) \/ Sort(p)
    BY <2>4 DEF Queue, Defer, Look, CancelDelete, SamePath, Sort, OnlyMoves, rows, Fail, FailReleasing,
       FailLeaving
  <2>5. CASE ClaimDelete(p) \/ Resolve(p) \/ ResolveStartupMove(p) \/ Relocate(p) \/ MoveFails(p)
    BY <2>5 DEF ClaimDelete, Resolve, ResolveStartupMove, Relocate, MoveFails, OnlyMoves, rows, Fail,
       FailReleasing, FailLeaving
  <2>6. CASE Ingest(p) \/ Finish(p) \/ Reject(p) \/ GiveUp(p)
    BY <2>6 DEF Ingest, Adopt, Finish, Reject, GiveUp, Fail, FailLeaving
  <2> QED
    BY <1>3, <2>1, <2>2, <2>3, <2>4, <2>5, <2>6 DEF Handler
<1>4. CASE Editor \/ PrepareEdit \/ Take \/ PutBlocked \/ Batch
  BY <1>4 DEF Editor, Write, Remove, Restore, Move, Edit, rows, PrepareEdit, Take, PutBlocked, Batch
<1>5. CASE Expiry
  BY <1>5 DEF Expiry, ClaimDue, Recheck, PersistDelete, CompleteDelete
<1>6. CASE Passes \/ (\E d \in Paths : LiveClaimLapses(d)) \/ Crash
  BY <1>6 DEF Passes, IntentLapses, GraceEnds, DeadClaimLapses, LiveClaimLapses, ClaimLapses, Crash
<1>7. CASE Starts
  <2>1. CASE RecoverIntents
    BY <1>1, <2>1 DEF RecoverIntents
  <2>2. CASE Boot \/ IntentsRecovered \/ AllReplayed \/ GoLive \/ \E p \in Paths : Scan(p)
    BY <2>2 DEF Boot, IntentsRecovered, AllReplayed, GoLive, Scan, rows
  <2>3. CASE \E p \in Paths : Replay(p)
    BY <2>3 DEF Replay, OnlyMoves, rows, Fail, FailLeaving
  <2>4. ASSUME Settling PROVE page'.life # "deleted"
    BY <2>4 DEF Settling
  <2> QED
    BY <1>7, <2>1, <2>2, <2>3, <2>4
    DEF Starts, SettleDuplicates, SettleMissing, SettleInPlace, SettleMoved, SettleReturned
<1>8. CASE UNCHANGED vars
  BY <1>8 DEF vars, rows
<1> QED
  BY <1>2, <1>3, <1>4, <1>5, <1>6, <1>7, <1>8 DEF Next, Executor

(* A page is deleted only when every file added to the vault since was     *)
(* noticed after the grace period had ended: no file noticed within it,    *)
(* which may be the other half of a move, is still to be looked at.        *)
THEOREM DeletesWait == Spec => DeleteWaitsForCandidates
<1> DEFINE Waits == page.life # "deleted" /\ page'.life = "deleted" =>
                      \A p \in Paths : occ[p].kind = "add" => page.path \in occ[p].late
<1>1. IInv /\ [Next]_vars => Waits
  <2> SUFFICES ASSUME IInv, [Next]_vars, page.life # "deleted", page'.life = "deleted"
               PROVE  \A p \in Paths : occ[p].kind = "add" => page.path \in occ[p].late
    OBVIOUS
  <2>1. ApplyDelete
    BY OthersDoNotDelete
  <2>2. expiry.at = "apply" /\ page.path = expiry.del
    BY <2>1 DEF ApplyDelete, Expiring
  <2> QED
    BY <2>2 DEF IInv, Candidates
<1> QED
  BY <1>1, SpecIInv, PTL DEF Spec, DeleteWaitsForCandidates

-----------------------------------------------------------------------------
(* A vault at rest.                                                        *)

(* What it rests on: nobody changes the page, or kills the service,        *)
(* between a deletion and its completion; nobody edits while the service   *)
(* starts; and no start finds a file away from the page's path beside a    *)
(* second one, or beside a pending delete of another path.                 *)
NoneCarriedOut == \A d \in Paths : del[d].event # "applied"
Astray ==
  /\ page.life # "deleted" /\ Found # {} /\ page.path \notin Found
  /\ Cardinality(Found) > 1 \/ Queued \ {page.path} # {}
Orderly ==
  /\ writes' # writes \/ crashes' # crashes => NoneCarriedOut
  /\ edits' # edits => mode \in {"down", "live"}
  /\ mode = "scan" /\ mode' = "settle" => ~Astray

(* The path the page is at, or is on its way to; an intent that is not     *)
(* carried out holds everything up until the next restart.                 *)
Up == mode \in {"settle", "live"}
HeldUp == Writing /\ ~Executing
Place == IF Executing THEN intent.path ELSE page.path
Off(p) ==
  IF p = Place THEN ~Executing /\ page.life = "active" /\ file[p] # page.body
  ELSE file[p] # Missing

(* Who will look at a path where file and row disagree: the watcher, a     *)
(* handler, the expiry loop, or whoever reads the reports.                 *)
Looking == {"queue", "look", "cancel", "same", "sort", "claim", "resolve", "move", "ingest", "reject"}
MoveSteps == {"claim", "resolve", "move"}
Heeded(p) ==
  \/ raw[p] # "quiet"
  \/ hand[p].at \in Looking
  \/ occ[p].kind # "none" /\ hand[p].at = "idle"
  \/ del[p] # NoDelete /\ file[p] = Missing
  \/ mode = "settle" /\ p = page.path /\ \E q \in Paths : hand[q].at \in MoveSteps
  \/ p \in reported /\ hand[p].at = "idle"
AllHeeded == Up /\ replayed = {} /\ ~HeldUp => \A p \in Paths : Off(p) => Heeded(p)

(* A delete that was carried out is of a page that is deleted, unless the  *)
(* page is elsewhere by now; no other is completed.                        *)
CarriedOut ==
  \A d \in Paths : del[d].event = "applied" =>
    /\ mode = "live"
    /\ page.path = d => page.life = "deleted"
    /\ Executing => intent.path # d
Completing ==
  /\ expiry.at = "complete" \/ (expiry.at = "persist" /\ expiry.event = "applied")
  /\ Owned(expiry.del, "expiry")
  => del[expiry.del].event = "applied"

(* What a handler has seen is still so, or the watcher has heard of it.    *)
Kinds == \A p \in Paths : occ[p].kind \in {"rename", "relocate"} <=> occ[p].old # NoPath
Hashed == \A d \in Paths : del[d] = NoDelete \/ del[d].hash # Missing
Beyond == {"same", "sort", "claim", "resolve", "move", "ingest"}
UpToDate(p) ==
  /\ hand[p].at \in Beyond => del[p] = NoDelete
  /\ hand[p].at \notin {"idle", "wait", "finish", "reject"} => occ[p].event = "none"
  /\ hand[p].at = "queue" => file[p] = Missing \/ raw[p] # "quiet"
  /\ hand[p].at = "ingest" => hand[p].seen = file[p] \/ raw[p] # "quiet"
  /\ hand[p].at = "move" =>
       From(p) \in Paths /\ (file[From(p)] = Missing \/ raw[From(p)] # "quiet")

(* While files are compared with rows one handler works at a time, on what *)
(* the inventory found, which is still so: a move found then cannot fail.  *)
StartMove(p) ==
  /\ occ[p].old = page.path
  /\ file[page.path] = Missing /\ file[p] # Missing /\ ~Writing
  /\ occ[p].kind = "rename" <=> file[p] = page.body
  /\ hand[p].at = "claim" => hand[p].del \in Paths
  /\ hand[p].at \in {"resolve", "move"} => hand[p].del = NoPath \/ Owned(hand[p].del, p)
  /\ hand[p].at = "move" => hand[p].seen = file[p]
AtStart(p) ==
  /\ Executing => hand[p].at \in {"idle", "wait"}
  /\ hand[p].at \in {"same", "cancel"} => file[p] # Missing
  /\ hand[p].at \in MoveSteps => StartMove(p)
  /\ hand[p].at \notin {"look", "sort"}
OneAtATime == \A p, q \in Paths : hand[p].at # "idle" /\ hand[q].at # "idle" => p = q
Listed == mode = "scan" => \A p \in Paths : listed[p] \in {Unseen, file[p]}

SInv ==
  /\ Kinds /\ Hashed /\ Listed /\ CarriedOut /\ Completing
  /\ mode = "settle" => OneAtATime /\ \A p \in Paths : AtStart(p)
  /\ Up => \A p \in Paths : UpToDate(p)
  /\ AllHeeded

LEMMA InitSInv ==
  ASSUME Init
  PROVE  SInv
<1>1. mode = "down" /\ expiry = NoExpiry /\ ~Up
  BY DEF Init, Up
<1>2. Kinds /\ Hashed /\ CarriedOut
  BY DEF Init, Kinds, Hashed, CarriedOut, NoOccurrence, NoDelete
<1>3. Completing
  BY <1>1 DEF Completing, NoExpiry
<1> QED
  BY <1>1, <1>2, <1>3 DEF SInv, Listed, AllHeeded

(* Steps that end in a mode where nothing is claimed of files and rows.    *)
LEMMA DownSInv ==
  ASSUME IInv', mode' \notin {"settle", "live"}, Kinds', Hashed', Listed', NoneCarriedOut'
  PROVE  SInv'
<1>1. ~Up'
  BY DEF Up
<1>2. CarriedOut'
  BY DEF CarriedOut, NoneCarriedOut
<1>3. Completing'
  BY DEF IInv, Tasks, Completing, NoExpiry
<1> QED
  BY <1>1, <1>2, <1>3 DEF SInv, AllHeeded

LEMMA NoneBeforeLive ==
  ASSUME SInv, mode # "live"
  PROVE  NoneCarriedOut
  BY DEF SInv, CarriedOut, NoneCarriedOut

-----------------------------------------------------------------------------
(* Steps of one handler.                                                   *)
SameOccurrence(q) ==
  occ'[q].kind = occ[q].kind /\ occ'[q].old = occ[q].old
DeleteKept(d) ==
  /\ del[d] # NoDelete /\ del'[d].event = del[d].event /\ del'[d].hash = del[d].hash
  /\ del'[d].owner = "expiry" => del[d].owner = "expiry"
Alone(p) ==
  /\ UNCHANGED <<file, raw, expiry, mode, listed, replayed>>
  /\ \A q \in Paths \ {p} :
       /\ hand'[q] = hand[q] /\ SameOccurrence(q) /\ occ'[q].event = occ[q].event
       /\ q \in reported' <=> q \in reported
  /\ occ'[p] = NoOccurrence \/ SameOccurrence(p)
  /\ \A d \in Paths :
       \/ del'[d] = NoDelete
       \/ /\ d = p /\ hand[p].at = "queue"
          /\ del'[d].event = "none" /\ del'[d].owner = "none" /\ del'[d].hash # Missing
       \/ DeleteKept(d)

LEMMA AloneKinds ==
  ASSUME SInv, NEW p \in Paths, Alone(p)
  PROVE  /\ Kinds' /\ Hashed' /\ Completing'
         /\ (\A d \in Paths : del'[d].event = "applied" => del[d].event = "applied")
<1>1. Kinds'
  BY DEF SInv, Kinds, Alone, SameOccurrence, NoOccurrence
<1>2. \A d \in Paths : del'[d].event = "applied" => del[d].event = "applied"
  BY DEF Alone, DeleteKept, NoDelete
<1>3. Completing'
  <2> SUFFICES ASSUME expiry.at = "complete" \/ (expiry.at = "persist" /\ expiry.event = "applied"),
                      expiry.del \in Paths, del'[expiry.del].owner = "expiry"
               PROVE  del'[expiry.del].event = "applied"
    BY DEF Completing, Owned, Alone
  <2>1. DeleteKept(expiry.del)
    BY DEF Alone, NoDelete
  <2> QED
    BY <2>1 DEF SInv, Completing, Owned, DeleteKept
<1>4. Hashed'
  BY DEF SInv, Hashed, Alone, DeleteKept
<1> QED
  BY <1>1, <1>2, <1>3, <1>4

(* Not while files are claimed to agree with the row: in a replay.         *)
LEMMA ReplaySInv ==
  ASSUME IInv, IInv', SInv, NEW p \in Paths, Alone(p), ~Up, hand[p].at # "idle"
  PROVE  SInv'
<1>1. mode = "replay" /\ mode' = "replay"
  BY Handles DEF Up, Alone
<1>2. NoneCarriedOut'
  BY <1>1, NoneBeforeLive, AloneKinds DEF NoneCarriedOut
<1> QED
  BY <1>1, <1>2, AloneKinds, DownSInv DEF Listed

LEMMA AloneSInv ==
  ASSUME IInv, IInv', SInv, NEW p \in Paths, Alone(p), hand[p].at # "idle",
         Up => CarriedOut' /\ UpToDate(p)' /\ AllHeeded',
         mode = "settle" => AtStart(p)'
  PROVE  SInv'
<1>1. CASE ~Up
  BY <1>1, ReplaySInv
<1>2. CASE Up
  <2>1. Up' /\ mode' = mode /\ Listed'
    BY <1>2 DEF Up, Alone, Listed
  <2>2. ASSUME NEW q \in Paths, q # p PROVE UpToDate(q)'
    <3>1. UpToDate(q) /\ hand'[q] = hand[q] /\ From(q)' = From(q) /\ occ'[q].event = occ[q].event
      BY <1>2, <2>2 DEF SInv, Alone, From, SameOccurrence
    <3>2. del[q] = NoDelete => del'[q] = NoDelete
      BY <2>2 DEF Alone, DeleteKept
    <3> QED
      BY <3>1, <3>2 DEF UpToDate, Alone
  <2>3. ASSUME mode = "settle" PROVE OneAtATime' /\ \A q \in Paths : AtStart(q)'
    <3>1. \A q \in Paths \ {p} : hand[q].at = "idle" /\ hand'[q].at = "idle"
      BY <2>3 DEF SInv, OneAtATime, Alone
    <3>2. OneAtATime'
      BY <3>1 DEF OneAtATime
    <3> QED
      BY <2>3, <3>1, <3>2 DEF AtStart, MoveSteps
  <2> QED
    BY <1>2, <2>1, <2>2, <2>3, AloneKinds DEF SInv
<1> QED
  BY <1>1, <1>2

(* Most steps leave the page where it is, and the intent.                  *)
Still ==
  /\ page' = page
  /\ Writing' <=> Writing
  /\ Executing' <=> Executing
  /\ intent'.path = intent.path

LEMMA StillSInv ==
  ASSUME IInv, IInv', SInv, NEW p \in Paths, Alone(p), Still, hand[p].at # "idle",
         \A q \in Paths \ {p} : del[q] # NoDelete => del'[q] # NoDelete,
         mode = "settle" /\ hand[p].at \in MoveSteps => hand'[p].at \in MoveSteps,
         mode = "settle" => AtStart(p)',
         Up => UpToDate(p)',
         Up /\ Off(p) /\ Heeded(p) => Heeded(p)'
  PROVE  SInv'
<1>1. CarriedOut'
  BY AloneKinds DEF SInv, CarriedOut, Still, Alone
<1>2. AllHeeded'
  <2> SUFFICES ASSUME Up, replayed = {}, ~HeldUp', NEW q \in Paths, Off(q)' PROVE Heeded(q)'
    BY DEF AllHeeded, Up, Alone
  <2>1. ~HeldUp
    BY DEF HeldUp, Still
  <2>2. Off(q)
    BY DEF Off, Place, Still, Alone
  <2>3. Heeded(q)
    BY <2>1, <2>2 DEF SInv, AllHeeded
  <2>4. CASE q = p
    BY <2>2, <2>3, <2>4
  <2>5. CASE q # p
    <3>1. mode = "settle" /\ (\E r \in Paths : hand[r].at \in MoveSteps)
            => \E r \in Paths : hand'[r].at \in MoveSteps
      BY DEF Alone
    <3> QED
      BY <2>3, <2>5, <3>1 DEF Heeded, Alone, SameOccurrence, Still
  <2> QED
    BY <2>4, <2>5
<1> QED
  BY <1>1, <1>2, AloneSInv

LEMMA UntiedStill ==
  ASSUME TypeOK, NEW p \in Paths, intent' = Untied(p), page' = page
  PROVE  Still
<1>1. CASE intent' = intent
  BY <1>1 DEF Still, Writing, Executing
<1>2. CASE intent.occ = p /\ intent' = [intent EXCEPT !.occ = NoPath]
  <2>1. p # NoPath
    BY VaultSyncAssumption
  <2>2. Writing /\ intent \in Intent /\ intent.path # NoPath
    BY <1>2, <2>1 DEF TypeOK, Writing, NoIntent
  <2>3. intent'.path = intent.path /\ intent'.at = intent.at /\ intent'.owner = intent.owner
    BY <1>2, <2>2 DEF Intent
  <2>4. Writing'
    BY <2>2, <2>3 DEF Writing, NoIntent
  <2> QED
    BY <2>2, <2>3, <2>4 DEF Still, Executing
<1> QED
  BY <1>1, <1>2 DEF Untied

LEMMA ReleaseKept ==
  ASSUME IInv, SInv, NEW p \in Paths, NEW d \in Paths \cup {NoPath},
         \/ del' = del
         \/ del' = ReleasedBy(d, p)
         \/ Owned(d, p) /\ del' = [del EXCEPT ![d].owner = "gone"]
  PROVE  \A q \in Paths : \/ del[q] = NoDelete /\ del'[q] = NoDelete
                          \/ DeleteKept(q) /\ del'[q] # NoDelete
<1>1. del \in [Paths -> DeleteRow]
  BY DEF IInv, TypeOK
<1>2. CASE del' = del
  BY <1>2 DEF DeleteKept
<1>3. ASSUME Owned(d, p), NEW owner \in {"none", "gone"}, NEW fresh \in BOOLEAN,
             del' = [del EXCEPT ![d] = [del[d] EXCEPT !.owner = owner, !.fresh = fresh]],
             NEW q \in Paths
      PROVE  \/ del[q] = NoDelete /\ del'[q] = NoDelete
             \/ DeleteKept(q) /\ del'[q] # NoDelete
  <2>1. CASE q # d
    BY <1>1, <1>3, <2>1 DEF DeleteKept
  <2>2. CASE q = d
    <3>1. del'[d] = [del[d] EXCEPT !.owner = owner, !.fresh = fresh] /\ del[d] \in DeleteRow
      BY <1>1, <1>3, <2>2
    <3>2. del'[d].event = del[d].event /\ del'[d].hash = del[d].hash /\ del'[d].owner = owner
      BY <3>1 DEF DeleteRow
    <3>3. del[d].owner # "none"
      BY <1>3, VaultSyncAssumption DEF Owned
    <3>4. NoDelete.owner = "none" /\ NoDelete.hash = Missing
      BY DEF NoDelete
    <3>5. del[d] # NoDelete /\ del[d].hash # Missing /\ d \in Paths
      BY <1>3, <3>3, <3>4 DEF SInv, Hashed, Owned
    <3>6. DeleteKept(d) /\ del'[d] # NoDelete
      BY <1>3, <3>2, <3>4, <3>5 DEF DeleteKept
    <3> QED
      BY <2>2, <3>6
  <2> QED
    BY <2>1, <2>2
<1>4. CASE del' = ReleasedBy(d, p) /\ Owned(d, p)
  BY <1>1, <1>3, <1>4 DEF ReleasedBy
<1>5. CASE Owned(d, p) /\ del' = [del EXCEPT ![d].owner = "gone"]
  <2>1. del[d].fresh \in BOOLEAN
        /\ [del[d] EXCEPT !.owner = "gone", !.fresh = del[d].fresh] = [del[d] EXCEPT !.owner = "gone"]
    BY <1>1, <1>5 DEF Owned, DeleteRow
  <2> QED
    BY <1>3, <1>5, <2>1
<1> QED
  BY <1>2, <1>4, <1>5 DEF ReleasedBy

(* A handler comes to an end.                                              *)
LEMMA EndSInv ==
  ASSUME IInv, IInv', SInv, NEW p \in Paths, hand[p].at # "idle", NEW bad \in BOOLEAN, End(p, bad),
         UNCHANGED <<disk, page, expiry, start>>,
         \/ del' = del
         \/ del' = ReleasedBy(hand[p].del, p)
         \/ Owned(hand[p].del, p) /\ del' = [del EXCEPT ![hand[p].del].owner = "gone"],
         mode = "settle" => hand[p].at \notin MoveSteps,
         Up /\ Off(p) /\ Heeded(p) =>
           bad \/ raw[p] # "quiet" \/ (del[p] # NoDelete /\ file[p] = Missing)
  PROVE  SInv'
<1>1. hand[p].del \in Paths \cup {NoPath} /\ TypeOK
  BY DEF IInv, TypeOK, Hand
<1>2. \A q \in Paths : \/ del[q] = NoDelete /\ del'[q] = NoDelete
                       \/ DeleteKept(q) /\ del'[q] # NoDelete
  BY <1>1, ReleaseKept
<1>3. occ'[p] = NoOccurrence /\ hand'[p] = Idle /\ (bad => p \in reported')
  BY <1>1 DEF End, TypeOK
<1>4. \A q \in Paths \ {p} : occ'[q] = occ[q] /\ hand'[q] = hand[q] /\ (q \in reported' <=> q \in reported)
  BY <1>1 DEF End, TypeOK
<1>5. Alone(p)
  BY <1>2, <1>3, <1>4 DEF Alone, disk, start, SameOccurrence
<1>6. Still
  BY <1>1, UntiedStill DEF End
<1>7. UpToDate(p)' /\ (mode = "settle" => AtStart(p)')
  BY <1>3 DEF UpToDate, AtStart, Idle, Beyond, MoveSteps
<1>8. Up /\ Off(p) /\ Heeded(p) => Heeded(p)'
  BY <1>2, <1>3 DEF Heeded, disk, Idle
<1> QED
  BY <1>2, <1>5, <1>6, <1>7, <1>8, StillSInv

LEMMA FailSInv ==
  ASSUME IInv, IInv', SInv, NEW p \in Paths, hand[p].at # "idle", NEW table, FailLeaving(p, table),
         \/ table = del
         \/ table = ReleasedBy(hand[p].del, p)
         \/ Owned(hand[p].del, p) /\ table = [del EXCEPT ![hand[p].del].owner = "gone"],
         UNCHANGED <<disk, expiry, start>>,
         mode = "settle" => hand[p].at \notin MoveSteps
  PROVE  SInv'
  BY EndSInv DEF FailLeaving

(* A handler moves on: it has looked at the file as it is.                 *)
LEMMA MoveSInv ==
  ASSUME IInv, IInv', SInv, NEW p \in Paths, hand[p].at # "idle", OnlyMoves,
         NEW h \in Hand, hand' = [hand EXCEPT ![p] = h], h.at \in Looking,
         UNCHANGED <<disk, expiry, start>>,
         mode = "settle" /\ hand[p].at \in MoveSteps => h.at \in MoveSteps,
         mode = "settle" => AtStart(p)',
         Up => UpToDate(p)'
  PROVE  SInv'
<1>1. hand'[p] = h /\ \A q \in Paths \ {p} : hand'[q] = hand[q]
  BY DEF IInv, TypeOK
<1>2. UNCHANGED <<page, intent, occ, del, reported>>
  BY DEF OnlyMoves, rows
<1>3. Alone(p)
  BY <1>1, <1>2 DEF Alone, disk, start, SameOccurrence, DeleteKept
<1>4. Still
  BY <1>2 DEF Still, Writing, Executing
<1>5. Heeded(p)'
  BY <1>1 DEF Heeded
<1> QED
  BY <1>1, <1>2, <1>3, <1>4, <1>5, StillSInv

LEMMA QueueSInv ==
  ASSUME IInv, IInv', SInv, NEW p \in Paths, Queue(p)
  PROVE  SInv'
<1>0. TypeOK /\ hand[p].at = "queue" /\ UNCHANGED <<disk, expiry, start, page>>
  BY DEF IInv, Queue, Handling
<1>1. CASE page.path # p /\ End(p, FALSE) /\ UNCHANGED del
  <2>1. Up /\ Off(p) => raw[p] # "quiet"
    BY <1>0, <1>1 DEF SInv, UpToDate, Off, Place
  <2> QED
    BY <1>0, <1>1, <2>1, EndSInv DEF MoveSteps
<1>2. CASE Goto(p, "defer") /\ UNCHANGED <<intent, reported>> /\ del[p] # NoDelete /\ UNCHANGED <<occ, del>>
  <2>1. PICK h \in Hand : hand' = [hand EXCEPT ![p] = h] /\ h.at = "defer"
    BY <1>0, <1>2, AtStep, VaultSyncAssumption
  <2>2. hand'[p] = h /\ \A q \in Paths \ {p} : hand'[q] = hand[q]
    BY <1>0, <2>1 DEF TypeOK
  <2>3. Alone(p) /\ Still
    BY <1>0, <1>2, <2>2 DEF Alone, Still, disk, start, SameOccurrence, DeleteKept, Writing, Executing
  <2>4. Up => UpToDate(p)'
    BY <1>0, <1>2, <2>1, <2>2 DEF SInv, UpToDate, Beyond
  <2>5. mode = "settle" => AtStart(p)'
    BY <1>0, <1>2, <2>1, <2>2 DEF SInv, AtStart, MoveSteps, Executing, Writing
  <2>6. Up => Heeded(p)'
    BY <1>0, <1>2 DEF SInv, UpToDate, Heeded, disk
  <2> QED
    BY <1>0, <1>2, <2>3, <2>4, <2>5, <2>6, StillSInv DEF MoveSteps
<1>3. CASE /\ Goto(p, "defer") /\ UNCHANGED <<intent, reported>>
           /\ del' = [del EXCEPT ![p] = [NoDelete EXCEPT !.hash = page.body]]
           /\ occ' = [q \in Paths |-> [occ[q] EXCEPT !.late = @ \ {p}]]
  <2>1. PICK h \in Hand : hand' = [hand EXCEPT ![p] = h] /\ h.at = "defer"
    BY <1>0, <1>3, AtStep, VaultSyncAssumption
  <2>2. hand'[p] = h /\ \A q \in Paths \ {p} : hand'[q] = hand[q]
    BY <1>0, <2>1 DEF TypeOK
  <2>3. /\ del'[p] = [NoDelete EXCEPT !.hash = page.body]
        /\ \A d \in Paths \ {p} : del'[d] = del[d]
    BY <1>0, <1>3 DEF TypeOK
  <2>4. del'[p].event = "none" /\ del'[p].owner = "none" /\ del'[p].hash # Missing /\ del'[p] # NoDelete
    <3>1. page.body # Missing
      BY <1>0 DEF TypeOK, Missing
    <3> QED
      BY <2>3, <3>1 DEF NoDelete
  <2>5. \A q \in Paths : SameOccurrence(q) /\ occ'[q].event = occ[q].event
    BY <1>0, <1>3 DEF TypeOK, OccurrenceRow, SameOccurrence
  <2>6. Alone(p)
    <3>1. \A d \in Paths \ {p} : del'[d] = NoDelete \/ DeleteKept(d)
      BY <2>3 DEF DeleteKept
    <3> QED
      BY <1>0, <1>3, <2>2, <2>4, <2>5, <3>1 DEF Alone, disk, start
  <2>7. Still
    BY <1>0, <1>3 DEF Still, Writing, Executing
  <2>8. Up => UpToDate(p)'
    BY <1>0, <2>1, <2>2, <2>5 DEF SInv, UpToDate, Beyond
  <2>9. mode = "settle" => AtStart(p)'
    BY <1>0, <1>3, <2>1, <2>2 DEF SInv, AtStart, MoveSteps, Executing, Writing
  <2>10. Up => Heeded(p)'
    BY <1>0, <2>4 DEF SInv, UpToDate, Heeded, disk
  <2> QED
    BY <1>0, <2>3, <2>6, <2>7, <2>8, <2>9, <2>10, StillSInv DEF MoveSteps
<1> QED
  BY <1>1, <1>2, <1>3 DEF Queue

LEMMA DeferSInv ==
  ASSUME IInv, IInv', SInv, NEW p \in Paths, Defer(p)
  PROVE  SInv'
<1>0. hand[p].at = "defer" /\ UNCHANGED <<disk, expiry, start, page, del>> /\ End(p, FALSE)
  BY DEF Defer, Handling
<1>1. Heeded(p) => raw[p] # "quiet" \/ (del[p] # NoDelete /\ file[p] = Missing) \/ mode = "settle"
  BY <1>0 DEF Heeded, Looking
<1>2. mode = "settle" => ~\E q \in Paths : hand[q].at \in MoveSteps
  BY <1>0 DEF SInv, OneAtATime, MoveSteps
<1>3. Heeded(p) => raw[p] # "quiet" \/ (del[p] # NoDelete /\ file[p] = Missing)
  BY <1>0, <1>2 DEF Heeded, Looking
<1> QED
  BY <1>0, <1>3, EndSInv DEF MoveSteps

LEMMA LookSInv ==
  ASSUME IInv, IInv', SInv, NEW p \in Paths, Look(p)
  PROVE  SInv'
<1>0. TypeOK /\ hand[p].at = "look" /\ UNCHANGED <<disk, expiry, start>>
  BY DEF IInv, Look, Handling
<1>1. CASE Fail(p)
  BY <1>0, <1>1, FailSInv DEF Fail, MoveSteps
<1>2. ASSUME OnlyMoves, file[p] # Missing,
             \/ GotoWith(p, "cancel", p)
             \/ Goto(p, "sort") /\ del[p] = NoDelete
      PROVE  SInv'
  <2>1. PICK h \in Hand : hand' = [hand EXCEPT ![p] = h] /\ h.at \in {"cancel", "sort"}
                          /\ (h.at = "sort" => del[p] = NoDelete)
    BY <1>0, <1>2, AtStep, VaultSyncAssumption
  <2>2. hand'[p] = h /\ UNCHANGED <<occ, del, intent>>
    BY <1>0, <1>2, <2>1 DEF TypeOK, OnlyMoves, rows
  <2>3. Up => UpToDate(p)'
    BY <1>0, <1>2, <2>1, <2>2 DEF SInv, UpToDate, Beyond
  <2>4. mode # "settle"
    BY <1>0 DEF SInv, AtStart
  <2> QED
    BY <1>0, <1>2, <2>1, <2>3, <2>4, MoveSInv DEF Looking
<1> QED
  BY <1>1, <1>2 DEF Look

LEMMA CancelDeleteSInv ==
  ASSUME IInv, IInv', SInv, NEW p \in Paths, CancelDelete(p)
  PROVE  SInv'
<1>0. TypeOK /\ hand[p].at = "cancel" /\ UNCHANGED <<disk, expiry, start, page, intent, occ, reported>>
  BY DEF IInv, CancelDelete, Handling
<1>1. PICK h \in Hand : hand' = [hand EXCEPT ![p] = h] /\ h.at = "same"
  BY <1>0, AtStep, VaultSyncAssumption DEF CancelDelete
<1>2. hand'[p] = h /\ \A q \in Paths \ {p} : hand'[q] = hand[q]
  BY <1>0, <1>1 DEF TypeOK
<1>3. del'[p] = NoDelete /\ \A d \in Paths \ {p} : del'[d] = del[d]
  BY <1>0 DEF CancelDelete, TypeOK
<1>4. Alone(p)
  <2>1. \A d \in Paths : del'[d] = NoDelete \/ DeleteKept(d)
    BY <1>3 DEF DeleteKept
  <2> QED
    BY <1>0, <1>2, <2>1 DEF Alone, disk, start, SameOccurrence
<1>5. Still
  BY <1>0 DEF Still, Writing, Executing
<1>6. Up => UpToDate(p)'
  BY <1>0, <1>1, <1>2, <1>3 DEF SInv, UpToDate, Beyond
<1>7. mode = "settle" => AtStart(p)'
  BY <1>0, <1>1, <1>2 DEF SInv, AtStart, MoveSteps, Executing, Writing, disk
<1>8. Heeded(p)'
  BY <1>1, <1>2 DEF Heeded, Looking
<1> QED
  BY <1>0, <1>3, <1>4, <1>5, <1>6, <1>7, <1>8, StillSInv DEF MoveSteps

LEMMA SamePathSInv ==
  ASSUME IInv, IInv', SInv, NEW p \in Paths, SamePath(p)
  PROVE  SInv'
<1>0. TypeOK /\ hand[p].at = "same" /\ UNCHANGED <<disk, expiry, start>>
  BY DEF IInv, SamePath, Handling
<1>1. ~(file[p] = Missing /\ mode = "settle")
  BY <1>0 DEF SInv, AtStart
<1>2. CASE Fail(p)
  BY <1>0, <1>2, FailSInv DEF Fail, MoveSteps
<1>3. CASE ~Writing /\ See(p, "ingest") /\ OnlyMoves
  <2>1. PICK h \in Hand : hand' = [hand EXCEPT ![p] = h] /\ h.at = "ingest" /\ h.seen = file[p]
    BY <1>0, <1>3, AtStep, VaultSyncAssumption
  <2>2. hand'[p] = h /\ UNCHANGED <<occ, del, intent>>
    BY <1>0, <1>3, <2>1 DEF TypeOK, OnlyMoves, rows
  <2>3. Up => UpToDate(p)'
    BY <1>0, <2>1, <2>2 DEF SInv, UpToDate, Beyond, disk
  <2>4. mode = "settle" => AtStart(p)'
    BY <1>0, <1>3, <2>1, <2>2 DEF AtStart, MoveSteps, Executing, Writing
  <2> QED
    BY <1>0, <1>3, <2>1, <2>3, <2>4, MoveSInv DEF Looking, MoveSteps
<1> QED
  BY <1>1, <1>2, <1>3 DEF SamePath

LEMMA SortSInv ==
  ASSUME IInv, IInv', SInv, NEW p \in Paths, Sort(p)
  PROVE  SInv'
<1>0. TypeOK /\ hand[p].at = "sort" /\ UNCHANGED <<disk, expiry, start>>
  BY DEF IInv, Sort, Handling
<1>1. mode # "settle"
  BY <1>0 DEF SInv, AtStart
<1>2. CASE Fail(p)
  BY <1>0, <1>2, FailSInv DEF Fail, MoveSteps
<1>3. ASSUME OnlyMoves,
             See(p, "ingest") \/ \E d \in Paths : GotoWith(p, "claim", d)
      PROVE  SInv'
  <2>1. PICK h \in Hand : hand' = [hand EXCEPT ![p] = h] /\ h.at \in {"ingest", "claim"}
                          /\ (h.at = "ingest" => h.seen = file[p])
    BY <1>0, <1>3, AtStep, VaultSyncAssumption
  <2>2. hand'[p] = h /\ UNCHANGED <<occ, del, intent>>
    BY <1>0, <1>3, <2>1 DEF TypeOK, OnlyMoves, rows
  <2>3. Up => UpToDate(p)'
    BY <1>0, <2>1, <2>2 DEF SInv, UpToDate, Beyond, disk
  <2> QED
    BY <1>0, <1>1, <1>3, <2>1, <2>3, MoveSInv DEF Looking
<1> QED
  BY <1>2, <1>3 DEF Sort, Queued

LEMMA ClaimDeleteSInv ==
  ASSUME IInv, IInv', SInv, NEW p \in Paths, ClaimDelete(p)
  PROVE  SInv'
<1> DEFINE d == hand[p].del
<1>0. TypeOK /\ hand[p].at = "claim" /\ UNCHANGED <<disk, expiry, start, page, intent, occ, reported>>
      /\ hand[p].del \in Paths \cup {NoPath}
  BY DEF IInv, TypeOK, Hand, ClaimDelete, Handling
<1>1. CASE del[d] = NoDelete /\ GotoWith(p, "resolve", NoPath) /\ UNCHANGED del
  <2>1. PICK h \in Hand : hand' = [hand EXCEPT ![p] = h] /\ h.at = "resolve" /\ h.del = NoPath
    BY <1>0, <1>1, AtStep, VaultSyncAssumption
  <2>2. hand'[p] = h /\ OnlyMoves
    BY <1>0, <1>1, <2>1 DEF TypeOK, OnlyMoves, rows, ClaimDelete
  <2>3. Up => UpToDate(p)'
    BY <1>0, <1>1, <2>1, <2>2 DEF SInv, UpToDate, Beyond
  <2>4. mode = "settle" => AtStart(p)'
    BY <1>0, <1>1, <2>1, <2>2 DEF SInv, AtStart, StartMove, MoveSteps, Executing, Writing, disk
  <2> QED
    BY <1>0, <2>1, <2>2, <2>3, <2>4, MoveSInv DEF Looking, MoveSteps
<1>2. CASE /\ del[d] # NoDelete /\ Goto(p, "resolve") /\ Claimable(d)
           /\ del' = [del EXCEPT ![d].owner = p, ![d].fresh = TRUE]
  <2>1. PICK h \in Hand : hand' = [hand EXCEPT ![p] = h] /\ h.at = "resolve" /\ h.del = d
    BY <1>0, <1>2, AtStep, VaultSyncAssumption
  <2>2. hand'[p] = h /\ \A q \in Paths \ {p} : hand'[q] = hand[q]
    BY <1>0, <2>1 DEF TypeOK
  <2>3. \A q \in Paths \ {d} : del'[q] = del[q]
    BY <1>0, <1>2 DEF TypeOK
  <2>4. ASSUME d \in Paths
        PROVE  DeleteKept(d) /\ del'[d].owner = p /\ del'[d] # NoDelete
    <3>1. del'[d] = [del[d] EXCEPT !.owner = p, !.fresh = TRUE] /\ del[d] \in DeleteRow
      BY <1>0, <1>2, <2>4 DEF TypeOK
    <3>2. del'[d].owner = p /\ del'[d].hash = del[d].hash /\ del'[d].event = del[d].event
      BY <3>1 DEF DeleteRow
    <3>3. p # "expiry" /\ NoDelete.owner # p
      BY VaultSyncAssumption DEF NoDelete
    <3> QED
      BY <1>2, <3>2, <3>3 DEF DeleteKept
  <2>5. Alone(p)
    <3>1. \A q \in Paths : del'[q] = NoDelete \/ DeleteKept(q)
      BY <2>3, <2>4 DEF DeleteKept
    <3> QED
      BY <1>0, <2>2, <3>1 DEF Alone, disk, start, SameOccurrence
  <2>6. Still
    BY <1>0 DEF Still, Writing, Executing
  <2>7. d # p \/ ~Up
    BY <1>0, <1>2 DEF SInv, UpToDate, Beyond
  <2>8. Up => UpToDate(p)'
    BY <1>0, <2>1, <2>2, <2>3, <2>7 DEF SInv, UpToDate, Beyond
  <2>9. mode = "settle" => AtStart(p)'
    <3>1. mode = "settle" => StartMove(p) /\ d \in Paths /\ ~Writing /\ ~Writing'
      BY <1>0 DEF SInv, AtStart, StartMove, MoveSteps, Writing
    <3>2. mode = "settle" => StartMove(p)'
      BY <1>0, <2>1, <2>2, <2>4, <3>1 DEF StartMove, Owned, disk
    <3> QED
      BY <2>1, <2>2, <3>1, <3>2 DEF AtStart, Executing
  <2>10. Heeded(p)'
    BY <2>1, <2>2 DEF Heeded, Looking
  <2>11. \A q \in Paths \ {p} : del[q] # NoDelete => del'[q] # NoDelete
    BY <2>3, <2>4
  <2> QED
    BY <1>0, <2>1, <2>2, <2>5, <2>6, <2>8, <2>9, <2>10, <2>11, StillSInv DEF MoveSteps
<1> QED
  BY <1>1, <1>2 DEF ClaimDelete

(* A file has been looked at under the lock, or the handler gives up.      *)
LEMMA ResolveSInv ==
  ASSUME IInv, IInv', SInv, NEW p \in Paths, Resolve(p)
  PROVE  SInv'
<1>0. TypeOK /\ hand[p].at = "resolve" /\ UNCHANGED <<disk, expiry, start>>
      /\ hand[p].del \in Paths \cup {NoPath}
  BY DEF IInv, TypeOK, Hand, Resolve, Handling
<1>1. mode # "settle"
  <2>1. occ[p].old = NoPath
    BY VaultSyncAssumption DEF SInv, Kinds, Resolve
  <2>2. page.path # NoPath
    BY <1>0, VaultSyncAssumption DEF TypeOK, Row
  <2> QED
    BY <1>0, <2>1, <2>2 DEF SInv, AtStart, StartMove, MoveSteps
<1>2. CASE FailLeaving(p, IF Owned(hand[p].del, p) THEN [del EXCEPT ![hand[p].del].owner = "gone"] ELSE del)
  BY <1>0, <1>1, <1>2, FailSInv
<1>3. CASE FailReleasing(p)
  BY <1>0, <1>1, <1>3, FailSInv DEF FailReleasing
<1>4. CASE See(p, "ingest") /\ OnlyMoves
  <2>1. PICK h \in Hand : hand' = [hand EXCEPT ![p] = h] /\ h.at = "ingest" /\ h.seen = file[p]
    BY <1>0, <1>4, AtStep, VaultSyncAssumption
  <2>2. hand'[p] = h /\ UNCHANGED <<occ, del, intent>>
    BY <1>0, <1>4, <2>1 DEF TypeOK, OnlyMoves, rows
  <2>3. Up => UpToDate(p)'
    BY <1>0, <2>1, <2>2 DEF SInv, UpToDate, Beyond, disk
  <2> QED
    BY <1>0, <1>1, <1>4, <2>1, <2>3, MoveSInv DEF Looking
<1>5. CASE See(p, "move") /\ OnlyMoves /\ hand[p].del # NoPath /\ MoveEvidence(hand[p].del, p)
  <2>1. PICK h \in Hand : hand' = [hand EXCEPT ![p] = h] /\ h.at = "move" /\ h.seen = file[p] /\ h.del = hand[p].del
    BY <1>0, <1>5, AtStep, VaultSyncAssumption
  <2>2. hand'[p] = h /\ UNCHANGED <<occ, del, intent>>
    BY <1>0, <1>5, <2>1 DEF TypeOK, OnlyMoves, rows
  <2>3. From(p)' = hand[p].del /\ From(p)' \in Paths
    BY <1>0, <1>5, <2>1, <2>2 DEF SInv, Kinds, Resolve, From
  <2>4. Up => UpToDate(p)'
    BY <1>0, <1>5, <2>1, <2>2, <2>3 DEF SInv, UpToDate, Beyond, disk, MoveEvidence
  <2> QED
    BY <1>0, <1>1, <1>5, <2>1, <2>4, MoveSInv DEF Looking
<1> QED
  BY <1>2, <1>3, <1>4, <1>5 DEF Resolve

LEMMA ResolveStartupMoveSInv ==
  ASSUME IInv, IInv', SInv, NEW p \in Paths, ResolveStartupMove(p)
  PROVE  SInv'
<1>0. TypeOK /\ hand[p].at = "resolve" /\ UNCHANGED <<disk, expiry, start>>
      /\ hand[p].del \in Paths \cup {NoPath} /\ occ[p].old # NoPath
  BY DEF IInv, TypeOK, Hand, ResolveStartupMove, Handling, SInv, Kinds
<1>1. mode = "settle" => StartMove(p)
  BY <1>0 DEF SInv, AtStart, MoveSteps
<1>2. CASE FailReleasing(p) /\ mode # "settle"
  BY <1>0, <1>2, FailSInv DEF FailReleasing
<1>3. CASE See(p, "move") /\ OnlyMoves /\ (mode = "replay" \/ MoveEvidence(occ[p].old, p))
  <2>1. PICK h \in Hand : hand' = [hand EXCEPT ![p] = h] /\ h.at = "move" /\ h.seen = file[p] /\ h.del = hand[p].del
    BY <1>0, <1>3, AtStep, VaultSyncAssumption
  <2>2. hand'[p] = h /\ UNCHANGED <<page, occ, del, intent>>
    BY <1>0, <1>3, <2>1 DEF TypeOK, OnlyMoves, rows
  <2>3. From(p)' = occ[p].old /\ From(p)' \in Paths
    BY <1>0, <2>2 DEF From, TypeOK, OccurrenceRow
  <2>4. Up => UpToDate(p)'
    BY <1>0, <1>3, <2>1, <2>2, <2>3 DEF SInv, UpToDate, Beyond, disk, MoveEvidence, Up
  <2>5. mode = "settle" => AtStart(p)'
    <3>1. mode = "settle" => StartMove(p)'
      BY <1>0, <1>1, <2>1, <2>2 DEF StartMove, Owned, disk, Writing
    <3> QED
      BY <1>1, <2>1, <2>2, <3>1 DEF AtStart, StartMove, Executing, Writing
  <2> QED
    BY <1>0, <1>3, <2>1, <2>4, <2>5, MoveSInv DEF Looking, MoveSteps
<1>4. mode = "settle" =>
        file[p] # Missing /\ MoveEvidence(occ[p].old, p) /\ (file[p] = page.body <=> occ[p].kind = "rename")
  BY <1>1 DEF StartMove, MoveEvidence
<1> QED
  BY <1>2, <1>3, <1>4 DEF ResolveStartupMove

LEMMA EventSame ==
  ASSUME TypeOK, NEW p \in Paths, NEW event, NEW change, Event(p, event, change)
  PROVE  /\ SameOccurrence(p) /\ occ'[p].event = event
         /\ \A q \in Paths \ {p} : occ'[q] = occ[q]
<1>1. /\ occ' = [occ EXCEPT ![p] = [occ[p] EXCEPT !.event = event, !.change = change, !.seen = hand[p].seen]]
      /\ occ[p] \in OccurrenceRow
  BY DEF TypeOK, Event
<1>2. /\ occ'[p] = [occ[p] EXCEPT !.event = event, !.change = change, !.seen = hand[p].seen]
      /\ \A q \in Paths \ {p} : occ'[q] = occ[q]
  BY <1>1 DEF TypeOK
<1>3. \A o \in OccurrenceRow : LET new == [o EXCEPT !.event = event, !.change = change, !.seen = hand[p].seen]
                                IN  new.kind = o.kind /\ new.old = o.old /\ new.event = event
  BY DEF OccurrenceRow
<1> QED
  BY <1>1, <1>2, <1>3 DEF SameOccurrence

LEMMA DeleteGoes ==
  ASSUME TypeOK, NEW p \in Paths, del' = WithoutDelete(p) \/ del' = del
  PROVE  /\ \A d \in Paths : del'[d] = NoDelete \/ (del'[d] = del[d] /\ DeleteKept(d))
         /\ \A d \in Paths : d # hand[p].del => del'[d] = del[d]
<1>1. \A d \in Paths : del'[d] \in {del[d], NoDelete} /\ (d # hand[p].del => del'[d] = del[d])
  <2>1. del' = del \/ del' = [del EXCEPT ![hand[p].del] = NoDelete]
    BY DEF WithoutDelete
  <2> QED
    BY <2>1 DEF TypeOK
<1> QED
  BY <1>1 DEF DeleteKept

(* The handler has opened an intent for its path, and waits for it.        *)
LEMMA OpensSInv ==
  ASSUME IInv, IInv', SInv, NEW p \in Paths, hand[p].at \in {"move", "ingest"}, ~Writing,
         NEW bytes, intent' = NewIntent(p, bytes, p), Event(p, "prepared", "relocate") \/ Event(p, "prepared", "ingest"),
         Goto(p, "wait"), UNCHANGED <<disk, expiry, start, page, reported>>,
         del' = WithoutDelete(p) \/ del' = del,
         Up => file[page.path] = Missing \/ raw[page.path] # "quiet" \/ page.path = p
  PROVE  SInv'
<1>0. TypeOK /\ page.path \in Paths
  BY DEF IInv, TypeOK, Row
<1>1. PICK h \in Hand : hand' = [hand EXCEPT ![p] = h] /\ h.at = "wait"
  BY <1>0, AtStep, VaultSyncAssumption
<1>2. hand'[p] = h /\ \A q \in Paths \ {p} : hand'[q] = hand[q]
  BY <1>0, <1>1 DEF TypeOK
<1>3. SameOccurrence(p) /\ \A q \in Paths \ {p} : occ'[q] = occ[q]
  BY <1>0, EventSame
<1>4. \A d \in Paths : del'[d] = NoDelete \/ (del'[d] = del[d] /\ DeleteKept(d))
  BY <1>0, DeleteGoes
<1>5. Alone(p)
  BY <1>2, <1>3, <1>4 DEF Alone, disk, start, SameOccurrence
<1>6. Executing' /\ intent'.path = p /\ ~Executing
  BY VaultSyncAssumption DEF Executing, Writing, NewIntent, NoIntent
<1>7. Up => del[p] = NoDelete
  BY DEF SInv, UpToDate, Beyond
<1>8. Up => CarriedOut'
  BY <1>4, <1>6, <1>7 DEF SInv, CarriedOut, NoDelete, start
<1>9. UpToDate(p)' /\ AtStart(p)'
  BY <1>1, <1>2 DEF UpToDate, Beyond, AtStart, MoveSteps
<1>10. Up => AllHeeded'
  <2> SUFFICES ASSUME Up, replayed = {}, NEW q \in Paths, Off(q)' PROVE Heeded(q)'
    BY DEF AllHeeded, start
  <2>1. q # p /\ file[q] # Missing
    BY <1>6 DEF Off, Place, disk
  <2>2. CASE q = page.path
    BY <2>1, <2>2 DEF Heeded, disk
  <2>3. CASE q # page.path
    <3>1. Heeded(q)
      BY <1>6, <2>1, <2>3 DEF SInv, AllHeeded, HeldUp, Off, Place
    <3> QED
      BY <1>2, <1>3, <2>1, <2>3, <3>1 DEF Heeded, disk
  <2> QED
    BY <2>2, <2>3
<1> QED
  BY <1>5, <1>8, <1>9, <1>10, AloneSInv

LEMMA RelocateSInv ==
  ASSUME IInv, IInv', SInv, NEW p \in Paths, Relocate(p)
  PROVE  SInv'
<1>1. hand[p].at = "move" /\ ~Writing /\ page.path = From(p) /\ UNCHANGED <<disk, expiry, start, page, reported>>
  BY DEF Relocate, Handling, MayRelocate
<1>2. Up => file[page.path] = Missing \/ raw[page.path] # "quiet"
  BY <1>1 DEF SInv, UpToDate
<1> QED
  BY <1>1, <1>2, OpensSInv DEF Relocate

LEMMA RenamePageSInv ==
  ASSUME IInv, IInv', SInv, NEW p \in Paths, RenamePage(p)
  PROVE  SInv'
<1>0. /\ TypeOK /\ hand[p].at = "move" /\ UNCHANGED <<disk, expiry, start, intent, reported>>
      /\ ~Writing /\ ~Executing /\ page.path = From(p) /\ file[From(p)] = Missing /\ file[p] = page.body
  BY DEF IInv, RenamePage, Handling, MayRename, Executing
<1>1. PICK h \in Hand : hand' = [hand EXCEPT ![p] = h] /\ h.at = "finish"
  BY <1>0, AtStep, VaultSyncAssumption DEF RenamePage
<1>2. hand'[p] = h /\ \A q \in Paths \ {p} : hand'[q] = hand[q]
  BY <1>0, <1>1 DEF TypeOK
<1>3. SameOccurrence(p) /\ \A q \in Paths \ {p} : occ'[q] = occ[q]
  BY <1>0, EventSame DEF RenamePage
<1>4. \A d \in Paths : del'[d] = NoDelete \/ (del'[d] = del[d] /\ DeleteKept(d))
  BY <1>0, DeleteGoes DEF RenamePage
<1>5. Alone(p)
  BY <1>0, <1>2, <1>3, <1>4 DEF Alone, disk, start, SameOccurrence
<1>6. page'.path = p /\ page'.body = page.body /\ ~Executing' /\ ~Writing'
  <2>1. page \in Row
    BY <1>0 DEF TypeOK
  <2> QED
    BY <1>0, <2>1, ChangedTyped DEF RenamePage, Executing, Writing
<1>7. Up => del[p] = NoDelete
  BY <1>0 DEF SInv, UpToDate, Beyond
<1>8. Up => CarriedOut'
  BY <1>0, <1>4, <1>6, <1>7 DEF SInv, CarriedOut, NoDelete, start
<1>9. UpToDate(p)' /\ AtStart(p)'
  BY <1>1, <1>2, <1>6 DEF UpToDate, Beyond, AtStart, MoveSteps
<1>10. Up => AllHeeded'
  <2> SUFFICES ASSUME Up, replayed = {}, NEW q \in Paths, Off(q)' PROVE Heeded(q)'
    BY <1>0 DEF AllHeeded, start
  <2>1. q # p /\ file[q] # Missing /\ q # page.path
    BY <1>0, <1>6 DEF Off, Place, disk
  <2>2. Heeded(q)
    BY <1>0, <2>1 DEF SInv, AllHeeded, HeldUp, Off, Place
  <2> QED
    BY <1>0, <1>2, <1>3, <2>1, <2>2 DEF Heeded, disk
<1> QED
  BY <1>0, <1>5, <1>8, <1>9, <1>10, AloneSInv

(* At start-up the files are as they were found.                           *)
LEMMA MoveFailsSInv ==
  ASSUME IInv, IInv', SInv, NEW p \in Paths, MoveFails(p)
  PROVE  SInv'
<1>0. TypeOK /\ hand[p].at = "move" /\ UNCHANGED <<disk, expiry, start>> /\ FailReleasing(p)
      /\ page.path # NoPath
  BY VaultSyncAssumption DEF IInv, TypeOK, Row, MoveFails, Handling
<1>1. mode # "settle"
  <2> SUFFICES ASSUME mode = "settle" PROVE MayRename(p) \/ MayRelocate(p)
    BY DEF MoveFails
  <2>1. StartMove(p) /\ occ[p].event = "none"
    BY <1>0 DEF SInv, AtStart, MoveSteps, UpToDate, Up
  <2>2. From(p) = page.path /\ (Exact(p) <=> file[p] = page.body) /\ DeleteTaken(p)
    BY <1>0, <2>1 DEF StartMove, From, Exact, DeleteTaken
  <2> QED
    BY <1>0, <2>1, <2>2 DEF StartMove, MayRename, MayRelocate
<1> QED
  BY <1>0, <1>1, FailSInv DEF FailReleasing

(* Events of an earlier process: only a replay finds them.                 *)
LEMMA RepeatMoveSInv ==
  ASSUME IInv, IInv', SInv, NEW p \in Paths, RepeatMove(p)
  PROVE  SInv'
<1>0. TypeOK /\ hand[p].at = "move" /\ UNCHANGED <<disk, expiry, start, occ, reported>>
  BY DEF IInv, RepeatMove, Handling
<1>1. ~Up
  BY <1>0 DEF SInv, UpToDate, RepeatMove, MayRepeatMove
<1>2. \E h \in Hand : hand' = [hand EXCEPT ![p] = h]
  BY <1>0, AtStep, VaultSyncAssumption DEF RepeatMove
<1>3. \A q \in Paths \ {p} : hand'[q] = hand[q]
  BY <1>0, <1>2 DEF TypeOK
<1>4. \A d \in Paths : del'[d] = NoDelete \/ (del'[d] = del[d] /\ DeleteKept(d))
  BY <1>0, DeleteGoes DEF RepeatMove
<1>5. Alone(p)
  BY <1>0, <1>3, <1>4 DEF Alone, disk, start, SameOccurrence
<1> QED
  BY <1>0, <1>1, <1>5, ReplaySInv

LEMMA IngestAgainSInv ==
  ASSUME IInv, IInv', SInv, NEW p \in Paths, IngestAgain(p)
  PROVE  SInv'
<1>0. TypeOK /\ hand[p].at = "ingest" /\ UNCHANGED <<disk, expiry, start>>
  BY DEF IInv, IngestAgain, Handling
<1>1. ~Up
  BY <1>0 DEF SInv, UpToDate, IngestAgain
<1>2. CASE Fail(p)
  BY <1>0, <1>2, FailSInv DEF Fail, MoveSteps
<1>3. ASSUME UNCHANGED <<occ, del, reported>>, Goto(p, "finish") \/ Goto(p, "reject") \/ Goto(p, "wait")
      PROVE  SInv'
  <2>1. \E h \in Hand : hand' = [hand EXCEPT ![p] = h]
    BY <1>0, <1>3, AtStep, VaultSyncAssumption
  <2>2. \A q \in Paths \ {p} : hand'[q] = hand[q]
    BY <1>0, <2>1 DEF TypeOK
  <2>3. Alone(p)
    BY <1>0, <1>3, <2>2 DEF Alone, disk, start, SameOccurrence, DeleteKept
  <2> QED
    BY <1>0, <1>1, <2>3, ReplaySInv
<1> QED
  BY <1>2, <1>3 DEF IngestAgain, OnlyMoves, rows

(* Bytes of another page's path become an issue; the handler reports them. *)
LEMMA IngestSInv ==
  ASSUME IInv, IInv', SInv, NEW p \in Paths, Ingest(p)
  PROVE  SInv'
<1>0. TypeOK /\ hand[p].at = "ingest" /\ UNCHANGED <<disk, expiry, start>> /\ occ[p].event = "none"
  BY DEF IInv, Ingest, Handling
<1>1. CASE Fail(p)
  BY <1>0, <1>1, FailSInv DEF Fail, MoveSteps
<1>2. CASE Adopt(p) /\ ~Writing /\ (Bound(p) \/ Restorable)
  <2>1. file[page.path] = Missing \/ page.path = p
    BY <1>2 DEF Bound, Restorable
  <2> QED
    BY <1>0, <1>2, <2>1, OpensSInv DEF Adopt
<1>3. CASE /\ UNCHANGED <<page, intent, del, reported>>
           /\ \/ Event(p, "applied", "ingest") /\ Goto(p, "finish") /\ ~Writing /\ Bound(p)
                 /\ page.body = hand[p].seen
              \/ Event(p, "invalid", "ingest") /\ Goto(p, "reject")
  <2>1. PICK h \in Hand : hand' = [hand EXCEPT ![p] = h] /\ h.at \in {"finish", "reject"}
                          /\ (h.at = "finish" => ~Writing /\ Bound(p) /\ page.body = hand[p].seen)
    BY <1>0, <1>3, AtStep, VaultSyncAssumption
  <2>2. hand'[p] = h /\ \A q \in Paths \ {p} : hand'[q] = hand[q]
    BY <1>0, <2>1 DEF TypeOK
  <2>3. SameOccurrence(p) /\ \A q \in Paths \ {p} : occ'[q] = occ[q]
    BY <1>0, <1>3, EventSame
  <2>4. Alone(p) /\ Still
    BY <1>0, <1>3, <2>2, <2>3 DEF Alone, Still, disk, start, SameOccurrence, DeleteKept, Writing, Executing
  <2>5. UpToDate(p)' /\ (mode = "settle" => AtStart(p)')
    BY <1>0, <1>3, <2>1, <2>2 DEF SInv, UpToDate, Beyond, AtStart, MoveSteps, Executing, Writing
  <2>6. ASSUME Up, Off(p) PROVE Heeded(p)'
    <3>1. CASE h.at = "reject"
      BY <2>2, <3>1 DEF Heeded, Looking
    <3>2. CASE h.at = "finish"
      <4>1. file[p] # hand[p].seen
        BY <2>1, <2>6, <3>2 DEF Off, Place, Executing, Bound
      <4> QED
        BY <1>0, <2>6, <4>1 DEF SInv, UpToDate, Heeded, disk
    <3> QED
      BY <2>1, <3>1, <3>2
  <2> QED
    BY <1>0, <1>3, <2>4, <2>5, <2>6, StillSInv DEF MoveSteps
<1> QED
  BY <1>1, <1>2, <1>3 DEF Ingest, Restorable

LEMMA FinishSInv ==
  ASSUME IInv, IInv', SInv, NEW p \in Paths, Finish(p)
  PROVE  SInv'
<1>0. hand[p].at \in {"finish", "wait"} /\ UNCHANGED <<disk, expiry, start, page, del>> /\ End(p, FALSE)
  BY DEF Finish, Handling
<1>1. mode = "settle" => ~\E q \in Paths : hand[q].at \in MoveSteps
  BY <1>0 DEF SInv, OneAtATime, MoveSteps
<1>2. Heeded(p) => raw[p] # "quiet" \/ (del[p] # NoDelete /\ file[p] = Missing)
  BY <1>0, <1>1 DEF Heeded, Looking
<1> QED
  BY <1>0, <1>2, EndSInv DEF MoveSteps

LEMMA RejectSInv ==
  ASSUME IInv, IInv', SInv, NEW p \in Paths, Reject(p)
  PROVE  SInv'
<1>0. hand[p].at = "reject" /\ UNCHANGED <<disk, expiry, start, page, del>> /\ End(p, TRUE)
  BY DEF Reject, Handling
<1> QED
  BY <1>0, EndSInv DEF MoveSteps

LEMMA GiveUpSInv ==
  ASSUME IInv, IInv', SInv, NEW p \in Paths, GiveUp(p)
  PROVE  SInv'
<1>0. hand[p].at = "wait" /\ UNCHANGED <<disk, expiry, start>> /\ Fail(p)
  BY DEF GiveUp, Handling
<1> QED
  BY <1>0, FailSInv DEF Fail, MoveSteps

LEMMA HandlerSInv ==
  ASSUME IInv, IInv', SInv, NEW p \in Paths, Handler(p)
  PROVE  SInv'
  BY QueueSInv, DeferSInv, LookSInv, CancelDeleteSInv, SamePathSInv, SortSInv, ClaimDeleteSInv,
     ResolveSInv, ResolveStartupMoveSInv, RenamePageSInv, RelocateSInv, RepeatMoveSInv,
     MoveFailsSInv, IngestSInv, IngestAgainSInv, FinishSInv, RejectSInv, GiveUpSInv DEF Handler

-----------------------------------------------------------------------------
(* The editor and the executor of intents.                                 *)

(* What the watcher has not heard of is as it was, once it runs.           *)
LEMMA WatcherHears ==
  ASSUME TypeOK, NEW f \in [Paths -> Nat], Files(f)
  PROVE  /\ file' = f
         /\ mode # "live" => raw' = raw
         /\ mode = "live" => \A q \in Paths : raw'[q] = "quiet" => f[q] = file[q] /\ raw[q] = "quiet"
<1>1. file' = f /\ \A q \in Paths : raw'[q] = Heard(q, f)
  BY DEF Files
<1>2. mode # "live" => raw' = raw
  <2>1. mode # "live" => \A q \in Paths : Heard(q, f) = raw[q]
    BY DEF Heard
  <2>2. mode # "live" => raw' = [q \in Paths |-> raw[q]]
    BY <2>1 DEF Files
  <2> QED
    BY <2>2 DEF TypeOK
<1>3. ASSUME mode = "live", NEW q \in Paths, raw'[q] = "quiet"
      PROVE  f[q] = file[q] /\ raw[q] = "quiet"
  BY <1>1, <1>3 DEF Heard
<1> QED
  BY <1>1, <1>2, <1>3

(* Steps that leave rows and tasks alone, but for the intent.              *)
Outside == UNCHANGED <<page, occ, del, reported, tasks, start>>

LEMMA OutsideSInv ==
  ASSUME IInv, IInv', SInv, Outside, mode # "scan" \/ UNCHANGED disk,
         \A q \in Paths : mode = "live" /\ raw'[q] = "quiet" => file'[q] = file[q] /\ raw[q] = "quiet",
         mode = "settle" => \A q \in Paths : AtStart(q)',
         mode = "settle" => UNCHANGED disk \/ \A q \in Paths : hand[q].at \notin {"move", "ingest", "queue"},
         Executing' => NoneCarriedOut \/ (Executing /\ intent'.path = intent.path),
         \A q \in Paths : Up /\ ~HeldUp' /\ Off(q)' =>
           raw'[q] # "quiet" \/ (Off(q) /\ ~HeldUp /\ file'[q] = file[q] /\ raw'[q] = raw[q])
  PROVE  SInv'
<1>1. Kinds' /\ Hashed' /\ Listed' /\ CarriedOut' /\ Completing'
  BY DEF disk, SInv, Outside, tasks, start, Kinds, Hashed, Listed, CarriedOut, NoneCarriedOut, Completing, Owned
<1>2. mode = "settle" => OneAtATime'
  BY DEF SInv, Outside, tasks, start, OneAtATime
<1>3. Up => \A q \in Paths : UpToDate(q)'
  <2> SUFFICES ASSUME Up, NEW q \in Paths PROVE UpToDate(q)'
    OBVIOUS
  <2>1. UpToDate(q) /\ hand' = hand /\ occ' = occ /\ del' = del /\ From(q)' = From(q)
    BY DEF SInv, Outside, tasks, From
  <2>2. CASE mode = "settle"
    BY <2>1, <2>2 DEF UpToDate, disk
  <2>3. CASE mode = "live"
    BY <2>1, <2>3 DEF UpToDate
  <2> QED
    BY <2>2, <2>3 DEF Up
<1>4. AllHeeded'
  <2> SUFFICES ASSUME Up, replayed = {}, ~HeldUp', NEW q \in Paths, Off(q)' PROVE Heeded(q)'
    BY DEF AllHeeded, Up, Outside, start
  <2>1. CASE raw'[q] # "quiet"
    BY <2>1 DEF Heeded
  <2>2. CASE Off(q) /\ ~HeldUp /\ file'[q] = file[q] /\ raw'[q] = raw[q]
    <3>1. Heeded(q)
      BY <2>2 DEF SInv, AllHeeded
    <3> QED
      BY <2>2, <3>1 DEF Heeded, Outside, tasks, start
  <2> QED
    BY <2>1, <2>2
<1> QED
  BY <1>1, <1>2, <1>3, <1>4 DEF SInv, Up, Outside, start

LEMMA EditorSInv ==
  ASSUME IInv, IInv', SInv, Editor, Orderly
  PROVE  SInv'
<1>0. /\ TypeOK /\ newest \in Nat \ {0} /\ file \in [Paths -> Nat] /\ page.body \in Nat
  BY DEF IInv, TypeOK
<1>1. PICK f \in [Paths -> Nat], way \in Ways : Edit(way) /\ Files(f)
  <2>1. ASSUME NEW p \in Paths, Write(p) PROVE \E f \in [Paths -> Nat], way \in Ways : Edit(way) /\ Files(f)
    <3>1. newest' \in Nat /\ [file EXCEPT ![p] = newest'] \in [Paths -> Nat]
      BY <1>0, <2>1 DEF Write, Edit
    <3> QED
      BY <2>1, <3>1 DEF Write, Edit
  <2>2. ASSUME NEW p \in Paths, Remove(p) PROVE \E f \in [Paths -> Nat], way \in Ways : Edit(way) /\ Files(f)
    <3>1. [file EXCEPT ![p] = Missing] \in [Paths -> Nat]
      BY <1>0 DEF Missing
    <3> QED
      BY <2>2, <3>1 DEF Remove, Edit
  <2>3. ASSUME NEW p \in Paths, Restore(p) PROVE \E f \in [Paths -> Nat], way \in Ways : Edit(way) /\ Files(f)
    <3>1. [file EXCEPT ![p] = page.body] \in [Paths -> Nat]
      BY <1>0
    <3> QED
      BY <2>3, <3>1 DEF Restore, Edit
  <2>4. ASSUME NEW p \in Paths, NEW q \in Paths, Move(p, q)
        PROVE  \E f \in [Paths -> Nat], way \in Ways : Edit(way) /\ Files(f)
    <3>1. [file EXCEPT ![p] = Missing, ![q] = file[p]] \in [Paths -> Nat]
      BY <1>0 DEF Missing
    <3> QED
      BY <2>4, <3>1 DEF Move, Edit
  <2> QED
    BY <2>1, <2>2, <2>3, <2>4 DEF Editor
<1>2. Outside /\ intent' = intent /\ edits' # edits
  BY <1>0, <1>1 DEF Edit, Outside, rows, IInv, TypeOK
<1>3. mode \in {"down", "live"}
  BY <1>2 DEF Orderly
<1>4. \A q \in Paths : mode = "live" /\ raw'[q] = "quiet" => file'[q] = file[q] /\ raw[q] = "quiet"
  BY <1>0, <1>1, WatcherHears
<1>5. Executing' = Executing /\ HeldUp' = HeldUp
  BY <1>2 DEF Executing, HeldUp, Writing
<1>6. \A q \in Paths : Up /\ ~HeldUp' /\ Off(q)' =>
        raw'[q] # "quiet" \/ (Off(q) /\ ~HeldUp /\ file'[q] = file[q] /\ raw'[q] = raw[q])
  BY <1>2, <1>3, <1>4, <1>5 DEF Up, Off, Place, Outside
<1> QED
  BY <1>2, <1>3, <1>4, <1>5, <1>6, OutsideSInv

LEMMA PrepareEditSInv ==
  ASSUME IInv, IInv', SInv, PrepareEdit, Orderly
  PROVE  SInv'
<1>0. /\ TypeOK /\ mode = "live" /\ ~Writing /\ ~Executing /\ Outside /\ UNCHANGED disk
      /\ intent' = NewIntent(page.path, page.body, NoPath)
  BY DEF IInv, PrepareEdit, Outside, Executing
<1>1. NoneCarriedOut
  BY <1>0 DEF PrepareEdit, Orderly, TypeOK
<1>2. Executing' => intent'.path = page.path
  BY <1>0 DEF NewIntent
<1>3. intent'.at = "ready" /\ intent'.owner = "live" /\ (Writing' => Executing')
  BY <1>0 DEF NewIntent, Executing
<1>4. \A q \in Paths : Off(q)' => Off(q)
  BY <1>0, <1>2 DEF Off, Place, Outside, disk
<1> QED
  BY <1>0, <1>1, <1>4, OutsideSInv DEF disk, HeldUp

LEMMA StuckSInv ==
  ASSUME IInv, IInv', SInv, Executing, intent' = [intent EXCEPT !.at = "stuck"],
         Outside, UNCHANGED disk
  PROVE  SInv'
<1>0. TypeOK /\ intent \in Intent /\ Writing /\ intent.path # NoPath /\ mode # "scan"
  BY DEF IInv, TypeOK, Executing, WaitsForIt
<1>1. intent'.path = intent.path /\ intent'.at = "stuck"
  BY <1>0 DEF Intent
<1>2. Writing' /\ ~Executing' /\ HeldUp'
  BY <1>0, <1>1 DEF Writing, Executing, HeldUp, NoIntent
<1>3. mode = "settle" => \A q \in Paths : AtStart(q)' /\ hand[q].at \in {"idle", "wait"}
  BY <1>2 DEF SInv, AtStart, Outside, tasks, start, MoveSteps
<1> QED
  BY <1>0, <1>2, <1>3, OutsideSInv DEF disk, MoveSteps

LEMMA TakeSInv ==
  ASSUME IInv, IInv', SInv, Take
  PROVE  SInv'
<1>0. /\ TypeOK /\ newest \in Nat \ {0} /\ file \in [Paths -> Nat] /\ intent \in Intent
      /\ Executing /\ Writing /\ Outside /\ intent.path # NoPath /\ intent.path \in Paths /\ mode # "scan"
  BY DEF IInv, TypeOK, Take, Executing, Outside, Intent, WaitsForIt
<1>1. CASE /\ Files([file EXCEPT ![intent.path] = Missing]) /\ intent' = [intent EXCEPT !.held = TRUE]
  <2> DEFINE f == [file EXCEPT ![intent.path] = Missing]
  <2>1. f \in [Paths -> Nat] /\ \A q \in Paths : q # intent.path => f[q] = file[q]
    BY <1>0 DEF Missing
  <2>2. Files(f)
    BY <1>1
  <2> HIDE DEF f
  <2>3. /\ file' = f
        /\ mode # "live" => raw' = raw
        /\ mode = "live" => \A q \in Paths : raw'[q] = "quiet" => f[q] = file[q] /\ raw[q] = "quiet"
    BY <1>0, <2>1, <2>2, WatcherHears
  <2>4. intent'.path = intent.path /\ intent'.at = intent.at /\ intent'.owner = intent.owner
    BY <1>0, <1>1 DEF Intent
  <2>5. Executing' /\ Writing'
    BY <1>0, <2>4 DEF Executing, Writing, NoIntent
  <2>6. mode = "settle" => \A q \in Paths : AtStart(q)' /\ hand[q].at \in {"idle", "wait"}
    BY <1>0 DEF SInv, AtStart, Outside, tasks, start, MoveSteps
  <2>7. Place' = intent.path /\ Place = intent.path
    BY <1>0, <2>4, <2>5 DEF Place
  <2>8. ASSUME NEW q \in Paths, Off(q)'
        PROVE  Off(q) /\ file'[q] = file[q]
    BY <1>0, <2>1, <2>3, <2>5, <2>7, <2>8 DEF Off, Outside
  <2>9. \A q \in Paths : Up /\ Off(q)' => raw'[q] # "quiet" \/ raw'[q] = raw[q]
    BY <2>3 DEF Up
  <2>10. ~HeldUp
    BY <1>0 DEF HeldUp
  <2> QED
    BY <1>0, <2>3, <2>4, <2>5, <2>6, <2>8, <2>9, <2>10, OutsideSInv
<1>2. CASE intent' = [intent EXCEPT !.at = "stuck"] /\ UNCHANGED disk
  BY <1>0, <1>2, StuckSInv
<1> QED
  BY <1>1, <1>2 DEF Take

LEMMA PutBlockedSInv ==
  ASSUME IInv, IInv', SInv, PutBlocked
  PROVE  SInv'
  BY StuckSInv DEF PutBlocked, Outside

LEMMA IntentLapsesSInv ==
  ASSUME IInv, IInv', SInv, IntentLapses
  PROVE  SInv'
<1>0. /\ TypeOK /\ intent \in Intent /\ Writing /\ intent.path # NoPath /\ Outside /\ UNCHANGED disk
      /\ ~Executing
  BY DEF IInv, TypeOK, IntentLapses, Writing, NoIntent, Outside, Executing
<1>1. intent'.path = intent.path /\ intent'.owner = "none"
  BY <1>0 DEF Intent, IntentLapses
<1>2. Writing' /\ ~Executing' /\ HeldUp'
  BY <1>0, <1>1 DEF Writing, Executing, HeldUp, NoIntent
<1>3. mode = "settle" => \A q \in Paths : hand[q].at \notin MoveSteps
  BY <1>0 DEF SInv, AtStart, StartMove
<1>4. mode = "settle" => \A q \in Paths : AtStart(q)'
  BY <1>0, <1>2, <1>3 DEF SInv, AtStart, Outside, tasks, start, disk
<1> QED
  BY <1>0, <1>2, <1>4, OutsideSInv DEF disk

(* The page is where its new file is, and the handler that waited for it   *)
(* is told; nobody else is at work at start-up.                            *)
LEMMA PutSInv ==
  ASSUME IInv, IInv', SInv, Put
  PROVE  SInv'
<1> DEFINE f == [file EXCEPT ![intent.path] = intent.rev]
<1>0. /\ TypeOK /\ file \in [Paths -> Nat] /\ page \in Row /\ Executing /\ intent \in Intent
      /\ intent.path \in Paths /\ intent.rev \in Nat /\ mode # "scan" /\ intent' = NoIntent
      /\ UNCHANGED <<del, reported, hand, expiry, mode, listed, replayed>>
  BY DEF IInv, TypeOK, Put, Executing, Intent, WaitsForIt, tasks, start
<1>1. f \in [Paths -> Nat] /\ f[intent.path] = intent.rev
      /\ \A q \in Paths : q # intent.path => f[q] = file[q]
  BY <1>0
<1>2. Files(f)
  BY DEF Put
<1> HIDE DEF f
<1>3. /\ file' = f
      /\ mode # "live" => raw' = raw
      /\ mode = "live" => \A q \in Paths : raw'[q] = "quiet" => f[q] = file[q] /\ raw[q] = "quiet"
  BY <1>0, <1>1, <1>2, WatcherHears
<1>4. page'.path = intent.path /\ page'.body = intent.rev
  <2>1. page' = Changed([page EXCEPT !.path = intent.path, !.life = "active", !.body = intent.rev])
    BY DEF Put
  <2> DEFINE row == [page EXCEPT !.path = intent.path, !.life = "active", !.body = intent.rev]
  <2>2. row \in Row /\ row.path = intent.path /\ row.body = intent.rev
    BY <1>0 DEF Row
  <2>3. page' = [row EXCEPT !.epoch = @ + 1]
    BY <2>1 DEF Changed
  <2> HIDE DEF row
  <2> QED
    BY <2>2, <2>3 DEF Row
<1>5. ~Writing' /\ ~Executing'
  BY <1>0 DEF Writing, Executing
<1>6. /\ \A q \in Paths : occ'[q].kind = occ[q].kind /\ occ'[q].old = occ[q].old
      /\ \A q \in Paths : q # intent.occ => occ'[q] = occ[q]
  <2>1. occ' = [p \in Paths |-> IF p = intent.occ THEN [occ[p] EXCEPT !.event = "applied"] ELSE occ[p]]
    BY DEF Put
  <2>2. \A o \in OccurrenceRow : /\ [o EXCEPT !.event = "applied"].kind = o.kind
                                 /\ [o EXCEPT !.event = "applied"].old = o.old
    BY DEF OccurrenceRow
  <2> QED
    BY <1>0, <2>1, <2>2 DEF TypeOK
<1>7. CASE ~Up
  <2>1. mode' \notin {"settle", "live"} /\ Kinds' /\ Hashed' /\ Listed' /\ NoneCarriedOut'
    BY <1>0, <1>6, <1>7, NoneBeforeLive DEF SInv, Kinds, Hashed, Listed, NoneCarriedOut, Up
  <2> QED
    BY <2>1, DownSInv
<1>8. CASE Up
  <2>1. Kinds' /\ Hashed' /\ Listed' /\ CarriedOut' /\ Completing'
    BY <1>0, <1>4, <1>5, <1>6 DEF SInv, Kinds, Hashed, Listed, CarriedOut, Completing, Owned
  <2>2. mode = "settle" => \A q \in Paths : hand[q].at \in {"idle", "wait"}
    BY <1>0 DEF SInv, AtStart
  <2>3. mode = "settle" => OneAtATime' /\ \A q \in Paths : AtStart(q)'
    BY <1>0, <1>5, <2>2 DEF SInv, OneAtATime, AtStart, MoveSteps
  <2>4. \A q \in Paths : q = intent.occ => hand[q].at = "wait"
    BY <1>0, <1>8, VaultSyncAssumption DEF IInv, WaitsForIt, AtWorkOn, Up
  <2>5. ASSUME NEW q \in Paths PROVE UpToDate(q)'
    <3>1. UpToDate(q) /\ hand' = hand /\ del' = del /\ From(q)' = From(q)
      BY <1>0, <1>6, <1>8 DEF SInv, From
    <3>2. CASE hand[q].at \in {"idle", "wait"}
      BY <3>1, <3>2 DEF UpToDate, Beyond
    <3>3. CASE hand[q].at \notin {"idle", "wait"}
      <4>1. occ'[q] = occ[q] /\ mode = "live"
        BY <1>6, <1>8, <2>2, <2>4, <3>3 DEF Up
      <4> QED
        BY <1>3, <3>1, <4>1 DEF UpToDate
    <3> QED
      BY <3>2, <3>3
  <2>6. AllHeeded'
    <3> SUFFICES ASSUME replayed = {}, NEW q \in Paths, Off(q)' PROVE Heeded(q)'
      BY <1>0 DEF AllHeeded
    <3>1. q # intent.path /\ f[q] = file[q] /\ file[q] # Missing
      BY <1>1, <1>3, <1>4, <1>5 DEF Off, Place
    <3>2. Off(q) /\ ~HeldUp
      BY <1>0, <3>1 DEF Off, Place, HeldUp
    <3>3. Heeded(q)
      BY <1>8, <3>2 DEF SInv, AllHeeded
    <3>4. raw'[q] # "quiet" \/ raw'[q] = raw[q]
      BY <1>3, <1>8 DEF Up
    <3>5. mode = "settle" => \A r \in Paths : hand[r].at \notin MoveSteps
      BY <2>2 DEF MoveSteps
    <3> QED
      BY <1>0, <1>3, <1>6, <3>1, <3>3, <3>4, <3>5 DEF Heeded
  <2> QED
    BY <1>0, <1>8, <2>1, <2>3, <2>5, <2>6 DEF SInv, Up
<1> QED
  BY <1>7, <1>8

-----------------------------------------------------------------------------
(* A batch, the expiry loop, and time.                                     *)

LEMMA OccurrenceIs ==
  ASSUME TypeOK, NEW kind \in {"add", "modify", "delete", "rename", "relocate"},
         NEW old \in Paths \cup {NoPath}
  PROVE  /\ Occurrence(kind, old).kind = kind /\ Occurrence(kind, old).old = old
         /\ Occurrence(kind, old).event = "none"
<1> DEFINE late == {d \in Queued : del[d].due}
<1>1. NoOccurrence \in OccurrenceRow /\ NoOccurrence.event = "none"
  BY DEF NoOccurrence, OccurrenceRow, Missing
<1>2. \A r \in OccurrenceRow : LET new == [r EXCEPT !.kind = kind, !.old = old, !.late = late]
                               IN  new.kind = kind /\ new.old = old /\ new.event = r.event
  BY DEF OccurrenceRow
<1> QED
  BY <1>1, <1>2 DEF Occurrence

LEMMA BatchSInv ==
  ASSUME IInv, IInv', SInv, Batch
  PROVE  SInv'
<1> DEFINE noticed == {p \in Paths : raw[p] # "quiet"}
<1>0. /\ TypeOK /\ mode = "live" /\ mode' = "live" /\ \A p \in Paths : hand[p] = Idle
      /\ UNCHANGED <<file, page, intent, del, reported, expiry, listed, replayed>>
  BY DEF IInv, Batch, Busy, start
<1>1. /\ hand' = [p \in Paths |->
                    IF p \notin noticed THEN Idle
                    ELSE [Idle EXCEPT !.at = IF file[p] = Missing THEN "queue" ELSE "look"]]
      /\ occ' = [p \in Paths |-> IF p \in noticed THEN Occurrence(KindOf(p), NoPath) ELSE occ[p]]
  BY DEF Batch
<1>2. \A p \in Paths :
        /\ p \notin noticed => hand'[p] = Idle /\ occ'[p] = occ[p]
        /\ p \in noticed => hand'[p].at = IF file[p] = Missing THEN "queue" ELSE "look"
  BY <1>1 DEF Idle
<1>3. \A p \in noticed : occ'[p].kind \in {"add", "modify", "delete"} /\ occ'[p].old = NoPath
                         /\ occ'[p].event = "none"
  <2>1. \A p \in Paths : KindOf(p) \in {"add", "modify", "delete"}
    BY DEF KindOf
  <2>2. \A p \in Paths : LET o == Occurrence(KindOf(p), NoPath)
                         IN  o.kind = KindOf(p) /\ o.old = NoPath /\ o.event = "none"
    BY <1>0, <2>1, OccurrenceIs
  <2> QED
    BY <1>1, <2>1, <2>2
<1> HIDE DEF noticed
<1>4. Kinds'
  BY <1>2, <1>3 DEF SInv, Kinds
<1>5. Hashed' /\ Listed' /\ CarriedOut' /\ Completing'
  BY <1>0 DEF SInv, Hashed, Listed, CarriedOut, Completing, Owned, Executing, Writing
<1>6. ASSUME NEW p \in Paths PROVE UpToDate(p)'
  BY <1>0, <1>2, <1>3 DEF UpToDate, Beyond, Idle
<1>7. AllHeeded'
  <2> SUFFICES ASSUME replayed = {}, ~HeldUp, NEW p \in Paths, Off(p) PROVE Heeded(p)'
    BY <1>0 DEF AllHeeded, HeldUp, Off, Place, Executing, Writing
  <2>1. Heeded(p)
    BY <1>0 DEF SInv, AllHeeded, Up
  <2>2. CASE p \in noticed
    BY <1>2, <2>2 DEF Heeded, Looking
  <2>3. CASE p \notin noticed
    BY <1>0, <1>2, <2>1, <2>3 DEF Heeded, Looking, Idle, noticed
  <2> QED
    BY <2>2, <2>3
<1> QED
  BY <1>0, <1>4, <1>5, <1>6, <1>7 DEF SInv, Up

(* Steps that touch deletes only, or what the expiry loop knows: no row    *)
(* comes or goes.                                                          *)
RowKept(d) ==
  /\ del'[d] = NoDelete <=> del[d] = NoDelete
  /\ del'[d] # NoDelete => del'[d].hash = del[d].hash
  /\ mode = "settle" => del'[d].owner = del[d].owner

LEMMA TouchSInv ==
  ASSUME IInv, IInv', SInv, UNCHANGED <<disk, page, intent, occ, hand, start>>,
         reported \subseteq reported', \A d \in Paths : RowKept(d),
         \A d \in Paths : del'[d].event = "applied" => del[d].event = "applied",
         Completing'
  PROVE  SInv'
<1> USE DEF disk, start
<1>1. Kinds' /\ Listed' /\ Hashed' /\ CarriedOut'
  BY DEF SInv, Kinds, Listed, Hashed, CarriedOut, RowKept, Executing, Writing
<1>2. Up => \A q \in Paths : UpToDate(q)'
  BY DEF SInv, UpToDate, From, RowKept
<1>3. mode = "settle" => OneAtATime' /\ \A q \in Paths : AtStart(q)'
  <2> SUFFICES ASSUME mode = "settle", NEW q \in Paths PROVE AtStart(q)'
    BY DEF SInv, OneAtATime
  <2>1. AtStart(q)
    BY DEF SInv
  <2>2. StartMove(q) => StartMove(q)'
    BY DEF StartMove, Owned, RowKept, Writing
  <2> QED
    BY <2>1, <2>2 DEF AtStart, Executing, Writing
<1>4. AllHeeded'
  <2> SUFFICES ASSUME Up, replayed = {}, ~HeldUp, NEW q \in Paths, Off(q) PROVE Heeded(q)'
    BY DEF AllHeeded, Up, HeldUp, Off, Place, Executing, Writing
  <2>1. Heeded(q)
    BY DEF SInv, AllHeeded
  <2> QED
    BY <2>1 DEF Heeded, RowKept
<1> QED
  BY <1>1, <1>2, <1>3, <1>4 DEF SInv, Up

LEMMA EventKept ==
  ASSUME TypeOK, SInv, expiry.del \in Paths, NEW state \in State,
         NEW event \in {"none", "pending", "applied", "superseded"}
  PROVE  \A q \in Paths : LET row == DeleteEvent(event, state)[q] IN
           /\ row = NoDelete <=> del[q] = NoDelete
           /\ row.owner = del[q].owner /\ row.hash = del[q].hash
           /\ row.event = del[q].event \/ (row.event = event /\ q = expiry.del)
           /\ q = expiry.del /\ del[q] # NoDelete => row.event = event
<1> DEFINE d == expiry.del
           row == [del[d] EXCEPT !.event = event, !.state = state]
<1>1. CASE DeleteEvent(event, state) = del /\ del[d] = NoDelete
  BY <1>1
<1>2. CASE del[d] # NoDelete /\ DeleteEvent(event, state) = [del EXCEPT ![d].event = event, ![d].state = state]
  <2>1. DeleteEvent(event, state) = [del EXCEPT ![d] = row]
    BY <1>2
  <2>2. row.hash = del[d].hash /\ row.event = event /\ row.owner = del[d].owner
    BY DEF TypeOK, DeleteRow
  <2>3. row # NoDelete
    BY <1>2, <2>2 DEF SInv, Hashed, NoDelete
  <2> HIDE DEF row
  <2>4. DeleteEvent(event, state)[d] = row /\ \A q \in Paths \ {d} : DeleteEvent(event, state)[q] = del[q]
    BY <2>1 DEF TypeOK
  <2> QED
    BY <1>2, <2>2, <2>3, <2>4
<1> QED
  BY <1>1, <1>2 DEF DeleteEvent

(* The loop lets go.                                                       *)
LEMMA LetGoSInv ==
  ASSUME IInv, IInv', SInv, NEW step \in {"lock", "persist", "apply", "complete"}, Expiring(step),
         NEW table \in [Paths -> DeleteRow], LetGo(table),
         \A q \in Paths :
           /\ table[q] = NoDelete <=> del[q] = NoDelete
           /\ table[q].owner = del[q].owner /\ table[q].hash = del[q].hash
           /\ table[q].event = "applied" => del[q].event = "applied",
         reported' \in {reported, reported \cup {expiry.del}}, UNCHANGED page
  PROVE  SInv'
<1> DEFINE d == expiry.del
<1>0. /\ TypeOK /\ mode = "live" /\ d \in Paths
      /\ UNCHANGED <<disk, page, intent, occ, hand, start>>
  BY ExpiryContext
<1>1. Completing'
  BY DEF LetGo, Completing, NoExpiry
<1>2. \A q \in Paths : /\ del'[q] = NoDelete <=> del[q] = NoDelete
                       /\ del'[q] # NoDelete => del'[q].hash = del[q].hash
                       /\ del'[q].event = "applied" => del[q].event = "applied"
  <2>1. CASE del' = table
    BY <2>1
  <2>2. CASE table[d].owner = "expiry" /\ del' = [table EXCEPT ![d].owner = "none", ![d].fresh = FALSE]
    <3>1. table[d] # NoDelete /\ table[d].hash # Missing
      BY <1>0, <2>2 DEF SInv, Hashed, NoDelete
    <3> DEFINE row == [table[d] EXCEPT !.owner = "none", !.fresh = FALSE]
    <3>2. del' = [table EXCEPT ![d] = row] /\ table[d] \in DeleteRow
      BY <1>0, <2>2
    <3>3. row.hash = table[d].hash /\ row.event = table[d].event
      BY <3>2 DEF DeleteRow
    <3>4. row # NoDelete
      BY <3>1, <3>3 DEF NoDelete
    <3> HIDE DEF row, d
    <3>5. del'[d] = row /\ \A q \in Paths \ {d} : del'[q] = table[q]
      BY <1>0, <3>2
    <3> QED
      BY <1>0, <3>1, <3>3, <3>4, <3>5
  <2> QED
    BY <2>1, <2>2 DEF LetGo
<1> QED
  BY <1>0, <1>1, <1>2, TouchSInv DEF RowKept

LEMMA ClaimDueSInv ==
  ASSUME IInv, IInv', SInv, NEW d \in Paths, ClaimDue(d)
  PROVE  SInv'
<1>0. /\ TypeOK /\ mode = "live" /\ del \in [Paths -> DeleteRow]
      /\ UNCHANGED <<disk, page, intent, occ, hand, start, reported>>
  BY ExpiryContext DEF ClaimDue
<1>1. Completing'
  BY DEF ClaimDue, Completing, NoExpiry
<1>2. del[d] # NoDelete /\ del[d].due /\ del[d].hash # Missing
  BY DEF SInv, Hashed, ClaimDue, NoDelete
<1> DEFINE row == [del[d] EXCEPT !.owner = "expiry", !.fresh = TRUE]
<1>3. del' = [del EXCEPT ![d] = row] /\ row.hash = del[d].hash /\ row.event = del[d].event
  BY <1>0 DEF ClaimDue, DeleteRow
<1>4. row # NoDelete
  BY <1>2, <1>3 DEF NoDelete
<1> HIDE DEF row
<1>5. del'[d] = row /\ \A q \in Paths \ {d} : del'[q] = del[q]
  BY <1>0, <1>3
<1> QED
  BY <1>0, <1>1, <1>2, <1>3, <1>4, <1>5, TouchSInv DEF RowKept

LEMMA RecheckSInv ==
  ASSUME IInv, IInv', SInv, Recheck
  PROVE  SInv'
<1>0. /\ TypeOK /\ mode = "live" /\ del \in [Paths -> DeleteRow] /\ Expiring("lock")
      /\ UNCHANGED <<disk, page, intent, occ, hand, start, reported>> /\ expiry \in ExpiryTask
  BY ExpiryContext DEF Recheck
<1>1. CASE /\ expiry' = [expiry EXCEPT !.at = "persist", !.event = del[expiry.del].event,
                                       !.state = del[expiry.del].state]
           /\ UNCHANGED del
  <2>1. expiry'.at = "persist" /\ expiry'.del = expiry.del /\ expiry'.event = del[expiry.del].event
    BY <1>0, <1>1 DEF ExpiryTask
  <2>2. Completing'
    BY <1>1, <2>1 DEF Completing
  <2> QED
    BY <1>0, <1>1, <2>2, TouchSInv DEF RowKept
<1>2. CASE LetGo(del)
  BY <1>0, <1>2, LetGoSInv
<1> QED
  BY <1>1, <1>2 DEF Recheck

LEMMA PersistDeleteSInv ==
  ASSUME IInv, IInv', SInv, PersistDelete
  PROVE  SInv'
<1>0. /\ TypeOK /\ mode = "live" /\ del \in [Paths -> DeleteRow] /\ Expiring("persist") /\ page \in Row
      /\ UNCHANGED <<disk, page, intent, occ, hand, start>> /\ expiry \in ExpiryTask /\ expiry.at = "persist"
      /\ expiry.del \in Paths
  BY ExpiryContext DEF PersistDelete
<1>1. ASSUME NEW step \in {"apply", "complete"}, step = "complete" => expiry.event = "applied",
             ExpiryAt(step), UNCHANGED <<del, reported>>
      PROVE  SInv'
  <2>1. expiry'.at = step /\ expiry'.del = expiry.del
    BY <1>0, <1>1 DEF ExpiryTask, ExpiryAt
  <2>2. Completing'
    BY <1>0, <1>1, <2>1 DEF SInv, Completing, Owned
  <2> QED
    BY <1>0, <1>1, <2>2, TouchSInv DEF RowKept
<1>2. CASE /\ del' = DeleteEvent("pending", page) /\ UNCHANGED reported
           /\ expiry' = [expiry EXCEPT !.at = "apply", !.event = "pending", !.state = page]
  <2>1. expiry'.at = "apply"
    BY <1>0, <1>2 DEF ExpiryTask
  <2>2. Completing'
    BY <2>1 DEF Completing
  <2>3. page \in State
    BY <1>0 DEF State
  <2>4. \A q \in Paths : /\ del'[q] = NoDelete <=> del[q] = NoDelete
                         /\ del'[q].owner = del[q].owner /\ del'[q].hash = del[q].hash
                         /\ del'[q].event = "applied" => del[q].event = "applied"
    BY <1>0, <1>2, <2>3, EventKept
  <2> QED
    BY <1>0, <1>2, <2>2, <2>4, TouchSInv DEF RowKept
<1>3. CASE Abandon(del)
  BY <1>0, <1>3, LetGoSInv DEF Abandon
<1> QED
  BY <1>1, <1>2, <1>3 DEF PersistDelete

(* The page is deleted, with the event of the delete.                      *)
LEMMA ApplyDeleteSInv ==
  ASSUME IInv, IInv', SInv, ApplyDelete
  PROVE  SInv'
<1> DEFINE d == expiry.del
<1>0. /\ TypeOK /\ mode = "live" /\ del \in [Paths -> DeleteRow] /\ Expiring("apply") /\ page \in Row
      /\ UNCHANGED <<disk, intent, occ, hand, start>> /\ expiry \in ExpiryTask /\ expiry.at = "apply"
      /\ d \in Paths /\ expiry.state \in State
  BY ExpiryContext DEF ApplyDelete, ExpiryTask
<1>1. CASE Abandon(del) /\ UNCHANGED page
  BY <1>0, <1>1, LetGoSInv DEF Abandon
<1>2. CASE Abandon(DeleteEvent("superseded", expiry.state)) /\ UNCHANGED page
  <2> DEFINE table == DeleteEvent("superseded", expiry.state)
  <2>1. table \in [Paths -> DeleteRow]
    BY <1>0, DeleteEventTyped
  <2>2. \A q \in Paths : /\ table[q] = NoDelete <=> del[q] = NoDelete
                         /\ table[q].owner = del[q].owner /\ table[q].hash = del[q].hash
                         /\ table[q].event = "applied" => del[q].event = "applied"
    BY <1>0, EventKept
  <2>3. LetGo(table) /\ reported' \in {reported, reported \cup {expiry.del}}
    BY <1>2 DEF Abandon
  <2> HIDE DEF table
  <2> QED
    BY <1>0, <1>2, <2>1, <2>2, <2>3, LetGoSInv
<1>3. CASE /\ ~Writing /\ page.path = d
           /\ page' = Changed([page EXCEPT !.life = "deleted"])
           /\ del' = DeleteEvent("applied", expiry.state)
           /\ ExpiryAt("complete") /\ UNCHANGED reported
  <2>1. page'.path = page.path /\ page'.body = page.body /\ page'.life = "deleted"
    BY <1>0, <1>3, ChangedTyped
  <2>2. expiry'.at = "complete" /\ expiry'.del = d
    BY <1>0, <1>3 DEF ExpiryTask, ExpiryAt
  <2>3. \A q \in Paths : /\ del'[q] = NoDelete <=> del[q] = NoDelete
                         /\ del'[q].owner = del[q].owner /\ del'[q].hash = del[q].hash
                         /\ del'[q].event = "applied" => q = d \/ del[q].event = "applied"
                         /\ q = d /\ del[q] # NoDelete => del'[q].event = "applied"
    BY <1>0, <1>3, EventKept
  <2> HIDE DEF d
  <2>4. ~Executing /\ ~Executing' /\ ~Writing'
    BY <1>0, <1>3 DEF Executing, Writing
  <2>5. Completing'
    <3>1. NoDelete.owner = "none"
      BY DEF NoDelete
    <3>2. del'[d].owner = "expiry" => del[d] # NoDelete
      BY <1>0, <2>3, <3>1 DEF d
    <3> QED
      BY <1>0, <2>2, <2>3, <3>2 DEF Completing, Owned
  <2>6. CarriedOut'
    BY <1>0, <1>3, <2>1, <2>3, <2>4 DEF SInv, CarriedOut, start
  <2>7. Kinds' /\ Listed' /\ Hashed'
    BY <1>0, <2>3 DEF SInv, Kinds, Listed, Hashed, disk, start
  <2>8. \A q \in Paths : UpToDate(q)'
    BY <1>0, <2>3 DEF SInv, UpToDate, From, Up, disk
  <2>9. AllHeeded'
    <3> SUFFICES ASSUME replayed = {}, NEW q \in Paths, Off(q)' PROVE Heeded(q)'
      BY <1>0 DEF AllHeeded, start
    <3>1. Off(q) /\ ~HeldUp
      BY <1>0, <1>3, <2>1, <2>4 DEF Off, Place, HeldUp, disk
    <3>2. Heeded(q)
      BY <1>0, <3>1 DEF SInv, AllHeeded, Up, start
    <3> QED
      BY <1>0, <1>3, <2>3, <3>2 DEF Heeded, disk, start
  <2> QED
    BY <1>0, <2>5, <2>6, <2>7, <2>8, <2>9 DEF SInv, start
<1> QED
  BY <1>1, <1>2, <1>3 DEF ApplyDelete

LEMMA CompleteDeleteSInv ==
  ASSUME IInv, IInv', SInv, CompleteDelete
  PROVE  SInv'
<1> DEFINE d == expiry.del
<1>0. /\ TypeOK /\ mode = "live" /\ del \in [Paths -> DeleteRow] /\ Expiring("complete")
      /\ UNCHANGED <<disk, page, intent, occ, hand, start>> /\ expiry.at = "complete"
      /\ d \in Paths
  BY ExpiryContext DEF CompleteDelete
<1>1. CASE Owned(d, "expiry") /\ expiry' = NoExpiry /\ del' = [del EXCEPT ![d] = NoDelete] /\ UNCHANGED reported
  <2>1. del[d].event = "applied" /\ (page.path = d => page.life = "deleted")
    BY <1>0, <1>1 DEF SInv, Completing, CarriedOut
  <2>2. del'[d] = NoDelete /\ \A q \in Paths \ {d} : del'[q] = del[q]
    BY <1>0, <1>1
  <2>3. \A q \in Paths : del'[q] = NoDelete \/ del'[q] = del[q]
    BY <2>2
  <2> HIDE DEF d
  <2>4. Completing'
    BY <1>1 DEF Completing, NoExpiry
  <2>5. CarriedOut' /\ Kinds' /\ Listed' /\ Hashed'
    <3>1. NoDelete.event = "none"
      BY DEF NoDelete
    <3>2. CarriedOut'
      BY <1>0, <2>3, <3>1 DEF SInv, CarriedOut, Executing, Writing, start
    <3> QED
      BY <1>0, <2>3, <3>2 DEF SInv, Kinds, Listed, Hashed, disk, start
  <2>6. \A q \in Paths : UpToDate(q)'
    BY <1>0, <2>3 DEF SInv, UpToDate, From, Up, disk
  <2>7. AllHeeded'
    <3> SUFFICES ASSUME replayed = {}, ~HeldUp, NEW q \in Paths, Off(q) PROVE Heeded(q)'
      BY <1>0 DEF AllHeeded, HeldUp, Off, Place, Executing, Writing, start, disk
    <3>1. Heeded(q)
      BY <1>0 DEF SInv, AllHeeded, Up
    <3>2. q = d => file[q] # Missing
      <4>1. Place = d => page.life = "deleted" \/ Executing
        BY <2>1 DEF Place
      <4> QED
        BY <4>1 DEF Off
    <3> QED
      BY <1>0, <1>1, <2>2, <3>1, <3>2 DEF Heeded, disk, start
  <2> QED
    BY <1>0, <2>4, <2>5, <2>6, <2>7 DEF SInv, start
<1>2. CASE LetGo(del) /\ reported' \in {reported, reported \cup {d}}
  BY <1>0, <1>2, LetGoSInv
<1> QED
  BY <1>1, <1>2 DEF CompleteDelete, Abandon

LEMMA GraceEndsSInv ==
  ASSUME IInv, IInv', SInv, NEW d \in Paths, GraceEnds(d)
  PROVE  SInv'
<1>0. /\ TypeOK /\ del[d] # NoDelete /\ del[d].hash # Missing /\ del[d] \in DeleteRow
      /\ UNCHANGED <<disk, page, intent, occ, hand, expiry, start, reported>>
  BY DEF IInv, TypeOK, SInv, Hashed, GraceEnds, tasks
<1> DEFINE row == [del[d] EXCEPT !.due = TRUE]
<1>1. row.hash = del[d].hash /\ row.event = del[d].event /\ row.owner = del[d].owner
  BY <1>0 DEF DeleteRow
<1>2. row # NoDelete
  BY <1>0, <1>1 DEF NoDelete
<1>3. del' = [del EXCEPT ![d] = row]
  BY DEF GraceEnds
<1> HIDE DEF row
<1>4. del'[d] = row /\ \A q \in Paths \ {d} : del'[q] = del[q]
  BY <1>0, <1>3 DEF TypeOK
<1>5. Completing'
  BY <1>0, <1>1, <1>4 DEF SInv, Completing, Owned
<1> QED
  BY <1>0, <1>1, <1>2, <1>4, <1>5, TouchSInv DEF RowKept

LEMMA ClaimLapsesSInv ==
  ASSUME IInv, IInv', SInv, NEW d \in Paths, ClaimLapses(d)
  PROVE  SInv'
<1>0. /\ TypeOK /\ del[d] # NoDelete /\ del[d].hash # Missing /\ del[d] \in DeleteRow
      /\ UNCHANGED <<disk, page, intent, occ, hand, expiry, start, reported>>
  BY DEF IInv, TypeOK, SInv, Hashed, ClaimLapses, tasks, NoDelete
<1> DEFINE row == [del[d] EXCEPT !.fresh = FALSE]
<1>1. row.hash = del[d].hash /\ row.event = del[d].event /\ row.owner = del[d].owner
  BY <1>0 DEF DeleteRow
<1>2. row # NoDelete
  BY <1>0, <1>1 DEF NoDelete
<1>3. del' = [del EXCEPT ![d] = row]
  BY DEF ClaimLapses
<1> HIDE DEF row
<1>4. del'[d] = row /\ \A q \in Paths \ {d} : del'[q] = del[q]
  BY <1>0, <1>3 DEF TypeOK
<1>5. Completing'
  BY <1>0, <1>1, <1>4 DEF SInv, Completing, Owned
<1> QED
  BY <1>0, <1>1, <1>2, <1>4, <1>5, TouchSInv DEF RowKept

-----------------------------------------------------------------------------
(* Crashes and starts.                                                     *)
LEMMA CrashSInv ==
  ASSUME IInv, IInv', SInv, Crash, NoneCarriedOut
  PROVE  SInv'
<1>0. /\ del \in [Paths -> DeleteRow] /\ mode' = "down" /\ occ' = occ
      /\ del' = [d \in Paths |-> IF del[d].owner = "none" THEN del[d]
                                 ELSE [del[d] EXCEPT !.owner = "gone"]]
  BY DEF IInv, TypeOK, Crash
<1>1. ASSUME NEW d \in Paths
      PROVE  del'[d].event # "applied" /\ (del'[d] = NoDelete \/ del'[d].hash # Missing)
  <2>1. del[d] \in DeleteRow /\ del[d].event # "applied" /\ (del[d] = NoDelete \/ del[d].hash # Missing)
    BY <1>0 DEF SInv, Hashed, NoneCarriedOut
  <2>2. CASE del[d].owner = "none"
    BY <1>0, <2>1, <2>2
  <2>3. CASE del[d].owner # "none"
    <3>1. del[d].hash # Missing
      BY <2>1, <2>3 DEF NoDelete
    <3>2. del'[d] = [del[d] EXCEPT !.owner = "gone"]
      BY <1>0, <2>3
    <3>3. del'[d].event = del[d].event /\ del'[d].hash = del[d].hash
      BY <2>1, <3>2 DEF DeleteRow
    <3> QED
      BY <2>1, <3>1, <3>3
  <2> QED
    BY <2>2, <2>3
<1>2. Kinds' /\ Hashed' /\ Listed' /\ NoneCarriedOut'
  BY <1>0, <1>1 DEF SInv, Kinds, Hashed, Listed, NoneCarriedOut
<1> QED
  BY <1>0, <1>2, DownSInv

LEMMA StageSInv ==
  ASSUME IInv', SInv, UNCHANGED <<occ, del>>, mode # "live", mode' \notin {"settle", "live"}, Listed'
  PROVE  SInv'
<1>1. Kinds' /\ Hashed' /\ NoneCarriedOut'
  BY NoneBeforeLive DEF SInv, Kinds, Hashed, NoneCarriedOut
<1> QED
  BY <1>1, DownSInv

LEMMA ScanSInv ==
  ASSUME IInv, IInv', SInv, NEW p \in Paths, Scan(p)
  PROVE  SInv'
<1>1. mode = "scan" /\ mode' = "scan" /\ listed' = [listed EXCEPT ![p] = file[p]]
      /\ UNCHANGED <<file, occ, del>> /\ listed \in [Paths -> -1 .. newest]
  BY DEF Scan, Starting, rows, disk, IInv, TypeOK
<1>2. \A q \in Paths : listed'[q] = listed[q] \/ listed'[q] = file[q]
  BY <1>1
<1>3. Listed'
  BY <1>1, <1>2 DEF SInv, Listed
<1> QED
  BY <1>1, <1>3, StageSInv

LEMMA ReplayStepSInv ==
  ASSUME IInv, IInv', SInv, NEW p \in Paths, Replay(p)
  PROVE  SInv'
<1>1. mode = "replay" /\ mode' = "replay" /\ Listed' /\ TypeOK
  BY DEF Replay, Starting, Listed, IInv
<1>2. del' = del
  BY DEF Replay, Fail, FailLeaving, OnlyMoves, rows
<1>3. occ' = occ \/ occ' = [occ EXCEPT ![p] = NoOccurrence]
  BY DEF Replay, Fail, FailLeaving, End, OnlyMoves, rows
<1>4. \A q \in Paths : occ'[q] = occ[q] \/ occ'[q] = NoOccurrence
  BY <1>1, <1>3 DEF TypeOK
<1>5. Kinds'
  BY <1>4 DEF SInv, Kinds, NoOccurrence
<1>6. Hashed' /\ NoneCarriedOut'
  BY <1>1, <1>2, NoneBeforeLive DEF SInv, Hashed, NoneCarriedOut
<1> QED
  BY <1>1, <1>5, <1>6, DownSInv

LEMMA GoLiveSInv ==
  ASSUME IInv, IInv', SInv, GoLive
  PROVE  SInv'
<1>1. /\ mode = "settle" /\ mode' = "live"
      /\ UNCHANGED <<file, raw, page, intent, occ, del, reported, hand, expiry, replayed>>
      /\ \A q \in Paths : hand[q] = Idle
  BY DEF GoLive, Starting, rows, disk, Busy
<1>2. Kinds' /\ Hashed' /\ Listed' /\ CarriedOut'
  BY <1>1, NoneBeforeLive DEF SInv, Kinds, Hashed, Listed, CarriedOut, NoneCarriedOut
<1>3. Completing'
  BY <1>1 DEF IInv, Tasks, Completing, NoExpiry
<1>4. \A q \in Paths : UpToDate(q)'
  BY <1>1 DEF SInv, UpToDate, Up, From
<1>5. AllHeeded'
  <2> SUFFICES ASSUME replayed = {}, ~HeldUp, NEW q \in Paths, Off(q) PROVE Heeded(q)'
    BY <1>1 DEF AllHeeded, HeldUp, Off, Place, Executing, Writing
  <2>1. Heeded(q)
    BY <1>1 DEF SInv, AllHeeded, Up
  <2> QED
    BY <1>1, <2>1 DEF Heeded, MoveSteps, Idle
<1> QED
  BY <1>1, <1>2, <1>3, <1>4, <1>5 DEF SInv, Up

(* The comparison begins: what the inventory found is still so.            *)
LEMMA SettlingSInv ==
  ASSUME IInv, IInv', SInv, Settling,
         Kinds', OneAtATime', \A q \in Paths : AtStart(q)' /\ UpToDate(q)',
         \A q \in Paths : replayed = {} /\ ~HeldUp /\ Off(q) => Heeded(q)'
  PROVE  SInv'
<1>1. /\ mode = "scan" /\ mode' = "settle" /\ UNCHANGED <<file, raw, page, intent, del, expiry, replayed>>
  BY SettlingContext DEF disk
<1>2. Hashed' /\ Listed' /\ CarriedOut'
  BY <1>1, NoneBeforeLive DEF SInv, Hashed, Listed, CarriedOut, NoneCarriedOut
<1>3. Completing'
  BY <1>1 DEF IInv, Tasks, Completing, NoExpiry
<1>4. AllHeeded'
  BY <1>1 DEF AllHeeded, HeldUp, Off, Place, Executing, Writing
<1> QED
  BY <1>1, <1>2, <1>3, <1>4 DEF SInv, Up

LEMMA SettlingFinds ==
  ASSUME IInv, SInv, Settling
  PROVE  /\ mode = "scan" /\ mode' = "settle" /\ TypeOK /\ page \in Row /\ ~Executing
         /\ UNCHANGED <<file, raw, page, intent, del, expiry, replayed>>
         /\ \A q \in Paths : hand[q] = Idle
         /\ \A q \in Paths : listed[q] = file[q]
         /\ \A q \in Paths : q \in Found <=> file[q] # Missing
         /\ \A q \in Paths : Off(q) <=> IF q = page.path THEN page.life = "active" /\ file[q] # page.body
                                        ELSE file[q] # Missing
         /\ HeldUp <=> Writing
<1>1. /\ mode = "scan" /\ mode' = "settle" /\ TypeOK /\ page \in Row /\ ~Executing /\ Busy = {}
      /\ UNCHANGED <<file, raw, page, intent, del, expiry, replayed>>
  BY SettlingContext DEF TypeOK, disk
<1>2. \A q \in Paths : listed[q] = file[q]
  BY <1>1 DEF SInv, Listed, Settling
<1> QED
  BY <1>1, <1>2 DEF Busy, Found, Off, Place, HeldUp

LEMMA NotedSInv ==
  ASSUME IInv, IInv', SInv, Settling, NEW paths \in SUBSET Paths, Noted(paths),
         \A q \in Paths : replayed = {} /\ ~Writing /\ Off(q) =>
           q \in paths \/ (del[q] # NoDelete /\ file[q] = Missing)
  PROVE  SInv'
<1>0. /\ mode' = "settle" /\ ~Executing /\ UNCHANGED <<file, raw, page, intent, del, occ, hand>>
      /\ (\A q \in Paths : hand[q] = Idle) /\ (HeldUp <=> Writing) /\ paths \subseteq reported'
  BY SettlingFinds DEF Noted
<1>1. Kinds'
  BY <1>0 DEF SInv, Kinds
<1>2. OneAtATime' /\ \A q \in Paths : AtStart(q)' /\ UpToDate(q)'
  BY <1>0 DEF OneAtATime, AtStart, UpToDate, MoveSteps, Beyond, Idle, Executing, Writing
<1>3. ASSUME NEW q \in Paths, replayed = {}, ~HeldUp, Off(q) PROVE Heeded(q)'
  BY <1>0, <1>3 DEF Heeded, Idle
<1> QED
  BY <1>1, <1>2, <1>3, SettlingSInv

LEMMA BeginSInv ==
  ASSUME IInv, IInv', SInv, Settling, ~Writing, NEW p \in Paths,
         NEW kind \in {"add", "modify", "delete", "rename", "relocate"},
         NEW old \in Paths \cup {NoPath}, NEW d \in Paths \cup {NoPath},
         NEW step \in {"queue", "same", "cancel", "resolve", "claim", "idle"},
         Begin(kind, p, old, step, d),
         kind \in {"rename", "relocate"} <=> old # NoPath,
         step = "queue" => file[p] = Missing,
         step \in {"same", "cancel"} => file[p] # Missing,
         step \in {"same", "claim", "resolve"} => del[p] = NoDelete,
         step \in {"claim", "resolve"} =>
           /\ old = page.path /\ file[old] = Missing /\ file[p] # Missing
           /\ kind = "rename" <=> file[p] = page.body
           /\ d = IF step = "claim" THEN old ELSE NoPath,
         \A q \in Paths \ {p} : Off(q) =>
           (step \in {"claim", "resolve"} /\ q = page.path) \/ (del[q] # NoDelete /\ file[q] = Missing)
  PROVE  SInv'
<1>0. /\ mode' = "settle" /\ TypeOK /\ ~Executing /\ UNCHANGED <<file, raw, page, intent, del, expiry>>
      /\ (\A q \in Paths : hand[q] = Idle) /\ page.path \in Paths /\ page.path # NoPath
  BY SettlingFinds, VaultSyncAssumption DEF Row
<1>1. PICK h \in Hand : hand' = [hand EXCEPT ![p] = h] /\ h.at = step /\ h.del = d
  BY <1>0, AtStep DEF Begin
<1> DEFINE o == Occurrence(kind, old)
<1>2. o.kind = kind /\ o.old = old /\ o.event = "none" /\ occ' = [occ EXCEPT ![p] = o]
  BY <1>0, OccurrenceIs DEF Begin
<1> HIDE DEF o
<1>3. /\ hand'[p] = h /\ (\A q \in Paths \ {p} : hand'[q] = Idle)
      /\ occ'[p] = o /\ (\A q \in Paths \ {p} : occ'[q] = occ[q])
  BY <1>0, <1>1, <1>2 DEF TypeOK
<1>4. Kinds'
  BY <1>2, <1>3 DEF SInv, Kinds
<1>5. ~Writing' /\ ~Executing'
  BY <1>0 DEF Writing, Executing
<1>6. OneAtATime'
  BY <1>3 DEF OneAtATime, Idle
<1>7. AtStart(p)' /\ UpToDate(p)'
  <2>1. h.at \in MoveSteps => StartMove(p)'
    BY <1>0, <1>1, <1>2, <1>3, <1>5 DEF StartMove, MoveSteps
  <2> QED
    BY <1>0, <1>1, <1>2, <1>3, <1>5, <2>1 DEF AtStart, UpToDate, Beyond, MoveSteps
<1>8. ASSUME NEW q \in Paths \ {p} PROVE AtStart(q)' /\ UpToDate(q)'
  BY <1>3, <1>5 DEF AtStart, UpToDate, Beyond, MoveSteps, Idle
<1>9. ASSUME NEW q \in Paths, Off(q) PROVE Heeded(q)'
  <2>1. CASE q = p
    <3>1. h.at \in Looking \/ (h.at = "idle" /\ o.kind # "none")
      BY <1>1, <1>2 DEF Looking
    <3> QED
      BY <1>3, <2>1, <3>1 DEF Heeded
  <2>2. CASE q # p /\ step \in {"claim", "resolve"} /\ q = page.path
    BY <1>0, <1>1, <1>3, <2>2 DEF Heeded, MoveSteps
  <2>3. CASE del[q] # NoDelete /\ file[q] = Missing
    BY <1>0, <2>3 DEF Heeded
  <2> QED
    BY <1>9, <2>1, <2>2, <2>3
<1> QED
  BY <1>4, <1>6, <1>7, <1>8, <1>9, SettlingSInv

(* Found at two places or more: every path that is off is among them, as   *)
(* the page's own path is, or there is a page without a file.              *)
LEMMA SettleDuplicatesSInv ==
  ASSUME IInv, IInv', SInv, SettleDuplicates, ~Astray
  PROVE  SInv'
<1>1. Settling /\ Noted(Found) /\ Found \in SUBSET Paths /\ Cardinality(Found) > 1
  BY DEF SettleDuplicates, Found
<1>2. ASSUME NEW q \in Paths, ~Writing, Off(q) PROVE q \in Found \/ (del[q] # NoDelete /\ file[q] = Missing)
  <2>1. Found # {}
    BY <1>1, FS_EmptySet
  <2>2. page.path \in Found \/ page.life = "deleted"
    BY <1>1, <2>1 DEF Astray
  <2> QED
    BY <1>1, <1>2, <2>2, SettlingFinds
<1> QED
  BY <1>1, <1>2, NotedSInv

LEMMA SettleMissingSInv ==
  ASSUME IInv, IInv', SInv, SettleMissing
  PROVE  SInv'
<1> DEFINE p == page.path
<1>1. Settling /\ Found = {} /\ p \in Paths
  BY DEF SettleMissing, IInv, TypeOK, Row
<1>2. \A q \in Paths : file[q] = Missing /\ (Off(q) => q = p /\ page.life = "active")
  BY <1>1, SettlingFinds
<1>3. CASE Noted({p})
  BY <1>1, <1>2, <1>3, NotedSInv
<1>4. CASE NothingToDo /\ (page.life = "deleted" \/ file[p] # Missing \/ del[p] # NoDelete)
  BY <1>1, <1>2, <1>4, NotedSInv DEF NothingToDo
<1>5. CASE ~Writing /\ file[p] = Missing /\ Begin("delete", p, NoPath, "queue", NoPath)
  <2> HIDE DEF p
  <2> QED
    BY <1>1, <1>2, <1>5, BeginSInv
<1> QED
  BY <1>3, <1>4, <1>5 DEF SettleMissing

LEMMA SettleInPlaceSInv ==
  ASSUME IInv, IInv', SInv, NEW p \in Paths, SettleInPlace(p)
  PROVE  SInv'
<1>1. Settling /\ Found = {p} /\ page.path = p /\ p # NoPath
  BY VaultSyncAssumption DEF SettleInPlace
<1>2. file[p] # Missing /\ listed[p] = file[p] /\ \A q \in Paths : Off(q) => q = p /\ file[p] # page.body
  BY <1>1, SettlingFinds
<1>3. CASE Noted({p})
  BY <1>1, <1>2, <1>3, NotedSInv
<1>4. CASE NothingToDo /\ (p \in replayed \/ listed[p] = page.body)
  BY <1>1, <1>2, <1>4, NotedSInv DEF NothingToDo
<1>5. CASE ~Writing /\ del[p] = NoDelete /\ Begin("modify", p, NoPath, "same", NoPath)
  BY <1>1, <1>2, <1>5, BeginSInv
<1>6. CASE ~Writing /\ Begin("modify", p, NoPath, "cancel", p)
  BY <1>1, <1>2, <1>6, BeginSInv
<1> QED
  BY <1>3, <1>4, <1>5, <1>6 DEF SettleInPlace

LEMMA SettleMovedSInv ==
  ASSUME IInv, IInv', SInv, NEW p \in Paths, SettleMoved(p), ~Astray
  PROVE  SInv'
<1> DEFINE old == page.path
           kind == IF file[p] = page.body THEN "rename" ELSE "relocate"
<1>1. Settling /\ Found = {p} /\ old # p /\ old \in Paths /\ old # NoPath /\ page.life # "deleted"
  BY VaultSyncAssumption DEF SettleMoved, IInv, TypeOK, Row
<1>2. file[p] # Missing /\ file[old] = Missing /\ \A q \in Paths : Off(q) => q \in {p, old}
  BY <1>1, SettlingFinds
<1>3. Queued \ {old} = {}
  BY <1>1 DEF Astray
<1>4. del[p] = NoDelete
  BY <1>1, <1>3 DEF Queued
<1>5. CASE Noted({p}) /\ Writing
  BY <1>1, <1>5, NotedSInv
<1>6. CASE NothingToDo /\ p \in replayed
  BY <1>1, <1>6, NotedSInv DEF NothingToDo
<1>7. CASE ~Writing /\ Begin(kind, p, old, "resolve", NoPath)
  <2>1. kind \in {"rename", "relocate"} /\ (kind = "rename" <=> file[p] = page.body)
    OBVIOUS
  <2> HIDE DEF kind, old
  <2> QED
    BY <1>1, <1>2, <1>4, <1>7, <2>1, BeginSInv DEF old
<1>8. CASE ~Writing /\ Begin(kind, p, old, "claim", old)
  <2>1. kind \in {"rename", "relocate"} /\ (kind = "rename" <=> file[p] = page.body)
    OBVIOUS
  <2> HIDE DEF kind, old
  <2> QED
    BY <1>1, <1>2, <1>4, <1>8, <2>1, BeginSInv DEF old
<1> QED
  BY <1>2, <1>3, <1>5, <1>6, <1>7, <1>8 DEF SettleMoved

LEMMA SettleReturnedSInv ==
  ASSUME IInv, IInv', SInv, NEW p \in Paths, SettleReturned(p)
  PROVE  SInv'
<1>1. Settling /\ Found = {p} /\ page.path # p /\ page.life = "deleted"
  BY DEF SettleReturned
<1>2. file[p] # Missing /\ \A q \in Paths : Off(q) => q = p
  BY <1>1, SettlingFinds
<1>3. CASE Noted({p})
  BY <1>1, <1>2, <1>3, NotedSInv
<1>4. CASE NothingToDo /\ p \in replayed
  BY <1>1, <1>4, NotedSInv DEF NothingToDo
<1>5. CASE ~Writing /\ Begin("add", p, NoPath, IF del[p] = NoDelete THEN "same" ELSE "idle", NoPath)
  <2> DEFINE step == IF del[p] = NoDelete THEN "same" ELSE "idle"
  <2>1. step \in {"same", "idle"} /\ (step = "same" => del[p] = NoDelete)
    OBVIOUS
  <2>2. Begin("add", p, NoPath, step, NoPath)
    BY <1>5
  <2> HIDE DEF step
  <2> QED
    BY <1>1, <1>2, <1>5, <2>1, <2>2, BeginSInv
<1> QED
  BY <1>3, <1>4, <1>5 DEF SettleReturned

LEMMA StartsSInv ==
  ASSUME IInv, IInv', SInv, Starts, mode = "scan" /\ mode' = "settle" => ~Astray
  PROVE  SInv'
<1>1. CASE Boot \/ RecoverIntents \/ IntentsRecovered \/ AllReplayed
  <2>1. /\ UNCHANGED <<occ, del>> /\ mode # "live"
        /\ mode' \in {"recover", "execute", "replay"} \/ (mode = "replay" /\ mode' = "scan" /\ listed' = listed)
    BY <1>1 DEF Boot, RecoverIntents, IntentsRecovered, AllReplayed, Starting, rows
  <2>2. Listed'
    BY <2>1 DEF Listed, IInv, Tasks
  <2> QED
    BY <2>1, <2>2, StageSInv
<1>2. CASE SettleDuplicates
  BY <1>2, SettleDuplicatesSInv, SettlingFinds DEF SettleDuplicates
<1>3. ASSUME NEW p \in Paths, SettleMoved(p) PROVE SInv'
  BY <1>3, SettleMovedSInv, SettlingFinds DEF SettleMoved
<1>4. CASE \E p \in Paths : Replay(p) \/ Scan(p) \/ SettleInPlace(p) \/ SettleReturned(p)
  BY <1>4, ReplayStepSInv, ScanSInv, SettleInPlaceSInv, SettleReturnedSInv
<1> QED
  BY <1>1, <1>2, <1>3, <1>4, SettleMissingSInv, GoLiveSInv DEF Starts

LEMMA NextSInv ==
  ASSUME IInv, IInv', SInv, [Next]_vars, [Orderly]_vars
  PROVE  SInv'
<1>1. CASE UNCHANGED vars
  <2> USE <1>1 DEF vars, disk, rows, tasks, start, history, counters
  <2>1. Kinds' /\ Hashed' /\ Listed' /\ CarriedOut' /\ Completing'
    BY DEF SInv, Kinds, Hashed, Listed, CarriedOut, Completing, Owned, Executing, Writing
  <2>2. mode = "settle" => OneAtATime' /\ \A p \in Paths : AtStart(p)'
    BY DEF SInv, OneAtATime, AtStart, StartMove, Owned, Executing, Writing
  <2>3. Up => \A p \in Paths : UpToDate(p)'
    BY DEF SInv, UpToDate, From
  <2>4. AllHeeded'
    BY DEF SInv, AllHeeded, Up, HeldUp, Off, Place, Heeded, Executing, Writing
  <2> QED
    BY <2>1, <2>2, <2>3, <2>4 DEF SInv, Up
<1>2. CASE Next /\ Orderly
  <2>1. CASE Editor
    <3>1. edits' # edits
      <4>1. edits' = edits + 1
        BY <2>1 DEF Editor, Write, Remove, Restore, Move, Edit
      <4>2. edits \in Nat
        BY DEF IInv, TypeOK
      <4> QED
        BY <4>1, <4>2
    <3> QED
      BY <1>2, <2>1, <3>1, EditorSInv DEF Orderly
  <2>2. CASE PrepareEdit
    <3>1. writes' # writes
      BY <2>2 DEF PrepareEdit, IInv, TypeOK
    <3> QED
      BY <1>2, <2>2, <3>1, PrepareEditSInv DEF Orderly
  <2>3. CASE Executor
    BY <2>3, TakeSInv, PutSInv, PutBlockedSInv DEF Executor
  <2>4. CASE \E p \in Paths : Handler(p)
    BY <2>4, HandlerSInv
  <2>5. CASE Expiry
    BY <2>5, ClaimDueSInv, RecheckSInv, PersistDeleteSInv, ApplyDeleteSInv, CompleteDeleteSInv DEF Expiry
  <2>6. CASE Passes \/ \E d \in Paths : LiveClaimLapses(d)
    BY <2>6, IntentLapsesSInv, GraceEndsSInv, ClaimLapsesSInv DEF Passes, DeadClaimLapses, LiveClaimLapses
  <2>7. CASE Crash
    <3>1. crashes' # crashes
      BY <2>7 DEF Crash, IInv, TypeOK
    <3> QED
      BY <1>2, <2>7, <3>1, CrashSInv DEF Orderly
  <2>8. CASE Starts
    BY <1>2, <2>8, StartsSInv DEF Orderly
  <2> QED
    BY <1>2, <2>1, <2>2, <2>3, <2>4, <2>5, <2>6, <2>7, <2>8, BatchSInv DEF Next
<1>3. UNCHANGED vars \/ (Next /\ Orderly)
  OBVIOUS
<1> QED
  BY <1>1, <1>2, <1>3

(* When all is quiet nobody is left to look at a path.                     *)
LEMMA QuietIsSettled ==
  ASSUME IInv, SInv
  PROVE  QuietMeansInSync
<1> SUFFICES ASSUME Quiet, reported = {}, replayed = {}, NEW p \in Paths
             PROVE  IF p # page.path THEN file[p] = Missing ELSE page.life = "active" => file[p] = page.body
  BY DEF QuietMeansInSync, Agree
<1>1. \A q \in Paths : hand[q] = Idle /\ occ[q] = NoOccurrence /\ raw[q] = "quiet" /\ del[q] = NoDelete
  BY DEF Quiet, IInv, TypeOK, Busy, IsPending, Queued
<1>2. ~Heeded(p)
  BY <1>1 DEF Heeded, Quiet, Idle, NoOccurrence, Looking
<1>3. ~Off(p) /\ ~Executing
  BY <1>2 DEF SInv, AllHeeded, Up, HeldUp, Quiet, Executing
<1> QED
  BY <1>3 DEF Off, Place

(* A vault at rest is in sync, whatever was edited, replaced, killed and   *)
(* restarted before, as long as each step was orderly: when no event, no   *)
(* occurrence, no delete and no intent is left, and nothing was replayed   *)
(* or reported, the page's file is where the row says and has its content, *)
(* and no other path has one.                                              *)
THEOREM QuietVaultInSync == Spec /\ [][Orderly]_vars => []QuietMeansInSync
<1>1. Init => SInv
  BY InitSInv
<1>2. IInv /\ IInv' /\ SInv /\ [Next]_vars /\ [Orderly]_vars => SInv'
  BY NextSInv
<1>3. IInv /\ SInv => QuietMeansInSync
  BY QuietIsSettled
<1> QED
  BY <1>1, <1>2, <1>3, SpecIInv, PTL DEF Spec
=============================================================================
