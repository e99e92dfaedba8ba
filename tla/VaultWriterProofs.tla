-------------------------- MODULE VaultWriterProofs --------------------------
(***************************************************************************)
(* The vault writer: the page points at its one open intent, one executor  *)
(* at a time has the file in hand, what an applied intent displaced is     *)
(* known, no file loses its last name or its bytes to the service, and     *)
(* what the editor wrote is where somebody looks for it; for any number of *)
(* executors, intents, edits, crashes and lapses of leases.                *)
(***************************************************************************)
EXTENDS VaultWriter, SequenceTheorems, TLAPS

----------------------------------------------------------------------------
(* The database and the runs.                                              *)

Mark == Contents \cup {Missing}
Review == [cand: Nat \cup {None}, target: Mark, backup: Mark]
Intent == [status: Statuses, rev: Nat, base: Nat \cup {None}, expected: Mark,
           owner: Executors \cup {NoOwner, Gone}, lapsed: BOOLEAN,
           captured: Mark, baseline: Mark, review: Review]
Sight == [target: Mark, backup: Mark, staged: Mark, claim: Mark]
RunRecord == [at: Steps, i: Nat \cup {None}, seen: Sight]

IsOpenRow(w) == w.status \in OpenStatuses
AtWork(r) == r.at \notin {"idle", "lock"}

\* What is held of the file an intent captured is what was expected, or the new revision.
Held(w, x) == w.expected # Missing => x \in {Missing, w.rev, w.expected}
RowKnown(w, known) ==
    /\ Held(w, w.captured)
    /\ w.expected # Missing => w.baseline \in {Missing, w.expected} \cup Nat \cup known

\* Which phase of the intent each step of a run belongs to.
InPhase(r, w) ==
    /\ r.at \in {"capture", "link", "grab", "settle", "record"} =>
         w.status \in {"pending", "recovery_required"}
    /\ r.at \in {"observe", "recover"} => w.status = "recovery_required"
    /\ r.at = "install" => w.status = "captured"
    /\ r.at \in {"stage", "write", "place", "advance"} =>
         w.status \in {"captured", "recovery_required"}
    /\ r.at = "finalize" => w.status = "installed"

HasCaptured == {"record", "install", "stage", "write", "place", "advance"}

\* A run at work has an open intent, which somebody owns.
Fits(r, w) == /\ IsOpenRow(w) /\ w.owner # NoOwner
              /\ InPhase(r, w)
              /\ r.at \in HasCaptured => Held(w, r.seen.backup)

DbTyped == /\ current \in Nat \cup {None}
           /\ pending \in DOMAIN intents \cup {None}
           /\ life \in {"absent", "active", "invalid"}
           /\ newest \in Nat
           /\ intents \in Seq(Intent) /\ Len(intents) <= MaxIntents
           /\ recorded \subseteq Contents
           /\ run \in [Executors -> RunRecord]
           /\ edits \in Nat

Runs == \A e \in Executors :
          /\ run[e].i \in DOMAIN intents \cup {None}
          /\ run[e].at # "idle" => run[e].i \in DOMAIN intents
          /\ run[e].at = "lock" => run[e].seen.backup = Missing
          /\ AtWork(run[e]) => Fits(run[e], intents[run[e].i])
Apart == \A e, f \in Executors : AtWork(run[e]) /\ AtWork(run[f]) /\ e # f => run[e].i # run[f].i
RowsKnown == \A i \in DOMAIN intents : RowKnown(intents[i], recorded)

DbInv == DbTyped /\ Runs /\ Apart /\ PendingIsTheOpenIntent /\ RowsKnown

\* The numbers of intents, and what is not one.
LEMMA IntentNumbers ==
    ASSUME DbInv
    PROVE  /\ DOMAIN intents = 1 .. Len(intents) /\ Len(intents) \in Nat
           /\ None \notin Nat /\ MaxIntents \in Nat
           /\ \A i \in DOMAIN intents : intents[i] \in Intent /\ i \in Nat
<1>1. intents \in Seq(Intent)
    BY DEF DbInv, DbTyped
<1>2. DOMAIN intents = 1 .. Len(intents) /\ Len(intents) \in Nat
    BY <1>1
<1>3. MaxIntents \in Nat /\ None \notin Nat
    BY VaultWriterAssumption DEF MaxIntents, None
<1> QED BY <1>1, <1>2, <1>3

\* What an idle run is, and what a new or a released intent is.
LEMMA IdleTyped == /\ Idle \in RunRecord /\ Idle.at = "idle" /\ Idle.i = None
                   /\ NothingSeen \in Sight /\ NothingSeen.backup = Missing
                   /\ Idle.seen = NothingSeen
<1>1. NothingSeen \in Sight
    BY DEF NothingSeen, Sight, Mark
<1> QED BY <1>1 DEF Idle, RunRecord, Steps, NothingSeen

LEMMA NewTyped ==
    ASSUME DbInv, NEW rev \in Nat, NEW expected \in Mark
    PROVE  /\ NewIntent(rev, expected) \in Intent
           /\ RowKnown(NewIntent(rev, expected), recorded)
           /\ NewIntent(rev, expected).status = "pending"
           /\ NewIntent(rev, expected).review = NoReview
           /\ NewIntent(rev, expected).expected = expected
<1>1. NoReview \in Review
    BY DEF NoReview, Review, Mark
<1>2. current \in Nat \cup {None}
    BY DEF DbInv, DbTyped
<1> QED BY <1>1, <1>2 DEF NewIntent, Intent, Statuses, OpenStatuses, Mark, RowKnown, Held

LEMMA ReleasedTyped ==
    ASSUME NEW w \in Intent
    PROVE  /\ Released(w) \in Intent /\ Released(w).status = w.status
           /\ Released(w).rev = w.rev /\ Released(w).expected = w.expected
           /\ Released(w).captured = w.captured /\ Released(w).baseline = w.baseline
           /\ Released(w).review = w.review
    BY DEF Released, Intent

----------------------------------------------------------------------------
(* What the steps do to the database and the runs.                         *)

RestTyped == /\ current \in Nat \cup {None} /\ life \in {"absent", "active", "invalid"}
             /\ newest \in Nat /\ recorded \subseteq Contents /\ edits \in Nat
RestKept == RestTyped' /\ recorded \subseteq recorded'

LEMMA RestUnchanged ==
    ASSUME DbInv, UNCHANGED <<current, life, newest, recorded, edits>>
    PROVE  RestKept
    BY DEF DbInv, DbTyped, RestKept, RestTyped

\* What is known stays known.
LEMMA KnownStays ==
    ASSUME NEW w, NEW k1, NEW k2, k1 \subseteq k2, RowKnown(w, k1)
    PROVE  RowKnown(w, k2)
    BY DEF RowKnown

\* A run that is not idle takes a step of its own at its intent.
WorkerStep(e, w, r) ==
    /\ run[e].at # "idle"
    /\ intents' = [intents EXCEPT ![run[e].i] = w]
    /\ run' = [run EXCEPT ![e] = r]
    /\ pending' = pending /\ RestKept
    /\ IsOpenRow(w) <=> IsOpen(run[e].i)
    /\ RowKnown(w, recorded')
    /\ AtWork(run[e]) \/ w = intents[run[e].i]
    /\ AtWork(r) => Fits(r, w) /\ (AtWork(run[e]) \/ ~LockTaken(e))
    /\ r.i = run[e].i \/ (r.i = None /\ r.at = "idle")
    /\ r.at # "lock"

LEMMA WorkerMoves ==
    ASSUME DbInv, NEW e \in Executors, NEW w \in Intent, NEW r \in RunRecord, WorkerStep(e, w, r)
    PROVE  DbInv'
<1> DEFINE i == run[e].i
<1>1. /\ i \in DOMAIN intents /\ intents \in Seq(Intent) /\ run \in [Executors -> RunRecord]
      /\ pending \in DOMAIN intents \cup {None}
    BY DEF DbInv, DbTyped, Runs, WorkerStep
<1>2. /\ intents' \in Seq(Intent) /\ Len(intents') = Len(intents)
      /\ DOMAIN intents' = DOMAIN intents /\ intents'[i] = w
      /\ \A j \in DOMAIN intents : j # i => intents'[j] = intents[j]
    BY <1>1 DEF WorkerStep
<1>3. /\ run' \in [Executors -> RunRecord] /\ run'[e] = r
      /\ \A f \in Executors : f # e => run'[f] = run[f]
    BY <1>1 DEF WorkerStep
<1>4. DbTyped'
    BY <1>1, <1>2, <1>3 DEF DbInv, DbTyped, WorkerStep, RestKept, RestTyped
<1>5. ASSUME NEW f \in Executors, f # e, AtWork(run[f])
      PROVE  run[f].i # i \/ w = intents[i]
    BY <1>5, <1>1 DEF DbInv, Apart, WorkerStep
<1>6. Runs'
  <2> SUFFICES ASSUME NEW f \in Executors
               PROVE  /\ run'[f].i \in DOMAIN intents \cup {None}
                      /\ run'[f].at # "idle" => run'[f].i \in DOMAIN intents
                      /\ run'[f].at = "lock" => run'[f].seen.backup = Missing
                      /\ AtWork(run'[f]) => Fits(run'[f], intents'[run'[f].i])
      BY <1>2 DEF Runs
  <2>1. CASE f = e
    <3>1. AtWork(r) => r.i = i
        BY DEF WorkerStep, AtWork
    <3> QED BY <2>1, <3>1, <1>1, <1>2, <1>3 DEF WorkerStep
  <2>2. CASE f # e
    <3>1. /\ run[f].i \in DOMAIN intents \cup {None}
          /\ run[f].at # "idle" => run[f].i \in DOMAIN intents
          /\ run[f].at = "lock" => run[f].seen.backup = Missing
          /\ AtWork(run[f]) => Fits(run[f], intents[run[f].i])
        BY DEF DbInv, Runs
    <3>2. AtWork(run[f]) => intents'[run[f].i] = intents[run[f].i]
      <4>1. AtWork(run[f]) => run[f].at # "idle"
          BY DEF AtWork
      <4> QED BY <4>1, <3>1, <2>2, <1>2, <1>5
    <3> QED BY <3>1, <3>2, <2>2, <1>3
  <2> QED BY <2>1, <2>2
<1>7. Apart'
  <2>1. AtWork(r) => \A f \in Executors \ {e} : AtWork(run[f]) => run[f].i # i
    <3>1. CASE AtWork(run[e])
        BY <3>1 DEF DbInv, Apart
    <3>2. CASE ~AtWork(run[e])
        BY <3>2 DEF WorkerStep, LockTaken, AtWork
    <3> QED BY <3>1, <3>2
  <2>2. AtWork(r) => r.i = i
      BY DEF WorkerStep, AtWork
  <2> QED BY <2>1, <2>2, <1>3 DEF DbInv, Apart
<1>8. PendingIsTheOpenIntent'
    BY <1>1, <1>2 DEF DbInv, PendingIsTheOpenIntent, WorkerStep, IsOpen, IsOpenRow
<1>9. RowsKnown'
  <2> SUFFICES ASSUME NEW j \in DOMAIN intents PROVE RowKnown(intents'[j], recorded')
      BY <1>2 DEF RowsKnown
  <2>1. CASE j = i
      BY <2>1, <1>2 DEF WorkerStep
  <2>2. CASE j # i
    <3>1. RowKnown(intents[j], recorded) /\ recorded \subseteq recorded'
        BY DEF DbInv, RowsKnown, WorkerStep, RestKept
    <3> QED BY <2>2, <3>1, <1>2, KnownStays
  <2> QED BY <2>1, <2>2
<1> QED BY <1>4, <1>6, <1>7, <1>8, <1>9 DEF DbInv

\* An intent is appended, and is the one the page points at.
Appends(w) == /\ pending = None /\ Len(intents) < MaxIntents
              /\ intents' = Append(intents, w) /\ pending' = Len(intents) + 1
              /\ UNCHANGED run /\ RestKept
              /\ IsOpenRow(w) /\ RowKnown(w, recorded')

LEMMA AppendKeeps ==
    ASSUME DbInv, NEW w \in Intent, Appends(w)
    PROVE  DbInv'
<1> DEFINE n == Len(intents) + 1
<1>1. /\ intents \in Seq(Intent) /\ n \in Nat /\ None \notin Nat
      /\ DOMAIN intents = 1 .. Len(intents) /\ Len(intents) \in Nat /\ MaxIntents \in Nat
    BY IntentNumbers DEF DbInv, DbTyped
<1>2. /\ intents' \in Seq(Intent) /\ Len(intents') = n /\ DOMAIN intents' = 1 .. n
      /\ intents'[n] = w /\ \A j \in DOMAIN intents : intents'[j] = intents[j]
    BY <1>1 DEF Appends
<1>3. DOMAIN intents' = DOMAIN intents \cup {n}
    BY <1>1, <1>2
<1>4. DbTyped'
    BY <1>1, <1>2, <1>3 DEF DbInv, DbTyped, Appends, RestKept, RestTyped
<1>5. Runs'
  <2> SUFFICES ASSUME NEW f \in Executors
               PROVE  /\ run[f].i \in DOMAIN intents' \cup {None}
                      /\ run[f].at # "idle" => run[f].i \in DOMAIN intents'
                      /\ run[f].at = "lock" => run[f].seen.backup = Missing
                      /\ AtWork(run[f]) => Fits(run[f], intents'[run[f].i])
      BY DEF Runs, Appends
  <2>1. /\ run[f].i \in DOMAIN intents \cup {None}
        /\ run[f].at # "idle" => run[f].i \in DOMAIN intents
        /\ run[f].at = "lock" => run[f].seen.backup = Missing
        /\ AtWork(run[f]) => Fits(run[f], intents[run[f].i])
      BY DEF DbInv, Runs
  <2>2. AtWork(run[f]) => run[f].at # "idle"
      BY DEF AtWork
  <2> QED BY <2>1, <2>2, <1>2, <1>3
<1>6. Apart'
    BY DEF DbInv, Apart, Appends
<1>7. PendingIsTheOpenIntent'
  <2>1. \A j \in DOMAIN intents : ~IsOpenRow(intents[j])
      BY <1>1 DEF DbInv, PendingIsTheOpenIntent, IsOpen, IsOpenRow, Appends
  <2>2. \A j \in DOMAIN intents : j # n
      BY <1>1
  <2>3. pending' = n /\ IsOpenRow(w)
      BY DEF Appends
  <2> QED BY <2>1, <2>2, <2>3, <1>2, <1>3 DEF PendingIsTheOpenIntent, IsOpen, IsOpenRow
<1>8. RowsKnown'
  <2> SUFFICES ASSUME NEW j \in DOMAIN intents' PROVE RowKnown(intents'[j], recorded')
      BY DEF RowsKnown
  <2>1. CASE j = n
      BY <2>1, <1>2 DEF Appends
  <2>2. CASE j \in DOMAIN intents
    <3>1. RowKnown(intents[j], recorded) /\ recorded \subseteq recorded'
        BY <2>2 DEF DbInv, RowsKnown, Appends, RestKept
    <3> QED BY <2>2, <3>1, <1>2, KnownStays
  <2> QED BY <2>1, <2>2, <1>3
<1> QED BY <1>4, <1>5, <1>6, <1>7, <1>8 DEF DbInv

\* Whoever works at an intent leaves it, the others go on.
LetsGo(i) == /\ run' \in [Executors -> RunRecord]
             /\ \A f \in Executors : \/ run'[f] = Idle
                                     \/ run'[f] = run[f] /\ (AtWork(run[f]) => run[f].i # i)

\* An intent is closed, and the page points at none.
Closes(i, w) == /\ IsOpen(i) /\ pending' = None
                /\ intents' = [intents EXCEPT ![i] = w]
                /\ ~IsOpenRow(w) /\ RowKnown(w, recorded')
                /\ LetsGo(i) /\ RestKept

LEMMA CloseKeeps ==
    ASSUME DbInv, NEW i \in DOMAIN intents, NEW w \in Intent, Closes(i, w)
    PROVE  DbInv'
<1>1. intents \in Seq(Intent) /\ DOMAIN intents = 1 .. Len(intents) /\ None \notin Nat
    BY IntentNumbers DEF DbInv, DbTyped
<1>2. /\ intents' \in Seq(Intent) /\ Len(intents') = Len(intents)
      /\ DOMAIN intents' = DOMAIN intents /\ intents'[i] = w
      /\ \A j \in DOMAIN intents : j # i => intents'[j] = intents[j]
    BY <1>1 DEF Closes
<1>3. DbTyped'
    BY <1>1, <1>2 DEF DbInv, DbTyped, Closes, LetsGo, RestKept, RestTyped
<1>4. Runs'
  <2> SUFFICES ASSUME NEW f \in Executors
               PROVE  /\ run'[f].i \in DOMAIN intents \cup {None}
                      /\ run'[f].at # "idle" => run'[f].i \in DOMAIN intents
                      /\ run'[f].at = "lock" => run'[f].seen.backup = Missing
                      /\ AtWork(run'[f]) => Fits(run'[f], intents'[run'[f].i])
      BY <1>2 DEF Runs
  <2>1. CASE run'[f] = Idle
      BY <2>1, IdleTyped DEF AtWork
  <2>2. CASE run'[f] = run[f] /\ (AtWork(run[f]) => run[f].i # i)
    <3>1. /\ run[f].i \in DOMAIN intents \cup {None}
          /\ run[f].at # "idle" => run[f].i \in DOMAIN intents
          /\ run[f].at = "lock" => run[f].seen.backup = Missing
          /\ AtWork(run[f]) => Fits(run[f], intents[run[f].i])
        BY DEF DbInv, Runs
    <3>2. AtWork(run[f]) => run[f].at # "idle"
        BY DEF AtWork
    <3> QED BY <2>2, <3>1, <3>2, <1>2
  <2> QED BY <2>1, <2>2 DEF Closes, LetsGo
<1>5. Apart'
    BY IdleTyped DEF DbInv, Apart, Closes, LetsGo, AtWork
<1>6. PendingIsTheOpenIntent'
    BY <1>1, <1>2 DEF DbInv, PendingIsTheOpenIntent, Closes, IsOpen, IsOpenRow
<1>7. RowsKnown'
  <2> SUFFICES ASSUME NEW j \in DOMAIN intents PROVE RowKnown(intents'[j], recorded')
      BY <1>2 DEF RowsKnown
  <2>1. CASE j = i
      BY <2>1, <1>2 DEF Closes
  <2>2. CASE j # i
    <3>1. RowKnown(intents[j], recorded) /\ recorded \subseteq recorded'
        BY DEF DbInv, RowsKnown, Closes, RestKept
    <3> QED BY <2>2, <3>1, <1>2, KnownStays
  <2> QED BY <2>1, <2>2
<1> QED BY <1>3, <1>4, <1>5, <1>6, <1>7 DEF DbInv

\* An intent is closed and its successor appended, which the page points at from then on.
HandsOver(i, w, v) ==
    /\ IsOpen(i) /\ Len(intents) < MaxIntents
    /\ intents' = Append([intents EXCEPT ![i] = w], v) /\ pending' = Len(intents) + 1
    /\ ~IsOpenRow(w) /\ RowKnown(w, recorded')
    /\ IsOpenRow(v) /\ RowKnown(v, recorded')
    /\ LetsGo(i) /\ RestKept

LEMMA HandOverKeeps ==
    ASSUME DbInv, NEW i \in DOMAIN intents, NEW w \in Intent, NEW v \in Intent,
           HandsOver(i, w, v)
    PROVE  DbInv'
<1> DEFINE n == Len(intents) + 1
<1>1. /\ intents \in Seq(Intent) /\ n \in Nat /\ None \notin Nat
      /\ DOMAIN intents = 1 .. Len(intents) /\ Len(intents) \in Nat /\ MaxIntents \in Nat
    BY IntentNumbers DEF DbInv, DbTyped
<1>2. /\ [intents EXCEPT ![i] = w] \in Seq(Intent)
      /\ Len([intents EXCEPT ![i] = w]) = Len(intents)
      /\ \A j \in DOMAIN intents :
            [intents EXCEPT ![i] = w][j] = IF j = i THEN w ELSE intents[j]
    BY <1>1
<1>3. /\ intents' \in Seq(Intent) /\ Len(intents') = n /\ DOMAIN intents' = 1 .. n
      /\ intents'[n] = v /\ intents'[i] = w
      /\ \A j \in DOMAIN intents : j # i => intents'[j] = intents[j]
    BY <1>1, <1>2 DEF HandsOver
<1>4. DOMAIN intents' = DOMAIN intents \cup {n} /\ \A j \in DOMAIN intents : j # n
    BY <1>1, <1>3
<1>5. DbTyped'
    BY <1>1, <1>3, <1>4 DEF DbInv, DbTyped, HandsOver, LetsGo, RestKept, RestTyped
<1>6. Runs'
  <2> SUFFICES ASSUME NEW f \in Executors
               PROVE  /\ run'[f].i \in DOMAIN intents' \cup {None}
                      /\ run'[f].at # "idle" => run'[f].i \in DOMAIN intents'
                      /\ run'[f].at = "lock" => run'[f].seen.backup = Missing
                      /\ AtWork(run'[f]) => Fits(run'[f], intents'[run'[f].i])
      BY DEF Runs
  <2>1. CASE run'[f] = Idle
      BY <2>1, IdleTyped DEF AtWork
  <2>2. CASE run'[f] = run[f] /\ (AtWork(run[f]) => run[f].i # i)
    <3>1. /\ run[f].i \in DOMAIN intents \cup {None}
          /\ run[f].at # "idle" => run[f].i \in DOMAIN intents
          /\ run[f].at = "lock" => run[f].seen.backup = Missing
          /\ AtWork(run[f]) => Fits(run[f], intents[run[f].i])
        BY DEF DbInv, Runs
    <3>2. AtWork(run[f]) => run[f].at # "idle"
        BY DEF AtWork
    <3> QED BY <2>2, <3>1, <3>2, <1>3, <1>4
  <2> QED BY <2>1, <2>2 DEF HandsOver, LetsGo
<1>7. Apart'
    BY IdleTyped DEF DbInv, Apart, HandsOver, LetsGo, AtWork
<1>8. PendingIsTheOpenIntent'
  <2>1. \A j \in DOMAIN intents : j # i => ~IsOpenRow(intents[j])
      BY <1>1 DEF DbInv, PendingIsTheOpenIntent, IsOpen, IsOpenRow, HandsOver
  <2>2. pending' = n /\ IsOpenRow(v) /\ ~IsOpenRow(w)
      BY DEF HandsOver
  <2> QED BY <2>1, <2>2, <1>3, <1>4 DEF PendingIsTheOpenIntent, IsOpen, IsOpenRow
<1>9. RowsKnown'
  <2> SUFFICES ASSUME NEW j \in DOMAIN intents' PROVE RowKnown(intents'[j], recorded')
      BY DEF RowsKnown
  <2>1. CASE j = n \/ j = i
      BY <2>1, <1>3 DEF HandsOver
  <2>2. CASE j \in DOMAIN intents /\ j # i
    <3>1. RowKnown(intents[j], recorded) /\ recorded \subseteq recorded'
        BY <2>2 DEF DbInv, RowsKnown, HandsOver, RestKept
    <3> QED BY <2>2, <3>1, <1>3, KnownStays
  <2> QED BY <2>1, <2>2, <1>4
<1> QED BY <1>5, <1>6, <1>7, <1>8, <1>9 DEF DbInv

\* Rows change in what no run and no pointer looks at: leases, owners other than none, and
\* what is known of backups.  Some runs may end with it.
Touches == /\ intents' \in Seq(Intent) /\ Len(intents') = Len(intents)
           /\ \A j \in DOMAIN intents :
                /\ intents'[j].status = intents[j].status /\ intents'[j].rev = intents[j].rev
                /\ intents'[j].expected = intents[j].expected
                /\ intents[j].owner # NoOwner => intents'[j].owner # NoOwner
                /\ RowKnown(intents'[j], recorded')
           /\ run' \in [Executors -> RunRecord]
           /\ \A f \in Executors : \/ run'[f] = run[f] \/ run'[f] = Idle
                                   \/ /\ run[f].at = "idle" /\ run'[f].at = "lock"
                                      /\ run'[f].i \in DOMAIN intents
                                      /\ run'[f].seen.backup = Missing
           /\ pending' = pending /\ RestKept

LEMMA TouchKeeps ==
    ASSUME DbInv, Touches
    PROVE  DbInv'
<1>1. intents \in Seq(Intent) /\ DOMAIN intents' = DOMAIN intents
    BY DEF DbInv, DbTyped, Touches
<1>2. DbTyped'
    BY <1>1 DEF DbInv, DbTyped, Touches, RestKept, RestTyped
<1>3. Runs'
  <2> SUFFICES ASSUME NEW f \in Executors
               PROVE  /\ run'[f].i \in DOMAIN intents \cup {None}
                      /\ run'[f].at # "idle" => run'[f].i \in DOMAIN intents
                      /\ run'[f].at = "lock" => run'[f].seen.backup = Missing
                      /\ AtWork(run'[f]) => Fits(run'[f], intents'[run'[f].i])
      BY <1>1 DEF Runs
  <2>1. CASE run'[f] = Idle
      BY <2>1, IdleTyped DEF AtWork
  <2>2. CASE run'[f] = run[f]
    <3>1. /\ run[f].i \in DOMAIN intents \cup {None}
          /\ run[f].at # "idle" => run[f].i \in DOMAIN intents
          /\ run[f].at = "lock" => run[f].seen.backup = Missing
          /\ AtWork(run[f]) => Fits(run[f], intents[run[f].i])
        BY DEF DbInv, Runs
    <3>2. AtWork(run[f]) => run[f].at # "idle"
        BY DEF AtWork
    <3>3. ASSUME NEW j \in DOMAIN intents, Fits(run[f], intents[j])
          PROVE  Fits(run[f], intents'[j])
      <4>1. /\ intents'[j].status = intents[j].status /\ intents'[j].rev = intents[j].rev
            /\ intents'[j].expected = intents[j].expected
            /\ intents[j].owner # NoOwner => intents'[j].owner # NoOwner
          BY DEF Touches
      <4> QED BY <3>3, <4>1 DEF Fits, IsOpenRow, InPhase, Held
    <3> QED BY <2>2, <3>1, <3>2, <3>3
  <2>3. CASE /\ run[f].at = "idle" /\ run'[f].at = "lock" /\ run'[f].i \in DOMAIN intents
             /\ run'[f].seen.backup = Missing
      BY <2>3 DEF AtWork
  <2> QED BY <2>1, <2>2, <2>3 DEF Touches
<1>4. Apart'
  <2>1. \A f \in Executors : AtWork(run'[f]) => run'[f] = run[f]
      BY IdleTyped DEF Touches, AtWork
  <2> QED BY <2>1 DEF DbInv, Apart
<1>5. PendingIsTheOpenIntent'
    BY <1>1 DEF DbInv, PendingIsTheOpenIntent, Touches, IsOpen
<1>6. RowsKnown'
    BY <1>1 DEF RowsKnown, Touches
<1> QED BY <1>2, <1>3, <1>4, <1>5, <1>6 DEF DbInv

----------------------------------------------------------------------------
(* The files, as far as their types go.                                    *)

FileTyped == /\ disk \in [Names -> Inodes \cup {NoFile}]
             /\ data \in [Inodes -> Mark]
             /\ \A n \in Linked(disk) : data[n] # Missing
             /\ handle \in Inodes \cup {NoFile}
             /\ disowned \subseteq Inodes \cap Linked(disk)

\* The names of an intent's files, all different.
LEMMA NamesOfIntents ==
    ASSUME DbInv, NEW i \in DOMAIN intents
    PROVE  {Target, Backup(i), Claim(i), Staged(i)} \subseteq Names
<1>1. i \in 1 .. MaxIntents
    BY IntentNumbers DEF DbInv, DbTyped
<1> QED BY <1>1 DEF Names, Backup, Claim, Staged

LEMMA NamesDiffer ==
    /\ Target \in Names
    /\ \A i, j : /\ Backup(i) # Target /\ Claim(i) # Target /\ Staged(i) # Target
                 /\ Backup(i) # Claim(j) /\ Backup(i) # Staged(j) /\ Claim(i) # Staged(j)
                 /\ i # j => Backup(i) # Backup(j) /\ Claim(i) # Claim(j) /\ Staged(i) # Staged(j)
    BY DEF Names, Target, Backup, Claim, Staged

LEMMA InodesAreNot == NoFile \notin Inodes /\ Missing \notin Nat /\ 0 \in Nat
    BY VaultWriterAssumption DEF NoFile, Inodes

LEMMA ContentTyped ==
    ASSUME FileTyped, NEW n \in Names
    PROVE  /\ Content(n) \in Mark
           /\ disk[n] # NoFile => disk[n] \in Linked(disk) /\ disk[n] \in Inodes
           /\ Content(n) = Missing <=> disk[n] = NoFile
<1>1. disk[n] # NoFile => disk[n] \in Linked(disk) /\ disk[n] \in Inodes
    BY DEF FileTyped, Linked
<1>2. disk[n] # NoFile => data[disk[n]] \in Mark /\ data[disk[n]] # Missing
    BY <1>1 DEF FileTyped
<1> QED BY <1>1, <1>2 DEF Content, Mark

----------------------------------------------------------------------------
(* Steps of a run that leave the database as it is, but for its lease.     *)

DbStill(e) == /\ \/ intents' = intents
                 \/ intents' = [intents EXCEPT ![run[e].i].lapsed = FALSE]
              /\ UNCHANGED <<current, pending, life, newest, recorded, edits>>

\* What a run at work knows.
LEMMA RunFacts ==
    ASSUME DbInv, NEW e \in Executors
    PROVE  /\ run[e] \in RunRecord
           /\ run[e].at # "idle" => run[e].i \in DOMAIN intents
           /\ AtWork(run[e]) => /\ run[e].at # "idle" /\ run[e].i \in DOMAIN intents
                                /\ IsOpen(run[e].i) /\ intents[run[e].i] \in Intent
                                /\ intents[run[e].i].owner # NoOwner
                                /\ InPhase(run[e], intents[run[e].i])
                                /\ run[e].at \in HasCaptured =>
                                     Held(intents[run[e].i], run[e].seen.backup)
           /\ run[e].at = "lock" => run[e].seen.backup = Missing
           /\ run[e].at # "idle" => /\ intents[run[e].i] \in Intent
                                    /\ RowKnown(intents[run[e].i], recorded)
<1>1. run[e] \in RunRecord
    BY DEF DbInv, DbTyped
<1>2. /\ run[e].at # "idle" => run[e].i \in DOMAIN intents
      /\ run[e].at = "lock" => run[e].seen.backup = Missing
      /\ AtWork(run[e]) => Fits(run[e], intents[run[e].i])
    BY DEF DbInv, Runs
<1>3. \A i \in DOMAIN intents : intents[i] \in Intent
    BY IntentNumbers
<1>4. AtWork(run[e]) => run[e].at # "idle"
    BY DEF AtWork
<1> QED BY <1>1, <1>2, <1>3, <1>4 DEF Fits, IsOpenRow, IsOpen, DbInv, RowsKnown

LEMMA RunGoesOn ==
    ASSUME DbInv, NEW e \in Executors, AtWork(run[e]), DbStill(e), NEW r \in RunRecord,
           run' = [run EXCEPT ![e] = r], r.i = run[e].i \/ r = Idle, r.at # "lock",
           AtWork(r) => InPhase(r, intents[run[e].i]),
           r.at \in HasCaptured => Held(intents[run[e].i], r.seen.backup)
    PROVE  DbInv'
<1>1. PICK i \in DOMAIN intents : i = run[e].i
    BY RunFacts
<1>2. /\ intents[i] \in Intent /\ IsOpen(i) /\ intents[i].owner # NoOwner
      /\ RowKnown(intents[i], recorded) /\ run[e].at # "idle" /\ intents \in Seq(Intent)
    BY <1>1, RunFacts DEF DbInv, DbTyped
<1>3. PICK w \in Intent : /\ intents' = [intents EXCEPT ![i] = w]
                          /\ w \in {intents[i], [intents[i] EXCEPT !.lapsed = FALSE]}
  <2>1. CASE intents' = intents
    <3>1. intents = [intents EXCEPT ![i] = intents[i]]
        BY <1>1, <1>2
    <3> QED BY <3>1, <2>1, <1>2
  <2>2. CASE intents' = [intents EXCEPT ![i].lapsed = FALSE]
    <3>1. [intents[i] EXCEPT !.lapsed = FALSE] \in Intent
        BY <1>2 DEF Intent
    <3> QED BY <3>1, <2>2, <1>2
  <2> QED BY <2>1, <2>2, <1>1 DEF DbStill
<1>4. /\ w.status = intents[i].status /\ w.rev = intents[i].rev /\ w.owner = intents[i].owner
      /\ w.expected = intents[i].expected /\ w.captured = intents[i].captured
      /\ w.baseline = intents[i].baseline
    BY <1>2, <1>3 DEF Intent
<1>5. RowKnown(w, recorded') /\ IsOpenRow(w)
    BY <1>2, <1>4 DEF RowKnown, Held, DbStill, IsOpenRow, IsOpen
<1>6. AtWork(r) => Fits(r, w)
    BY <1>1, <1>2, <1>4, <1>5 DEF Fits, InPhase, Held
<1>7. RestKept
    BY RestUnchanged DEF DbStill
<1>8. r.i = run[e].i \/ (r.i = None /\ r.at = "idle")
    BY IdleTyped
<1>9. WorkerStep(e, w, r)
    BY <1>1, <1>2, <1>3, <1>5, <1>6, <1>7, <1>8 DEF WorkerStep, DbStill
<1> QED BY <1>9, WorkerMoves

\* The same, of the steps by which most runs move on: to another step, to having bytes in
\* hand, and to the end.
LEMMA GotoKeeps ==
    ASSUME DbInv, NEW e \in Executors, AtWork(run[e]), DbStill(e), NEW step \in Steps,
           Goto(e, step),
           step \notin {"idle", "lock"},
           InPhase([at |-> step], intents[run[e].i]),
           step \in HasCaptured => Held(intents[run[e].i], run[e].seen.backup)
    PROVE  DbInv'
<1>1. run[e] \in RunRecord /\ run \in [Executors -> RunRecord]
    BY DEF DbInv, DbTyped
<1>2. PICK r : r = [run[e] EXCEPT !.at = step]
    OBVIOUS
<1>3. r \in RunRecord /\ r.at = step /\ r.i = run[e].i /\ r.seen = run[e].seen
    BY <1>1, <1>2 DEF RunRecord
<1>4. run' = [run EXCEPT ![e] = r]
    BY <1>1, <1>2 DEF Goto
<1>5. InPhase(r, intents[run[e].i])
    BY <1>3 DEF InPhase
<1> QED BY <1>3, <1>4, <1>5, RunGoesOn

LEMMA GotKeeps ==
    ASSUME DbInv, NEW e \in Executors, AtWork(run[e]), DbStill(e), NEW x \in Mark, Got(e, x),
           intents[run[e].i].status \in {"pending", "recovery_required"},
           Held(intents[run[e].i], x)
    PROVE  DbInv'
<1>1. run[e] \in RunRecord /\ run \in [Executors -> RunRecord]
    BY DEF DbInv, DbTyped
<1>2. PICK q : q = [run[e] EXCEPT !.at = "record"]
    OBVIOUS
<1>3. PICK r : r = [q EXCEPT !.seen.backup = x]
    OBVIOUS
<1>4. q \in RunRecord /\ q.at = "record" /\ q.i = run[e].i
    BY <1>1, <1>2 DEF RunRecord, Steps
<1>5. r \in RunRecord /\ r.at = "record" /\ r.i = run[e].i /\ r.seen.backup = x
    BY <1>3, <1>4 DEF RunRecord, Sight
<1>6. run' = [run EXCEPT ![e] = r]
  <2>1. run' = [[run EXCEPT ![e].at = "record"] EXCEPT ![e].seen.backup = x]
      BY DEF Got
  <2>2. [run EXCEPT ![e].at = "record"][e] = q
      BY <1>1, <1>2
  <2>3. run' = [[run EXCEPT ![e].at = "record"] EXCEPT ![e] = r]
      BY <1>3, <2>1, <2>2
  <2> QED BY <2>3, <1>1
<1>7. InPhase(r, intents[run[e].i])
    BY <1>5 DEF InPhase
<1> QED BY <1>5, <1>6, <1>7, RunGoesOn

LEMMA LeaveKeeps ==
    ASSUME DbInv, NEW e \in Executors, AtWork(run[e]), DbStill(e), Leave(e)
    PROVE  DbInv'
<1>1. /\ run' = [run EXCEPT ![e] = Idle] /\ Idle \in RunRecord /\ ~AtWork(Idle)
      /\ Idle.at # "lock"
    BY IdleTyped DEF Leave, AtWork
<1>2. Idle.at \notin HasCaptured
    BY IdleTyped DEF HasCaptured
<1> QED BY <1>1, <1>2, RunGoesOn

----------------------------------------------------------------------------
(* One lemma per action: the database and the runs.                        *)

LEMMA EditorDb ==
    ASSUME DbInv, Editor
    PROVE  DbInv'
<1>1. UNCHANGED <<dbVars, run>> /\ edits' \in Nat
  <2>1. edits \in Nat
      BY DEF DbInv, DbTyped
  <2>2. ASSUME NEW x, Replace(x) PROVE UNCHANGED <<dbVars, run>> /\ edits' \in Nat
      BY <2>1, <2>2 DEF Replace, Edited
  <2>3. ASSUME NEW x, WriteInPlace(x) PROVE UNCHANGED <<dbVars, run>> /\ edits' \in Nat
      BY <2>1, <2>3 DEF WriteInPlace, Edited
  <2>4. CASE Remove
      BY <2>1, <2>4 DEF Remove, Edited
  <2>5. CASE OpenFile
      BY <2>1, <2>5 DEF OpenFile, counters
  <2> QED BY <2>2, <2>3, <2>4, <2>5 DEF Editor
<1>2. RestKept
    BY <1>1 DEF RestKept, RestTyped, DbInv, DbTyped, dbVars
<1>3. Touches
    BY <1>1, <1>2 DEF Touches, DbInv, DbTyped, dbVars, RowsKnown
<1> QED BY <1>3, TouchKeeps

\* Every preparation appends an intent upon bytes the database has, or upon no file.
LEMMA PrepareKeeps ==
    ASSUME DbInv, NEW x \in Mark, Prepare(x), life' \in {"absent", "active", "invalid"},
           recorded \subseteq recorded', recorded' \subseteq Contents
    PROVE  DbInv'
<1>1. PICK rev : rev = newest'
    OBVIOUS
<1>2. rev \in Nat /\ newest \in Nat
    BY <1>1 DEF Prepare, DbInv, DbTyped
<1>3. PICK w : w = NewIntent(rev, x)
    OBVIOUS
<1>4. w \in Intent /\ RowKnown(w, recorded) /\ w.status = "pending"
    BY <1>2, <1>3, NewTyped
<1>5. IsOpenRow(w) /\ RowKnown(w, recorded')
    BY <1>4, KnownStays DEF IsOpenRow, OpenStatuses
<1>6. RestKept
    BY <1>1, <1>2 DEF Prepare, RestKept, RestTyped, DbInv, DbTyped
<1>7. Appends(w)
    BY <1>1, <1>3, <1>5, <1>6 DEF Appends, Prepare
<1> QED BY <1>4, <1>7, AppendKeeps

LEMMA PreparationsDb ==
    ASSUME DbInv, FileTyped, PrepareEdit \/ PrepareNew \/ PrepareLegacy \/ Ingest
    PROVE  DbInv'
<1>1. /\ recorded \subseteq Contents /\ life \in {"absent", "active", "invalid"}
      /\ current \in Nat \cup {None}
    BY DEF DbInv, DbTyped
<1>2. Content(Target) \in Mark
    BY ContentTyped, NamesDiffer
<1>3. Missing \in Mark /\ Nat \subseteq Mark
    BY DEF Mark, Contents
<1>4. CASE PrepareEdit
    BY <1>4, <1>1, <1>3, PrepareKeeps DEF PrepareEdit
<1>5. CASE PrepareNew
    BY <1>5, <1>1, <1>3, PrepareKeeps DEF PrepareNew
<1>6. CASE PrepareLegacy
  <2>1. Content(Target) \in Contents
      BY <1>2, <1>6 DEF PrepareLegacy, Mark
  <2> QED BY <2>1, <1>1, <1>2, <1>6, PrepareKeeps DEF PrepareLegacy
<1>7. CASE Ingest
  <2>1. Content(Target) \in Contents /\ recorded' = recorded \cup {Content(Target)}
      BY <1>2, <1>7 DEF Ingest, Mark
  <2>2. CASE Prepare(Content(Target)) /\ UNCHANGED life
      BY <2>1, <2>2, <1>1, <1>2, PrepareKeeps
  <2>3. CASE /\ life' = "invalid"
             /\ UNCHANGED <<current, pending, newest, intents, fileVars, run, counters>>
    <3>1. RestKept
        BY <2>1, <2>3, <1>1 DEF RestKept, RestTyped, DbInv, DbTyped, counters
    <3>2. \A j \in DOMAIN intents : RowKnown(intents[j], recorded')
        BY <2>1, KnownStays DEF DbInv, RowsKnown
    <3>3. Touches
        BY <3>1, <3>2, <2>3 DEF Touches, DbInv, DbTyped
    <3> QED BY <3>3, TouchKeeps
  <2> QED BY <2>2, <2>3, <1>7 DEF Ingest
<1> QED BY <1>4, <1>5, <1>6, <1>7

LEMMA ClaimIntentDb ==
    ASSUME DbInv, NEW e \in Executors, NEW i \in DOMAIN intents, ClaimIntent(e, i)
    PROVE  DbInv'
<1>1. /\ intents \in Seq(Intent) /\ intents[i] \in Intent /\ run \in [Executors -> RunRecord]
      /\ i \in Nat
    BY IntentNumbers DEF DbInv, DbTyped
<1>2. PICK r : r = [Idle EXCEPT !.at = "lock", !.i = i]
    OBVIOUS
<1>3. r \in RunRecord /\ r.at = "lock" /\ r.i = i /\ r.seen.backup = Missing
    BY <1>1, <1>2, IdleTyped DEF RunRecord, Steps
<1>4. run' = [run EXCEPT ![e] = r] /\ run[e].at = "idle"
    BY <1>2 DEF ClaimIntent, At
<1>5. PICK w : w = [[intents[i] EXCEPT !.owner = e] EXCEPT !.lapsed = FALSE]
    OBVIOUS
<1>6. /\ w \in Intent /\ w.owner # NoOwner /\ w.status = intents[i].status
      /\ w.rev = intents[i].rev /\ w.expected = intents[i].expected
      /\ w.captured = intents[i].captured /\ w.baseline = intents[i].baseline
  <2>1. e # NoOwner
      BY VaultWriterAssumption
  <2> QED BY <1>1, <1>5, <2>1 DEF Intent
<1>7. intents' = [intents EXCEPT ![i] = w]
    BY <1>1, <1>5 DEF ClaimIntent
<1>8. RestKept /\ recorded' = recorded
    BY RestUnchanged DEF ClaimIntent, counters
<1>9. /\ intents' \in Seq(Intent) /\ Len(intents') = Len(intents) /\ intents'[i] = w
      /\ \A j \in DOMAIN intents : j # i => intents'[j] = intents[j]
    BY <1>1, <1>6, <1>7
<1>10. \A j \in DOMAIN intents : RowKnown(intents'[j], recorded')
    BY <1>6, <1>8, <1>9 DEF DbInv, RowsKnown, RowKnown, Held
<1>11. run' \in [Executors -> RunRecord]
    BY <1>1, <1>3, <1>4
<1>12. \A f \in Executors : \/ run'[f] = run[f] \/ run'[f] = Idle
                           \/ /\ run[f].at = "idle" /\ run'[f].at = "lock"
                              /\ run'[f].i \in DOMAIN intents
                              /\ run'[f].seen.backup = Missing
    BY <1>1, <1>3, <1>4
<1>13. Touches
    BY <1>6, <1>8, <1>9, <1>10, <1>11, <1>12 DEF Touches, ClaimIntent
<1> QED BY <1>13, TouchKeeps

LEMMA LockDb ==
    ASSUME DbInv, NEW e \in Executors, Lock(e)
    PROVE  DbInv'
<1>1. PICK i \in DOMAIN intents : i = run[e].i
    BY RunFacts DEF Lock, At
<1>2. /\ intents[i] \in Intent /\ RowKnown(intents[i], recorded) /\ intents \in Seq(Intent)
      /\ run \in [Executors -> RunRecord] /\ run[e] \in RunRecord /\ run[e].at = "lock"
    BY <1>1, RunFacts DEF Lock, At, DbInv, DbTyped
<1>3. intents' = [intents EXCEPT ![i] = intents[i]] /\ pending' = pending
    BY <1>2 DEF Lock, dbVars
<1>4. RestKept /\ recorded' = recorded
    BY RestUnchanged DEF Lock, dbVars, counters
<1>5. CASE LockTaken(e) \/ ~Holds(e, run[e].i)
  <2>1. run' = [run EXCEPT ![e] = Idle] /\ ~AtWork(Idle)
      BY <1>5, IdleTyped DEF Lock, Leave, AtWork
  <2>2. WorkerStep(e, intents[i], Idle)
      BY <1>1, <1>2, <1>3, <1>4, <2>1, IdleTyped DEF WorkerStep, IsOpen, IsOpenRow
  <2> QED BY <2>2, <1>2, IdleTyped, WorkerMoves
<1>6. CASE ~LockTaken(e) /\ Holds(e, i)
  <2>1. PICK step : step = FirstStep(intents[i].status)
      OBVIOUS
  <2>2. IsOpen(i) /\ intents[i].owner = e /\ e # NoOwner
      BY <1>6, VaultWriterAssumption DEF Holds
  <2>3. /\ step \in {"capture", "install", "finalize", "observe"}
        /\ step = "capture" => intents[i].status = "pending"
        /\ step = "install" => intents[i].status = "captured"
        /\ step = "finalize" => intents[i].status = "installed"
        /\ step = "observe" => intents[i].status = "recovery_required"
      BY <2>1, <2>2 DEF FirstStep, IsOpen, OpenStatuses
  <2>4. PICK r : r = [run[e] EXCEPT !.at = step]
      OBVIOUS
  <2>5. r \in RunRecord /\ r.at = step /\ r.i = i /\ r.seen = run[e].seen
      BY <1>1, <1>2, <2>3, <2>4 DEF RunRecord, Steps
  <2>6. run' = [run EXCEPT ![e] = r]
      BY <1>1, <1>2, <1>6, <2>1, <2>4 DEF Lock, Goto
  <2>7. run[e].seen.backup = Missing
      BY <1>2, RunFacts
  <2>8. Fits(r, intents[i])
      BY <2>2, <2>3, <2>5, <2>7 DEF Fits, InPhase, Held, IsOpen, IsOpenRow
  <2>9. WorkerStep(e, intents[i], r)
      BY <1>1, <1>2, <1>3, <1>4, <1>6, <2>3, <2>5, <2>6, <2>8
         DEF WorkerStep, IsOpen, IsOpenRow
  <2> QED BY <2>5, <2>9, <1>2, WorkerMoves
<1> QED BY <1>1, <1>5, <1>6

LEMMA LoseLeaseDb ==
    ASSUME DbInv, NEW e \in Executors, LoseLease(e)
    PROVE  DbInv'
<1>1. AtWork(run[e])
    BY DEF LoseLease, Leased, AtWork
<1>2. DbStill(e) /\ Leave(e)
    BY DEF LoseLease, DbStill, dbVars, counters
<1> QED BY <1>1, <1>2, LeaveKeeps

\* Where a run comes to after a capture, it has what was expected, or nothing.
LEMMA CaptureDb ==
    ASSUME DbInv, FileTyped, NEW e \in Executors, Capture(e)
    PROVE  DbInv'
<1>1. PICK i \in DOMAIN intents : i = run[e].i
    BY RunFacts DEF Capture, Renewing, At
<1>2. AtWork(run[e]) /\ DbStill(e) /\ run[e].at = "capture"
    BY DEF Capture, Renewing, At, AtWork, DbStill, counters
<1>3. intents[i] \in Intent /\ intents[i].status \in {"pending", "recovery_required"}
    BY <1>1, <1>2, RunFacts DEF InPhase
<1>4. ASSUME NEW step \in {"fail", "link"}, Goto(e, step) PROVE DbInv'
    BY <1>1, <1>2, <1>3, <1>4, GotoKeeps DEF Steps, InPhase, HasCaptured
<1>5. PICK b : b = disk[Backup(i)]
    OBVIOUS
<1>6. b # NoFile => data[b] \in Mark
    BY <1>1, <1>5, NamesOfIntents DEF FileTyped
<1>7. ASSUME b # NoFile, Got(e, data[b]), intents[i].expected # Missing => data[b] = intents[i].expected
      PROVE  DbInv'
    BY <1>1, <1>2, <1>3, <1>6, <1>7, GotKeeps DEF Held
<1>8. ASSUME Got(e, Missing) PROVE DbInv'
  <2>1. Missing \in Mark /\ Held(intents[i], Missing)
      BY DEF Mark, Held
  <2> QED BY <1>1, <1>2, <1>3, <1>8, <2>1, GotKeeps
<1> QED BY <1>1, <1>4, <1>5, <1>7, <1>8 DEF Capture

LEMMA LinkBackupDb ==
    ASSUME DbInv, NEW e \in Executors, LinkBackup(e)
    PROVE  DbInv'
<1>1. AtWork(run[e]) /\ DbStill(e) /\ run[e].at = "link"
    BY DEF LinkBackup, At, AtWork, DbStill, dbVars, counters
<1>2. intents[run[e].i].status \in {"pending", "recovery_required"}
    BY <1>1, RunFacts DEF InPhase
<1>3. PICK step \in {"fail", "grab"} : Goto(e, step)
    BY DEF LinkBackup
<1> QED BY <1>1, <1>2, <1>3, GotoKeeps DEF Steps, InPhase, HasCaptured

LEMMA GrabDb ==
    ASSUME DbInv, NEW e \in Executors, Grab(e)
    PROVE  DbInv'
<1>1. AtWork(run[e]) /\ DbStill(e) /\ run[e].at = "grab"
    BY DEF Grab, At, AtWork, DbStill, dbVars, counters
<1>2. intents[run[e].i].status \in {"pending", "recovery_required"}
    BY <1>1, RunFacts DEF InPhase
<1>3. PICK step \in {"fail", "settle"} : Goto(e, step)
    BY DEF Grab
<1> QED BY <1>1, <1>2, <1>3, GotoKeeps DEF Steps, InPhase, HasCaptured

LEMMA SettleDb ==
    ASSUME DbInv, FileTyped, NEW e \in Executors, Settle(e)
    PROVE  DbInv'
<1>1. PICK i \in DOMAIN intents : i = run[e].i
    BY RunFacts DEF Settle, At
<1>2. AtWork(run[e]) /\ DbStill(e) /\ run[e].at = "settle"
    BY DEF Settle, At, AtWork, DbStill, dbVars, counters
<1>3. intents[i] \in Intent /\ intents[i].status \in {"pending", "recovery_required"}
    BY <1>1, <1>2, RunFacts DEF InPhase
<1>4. ASSUME Goto(e, "fail") PROVE DbInv'
    BY <1>1, <1>2, <1>3, <1>4, GotoKeeps DEF Steps, InPhase, HasCaptured
<1>5. ASSUME NEW x, Got(e, x), x = intents[i].expected PROVE DbInv'
  <2>1. x \in Mark /\ Held(intents[i], x)
      BY <1>3, <1>5 DEF Intent, Held
  <2> QED BY <1>1, <1>2, <1>3, <1>5, <2>1, GotKeeps
<1> QED BY <1>1, <1>4, <1>5 DEF Settle

LEMMA InstallDb ==
    ASSUME DbInv, NEW e \in Executors, Install(e)
    PROVE  DbInv'
<1>1. AtWork(run[e]) /\ DbStill(e) /\ run[e].at = "install"
    BY DEF Install, Renewing, At, AtWork, DbStill, counters
<1>2. /\ intents[run[e].i].status = "captured"
      /\ Held(intents[run[e].i], run[e].seen.backup)
    BY <1>1, RunFacts DEF InPhase, HasCaptured
<1>3. PICK step \in {"fail", "stage", "advance"} : Goto(e, step)
    BY DEF Install
<1> QED BY <1>1, <1>2, <1>3, GotoKeeps DEF Steps, InPhase

LEMMA StageDb ==
    ASSUME DbInv, NEW e \in Executors, Stage(e)
    PROVE  DbInv'
<1>1. AtWork(run[e]) /\ DbStill(e) /\ run[e].at = "stage"
    BY DEF Stage, Renewing, At, AtWork, DbStill, counters
<1>2. /\ intents[run[e].i].status \in {"captured", "recovery_required"}
      /\ Held(intents[run[e].i], run[e].seen.backup)
    BY <1>1, RunFacts DEF InPhase, HasCaptured
<1>3. PICK step \in {"fail", "write", "place"} : Goto(e, step)
    BY DEF Stage
<1> QED BY <1>1, <1>2, <1>3, GotoKeeps DEF Steps, InPhase

LEMMA WriteDb ==
    ASSUME DbInv, NEW e \in Executors, Write(e) \/ Place(e)
    PROVE  DbInv'
<1>1. AtWork(run[e]) /\ DbStill(e) /\ run[e].at \in {"write", "place"}
    BY DEF Write, Place, At, AtWork, DbStill, dbVars, counters
<1>2. /\ intents[run[e].i].status \in {"captured", "recovery_required"}
      /\ Held(intents[run[e].i], run[e].seen.backup)
    BY <1>1, RunFacts DEF InPhase, HasCaptured
<1>3. PICK step \in {"fail", "place", "advance"} : Goto(e, step)
    BY DEF Write, Place
<1> QED BY <1>1, <1>2, <1>3, GotoKeeps DEF Steps, InPhase

\* The transactions that end a phase: what is stored as captured is what the run held.
LEMMA PhaseDb ==
    ASSUME DbInv, NEW e \in Executors, NEW step \in Steps \ {"idle", "lock"},
           NEW next \in Steps, NEW status \in OpenStatuses, NEW x \in Mark,
           Phase(e, step, next, status, x),
           Held(intents[run[e].i], x),
           <<next, status>> = <<"install", "captured">> \/ <<next, status>> = <<"finalize", "installed">>,
           step \in HasCaptured
    PROVE  DbInv'
<1>1. PICK i \in DOMAIN intents : i = run[e].i
    BY RunFacts DEF Phase, At
<1>2. /\ AtWork(run[e]) /\ run[e].at = step /\ intents[i] \in Intent /\ IsOpen(i)
      /\ intents[i].owner # NoOwner /\ RowKnown(intents[i], recorded)
      /\ Held(intents[i], run[e].seen.backup)
      /\ run[e] \in RunRecord /\ run \in [Executors -> RunRecord] /\ intents \in Seq(Intent)
    BY <1>1, RunFacts DEF Phase, At, AtWork, DbInv, DbTyped
<1>3. PICK w : w = [[[intents[i] EXCEPT !.lapsed = FALSE] EXCEPT !.status = status]
                        EXCEPT !.captured = x]
    OBVIOUS
<1>4. /\ w \in Intent /\ w.status = status /\ w.rev = intents[i].rev
      /\ w.owner = intents[i].owner /\ w.expected = intents[i].expected
      /\ w.captured = x /\ w.baseline = intents[i].baseline
    BY <1>2, <1>3 DEF Intent, Statuses
<1>5. intents' = [intents EXCEPT ![i] = w]
    BY <1>1, <1>2, <1>3 DEF Phase
<1>6. PICK r : r = [run[e] EXCEPT !.at = next]
    OBVIOUS
<1>7. r \in RunRecord /\ r.at = next /\ r.i = i /\ r.seen = run[e].seen
    BY <1>1, <1>2, <1>6 DEF RunRecord
<1>8. run' = [run EXCEPT ![e] = r]
    BY <1>2, <1>6 DEF Phase, Goto
<1>9. RestKept /\ recorded' = recorded /\ pending' = pending
    BY RestUnchanged DEF Phase, counters
<1>10. RowKnown(w, recorded') /\ IsOpenRow(w)
    BY <1>1, <1>2, <1>4, <1>9 DEF RowKnown, Held, IsOpenRow
<1>11. Fits(r, w)
    BY <1>2, <1>4, <1>7, <1>10 DEF Fits, InPhase, Held
<1>12. WorkerStep(e, w, r)
    BY <1>1, <1>2, <1>4, <1>5, <1>7, <1>8, <1>9, <1>10, <1>11
       DEF WorkerStep, IsOpen, IsOpenRow, AtWork
<1> QED BY <1>4, <1>7, <1>12, WorkerMoves

LEMMA RecordCapturedDb ==
    ASSUME DbInv, NEW e \in Executors, RecordCaptured(e)
    PROVE  DbInv'
<1>1. run[e].at = "record" /\ AtWork(run[e])
    BY DEF RecordCaptured, Phase, At, AtWork
<1>2. run[e] \in RunRecord /\ Held(intents[run[e].i], run[e].seen.backup)
    BY <1>1, RunFacts DEF HasCaptured
<1>3. run[e].seen.backup \in Mark
    BY <1>2 DEF RunRecord, Sight
<1> QED BY <1>2, <1>3, PhaseDb DEF RecordCaptured, Steps, OpenStatuses, HasCaptured

LEMMA AdvanceDb ==
    ASSUME DbInv, NEW e \in Executors, Advance(e)
    PROVE  DbInv'
<1>1. run[e].at = "advance" /\ AtWork(run[e])
    BY DEF Advance, Phase, At, AtWork
<1>2. /\ run[e] \in RunRecord /\ Held(intents[run[e].i], run[e].seen.backup)
      /\ intents[run[e].i] \in Intent /\ RowKnown(intents[run[e].i], recorded)
    BY <1>1, RunFacts DEF HasCaptured
<1>3. PICK x : x = IF intents[run[e].i].status = "captured" THEN intents[run[e].i].captured
                   ELSE run[e].seen.backup
    OBVIOUS
<1>4. x \in Mark /\ Held(intents[run[e].i], x)
    BY <1>2, <1>3 DEF RunRecord, Sight, Intent, RowKnown
<1>5. Phase(e, "advance", "finalize", "installed", x)
    BY <1>3 DEF Advance
<1> QED BY <1>4, <1>5, PhaseDb DEF Steps, OpenStatuses, HasCaptured

\* A run at work at an intent leaves it: nobody else is at work there.
LEMMA LeavingLetsGo ==
    ASSUME DbInv, NEW e \in Executors, AtWork(run[e]), Leave(e)
    PROVE  LetsGo(run[e].i)
<1>1. run \in [Executors -> RunRecord] /\ run' = [run EXCEPT ![e] = Idle]
    BY DEF DbInv, DbTyped, Leave
<1>2. \A f \in Executors : f # e /\ AtWork(run[f]) => run[f].i # run[e].i
    BY DEF DbInv, Apart
<1> QED BY <1>1, <1>2, IdleTyped DEF LetsGo

LEMMA FinalizeDb ==
    ASSUME DbInv, NEW e \in Executors, Finalize(e)
    PROVE  DbInv'
<1>1. PICK i \in DOMAIN intents : i = run[e].i
    BY RunFacts DEF Finalize, At
<1>2. /\ AtWork(run[e]) /\ intents[i] \in Intent /\ IsOpen(i)
      /\ RowKnown(intents[i], recorded) /\ intents \in Seq(Intent)
      /\ intents[i].status = "installed"
    BY <1>1, RunFacts DEF Finalize, At, AtWork, DbInv, DbTyped, InPhase
<1>3. CASE intents' = intents /\ Goto(e, "fail") /\ UNCHANGED <<current, pending, life>>
  <2>1. DbStill(e)
      BY <1>3 DEF DbStill, Finalize, counters
  <2> QED BY <1>1, <1>2, <1>3, <2>1, GotoKeeps DEF Steps, InPhase, HasCaptured
<1>4. CASE /\ current' = intents[i].rev /\ pending' = None /\ life' = "active" /\ Leave(e)
           /\ intents' = [intents EXCEPT ![i] = [Released(@) EXCEPT !.status = "applied",
                                                     !.baseline = intents[i].captured]]
  <2>1. PICK v : v = Released(intents[i])
      OBVIOUS
  <2>2. /\ v \in Intent /\ v.rev = intents[i].rev /\ v.expected = intents[i].expected
        /\ v.captured = intents[i].captured
      BY <2>1, <1>2, ReleasedTyped
  <2>3. PICK w : w = [[v EXCEPT !.status = "applied"] EXCEPT !.baseline = intents[i].captured]
      OBVIOUS
  <2>4. /\ w \in Intent /\ w.status = "applied" /\ w.rev = intents[i].rev
        /\ w.expected = intents[i].expected /\ w.captured = intents[i].captured
        /\ w.baseline = intents[i].captured
      BY <2>2, <2>3, <1>2 DEF Intent, Statuses
  <2>5. intents' = [intents EXCEPT ![i] = w]
      BY <1>4, <2>1, <2>3
  <2>6. RestKept /\ recorded' = recorded
      BY <1>4, <1>2 DEF RestKept, RestTyped, Finalize, counters, DbInv, DbTyped, Intent
  <2>7. RowKnown(w, recorded') /\ ~IsOpenRow(w)
      BY <1>2, <2>4, <2>6 DEF RowKnown, Held, IsOpenRow, OpenStatuses, Intent
  <2>8. LetsGo(i)
      BY <1>1, <1>2, <1>4, LeavingLetsGo
  <2>9. Closes(i, w)
      BY <1>2, <1>4, <2>5, <2>6, <2>7, <2>8 DEF Closes
  <2> QED BY <2>4, <2>9, CloseKeeps
<1> QED BY <1>1, <1>3, <1>4 DEF Finalize

LEMMA MarkRecoveryDb ==
    ASSUME DbInv, NEW e \in Executors, MarkRecovery(e)
    PROVE  DbInv'
<1>1. PICK i \in DOMAIN intents : i = run[e].i
    BY RunFacts DEF MarkRecovery, At
<1>2. /\ AtWork(run[e]) /\ intents[i] \in Intent /\ IsOpen(i) /\ run[e].at # "idle"
      /\ RowKnown(intents[i], recorded) /\ intents \in Seq(Intent)
    BY <1>1, RunFacts DEF MarkRecovery, At, AtWork, DbInv, DbTyped
<1>3. PICK w : w = [intents[i] EXCEPT !.status = "recovery_required"]
    OBVIOUS
<1>4. /\ w \in Intent /\ w.status = "recovery_required" /\ w.rev = intents[i].rev
      /\ w.expected = intents[i].expected /\ w.captured = intents[i].captured
      /\ w.baseline = intents[i].baseline
    BY <1>2, <1>3 DEF Intent, Statuses, OpenStatuses
<1>5. intents' = [intents EXCEPT ![i] = w] /\ run' = [run EXCEPT ![e] = Idle]
    BY <1>1, <1>2, <1>3 DEF MarkRecovery, Leave
<1>6. RestKept /\ recorded' = recorded /\ pending' = pending
    BY RestUnchanged DEF MarkRecovery, counters
<1>7. RowKnown(w, recorded') /\ IsOpenRow(w)
    BY <1>2, <1>4, <1>6 DEF RowKnown, Held, IsOpenRow, OpenStatuses
<1>8. WorkerStep(e, w, Idle)
    BY <1>1, <1>2, <1>5, <1>6, <1>7, IdleTyped DEF WorkerStep, IsOpen, IsOpenRow, AtWork
<1> QED BY <1>4, <1>8, IdleTyped, WorkerMoves

LEMMA ObserveDb ==
    ASSUME DbInv, FileTyped, NEW e \in Executors, Observe(e)
    PROVE  DbInv'
<1>1. PICK i \in DOMAIN intents : i = run[e].i
    BY RunFacts DEF Observe, Renewing, At
<1>2. /\ AtWork(run[e]) /\ DbStill(e) /\ run[e].at = "observe"
      /\ run[e] \in RunRecord /\ run \in [Executors -> RunRecord]
    BY RunFacts DEF Observe, Renewing, At, AtWork, DbStill, counters, DbInv, DbTyped
<1>3. intents[i].status = "recovery_required"
    BY <1>1, <1>2, RunFacts DEF InPhase
<1>4. PICK s : /\ s \in Sight
               /\ run' = [run EXCEPT ![e].at = "recover", ![e].seen = s]
  <2>1. /\ Content(Target) \in Mark /\ Content(Backup(i)) \in Mark
        /\ Content(Staged(i)) \in Mark /\ Content(Claim(i)) \in Mark /\ Missing \in Mark
      BY <1>1, NamesOfIntents, ContentTyped DEF Mark
  <2>2. PICK c \in Mark : c = IF disk[Claim(i)] \in {disk[Target], disk[Backup(i)]}
                              THEN Missing ELSE Content(Claim(i))
      BY <2>1
  <2>3. [target |-> Content(Target), backup |-> Content(Backup(i)),
         staged |-> Content(Staged(i)), claim |-> c] \in Sight
      BY <2>1 DEF Sight
  <2> QED BY <1>1, <2>2, <2>3 DEF Observe
<1>5. PICK r : r = [[run[e] EXCEPT !.at = "recover"] EXCEPT !.seen = s]
    OBVIOUS
<1>6. r \in RunRecord /\ r.at = "recover" /\ r.i = i
    BY <1>1, <1>2, <1>4, <1>5 DEF RunRecord, Steps
<1>7. run' = [run EXCEPT ![e] = r]
    BY <1>2, <1>4, <1>5
<1>8. InPhase(r, intents[i])
    BY <1>3, <1>6 DEF InPhase
<1> QED BY <1>1, <1>2, <1>6, <1>7, <1>8, RunGoesOn DEF HasCaptured

LEMMA RecoverGoesOnDb ==
    ASSUME DbInv, NEW e \in Executors, RecoverIntended(e) \/ RecoverExpected(e)
    PROVE  DbInv'
<1>1. PICK i \in DOMAIN intents : i = run[e].i
    BY RunFacts DEF RecoverIntended, RecoverExpected, Renewing, At
<1>2. AtWork(run[e]) /\ DbStill(e) /\ run[e].at = "recover" /\ UnknownSeen(i, run[e].seen) = {}
    BY <1>1 DEF RecoverIntended, RecoverExpected, Renewing, At, AtWork, DbStill, counters
<1>3. intents[i].status = "recovery_required"
    BY <1>1, <1>2, RunFacts DEF InPhase
<1>4. Held(intents[i], run[e].seen.backup)
    BY <1>2 DEF UnknownSeen, Unknown, Held
<1>5. PICK step \in {"advance", "fail", "stage", "capture"} : Goto(e, step)
    BY DEF RecoverIntended, RecoverExpected
<1> QED BY <1>1, <1>2, <1>3, <1>4, <1>5, GotoKeeps DEF Steps, InPhase

LEMMA RecoverMissingDb ==
    ASSUME DbInv, NEW e \in Executors, RecoverMissing(e)
    PROVE  DbInv'
<1>1. PICK i \in DOMAIN intents : i = run[e].i
    BY RunFacts DEF RecoverMissing, At
<1>2. /\ AtWork(run[e]) /\ intents[i] \in Intent /\ IsOpen(i)
      /\ RowKnown(intents[i], recorded) /\ intents \in Seq(Intent)
    BY <1>1, RunFacts DEF RecoverMissing, At, AtWork, DbInv, DbTyped
<1>3. PICK v : v = Released(intents[i])
    OBVIOUS
<1>4. /\ v \in Intent /\ v.rev = intents[i].rev /\ v.expected = intents[i].expected
      /\ v.captured = intents[i].captured /\ v.baseline = intents[i].baseline
    BY <1>2, <1>3, ReleasedTyped
<1>5. PICK w : w = [v EXCEPT !.status = "failed"]
    OBVIOUS
<1>6. /\ w \in Intent /\ w.status = "failed" /\ w.rev = intents[i].rev
      /\ w.expected = intents[i].expected /\ w.captured = intents[i].captured
      /\ w.baseline = intents[i].baseline
    BY <1>4, <1>5 DEF Intent, Statuses
<1>7. intents' = [intents EXCEPT ![i] = w]
    BY <1>1, <1>3, <1>5 DEF RecoverMissing
<1>8. RestKept /\ recorded' = recorded
    BY DEF RestKept, RestTyped, RecoverMissing, counters, DbInv, DbTyped
<1>9. RowKnown(w, recorded') /\ ~IsOpenRow(w)
    BY <1>2, <1>6, <1>8 DEF RowKnown, Held, IsOpenRow, OpenStatuses
<1>10. LetsGo(i)
    BY <1>1, <1>2, LeavingLetsGo DEF RecoverMissing
<1>11. Closes(i, w)
    BY <1>2, <1>7, <1>8, <1>9, <1>10 DEF Closes, RecoverMissing
<1> QED BY <1>6, <1>11, CloseKeeps

LEMMA HandOffKeeps ==
    ASSUME DbInv, NEW i \in DOMAIN intents, IsOpen(i), NEW rev \in Nat, NEW x \in Mark,
           HandOff(i, rev, x), LetsGo(i), RestKept
    PROVE  DbInv'
<1>1. /\ intents[i] \in Intent /\ intents \in Seq(Intent) /\ RowKnown(intents[i], recorded)
      /\ recorded \subseteq recorded'
    BY IntentNumbers DEF DbInv, DbTyped, RowsKnown, RestKept
<1>2. PICK u : u = Released(intents[i])
    OBVIOUS
<1>3. /\ u \in Intent /\ u.rev = intents[i].rev /\ u.expected = intents[i].expected
      /\ u.captured = intents[i].captured /\ u.baseline = intents[i].baseline
    BY <1>1, <1>2, ReleasedTyped
<1>4. PICK w : w = [u EXCEPT !.status = "superseded"]
    OBVIOUS
<1>5. /\ w \in Intent /\ w.status = "superseded" /\ w.rev = intents[i].rev
      /\ w.expected = intents[i].expected /\ w.captured = intents[i].captured
      /\ w.baseline = intents[i].baseline
    BY <1>3, <1>4 DEF Intent, Statuses
<1>6. PICK v : v = NewIntent(rev, x)
    OBVIOUS
<1>7. v \in Intent /\ RowKnown(v, recorded) /\ v.status = "pending"
    BY <1>6, NewTyped
<1>8. intents' = Append([intents EXCEPT ![i] = w], v)
    BY <1>2, <1>4, <1>6 DEF HandOff
<1>9. RowKnown(w, recorded) /\ ~IsOpenRow(w) /\ IsOpenRow(v)
    BY <1>1, <1>5, <1>7 DEF RowKnown, Held, IsOpenRow, OpenStatuses
<1>10. RowKnown(w, recorded') /\ RowKnown(v, recorded')
    BY <1>1, <1>7, <1>9, KnownStays
<1>11. HandsOver(i, w, v)
    BY <1>8, <1>9, <1>10 DEF HandsOver, HandOff
<1> QED BY <1>5, <1>7, <1>11, HandOverKeeps

LEMMA UnknownTyped ==
    ASSUME NEW seen \in Sight, NEW i
    PROVE  UnknownSeen(i, seen) \subseteq Contents
    BY DEF UnknownSeen, Unknown, UnknownStaged, Sight, Mark

LEMMA RecoverUnknownDb ==
    ASSUME DbInv, NEW e \in Executors, RecoverUnknown(e)
    PROVE  DbInv'
<1>1. PICK i \in DOMAIN intents : i = run[e].i
    BY RunFacts DEF RecoverUnknown, At
<1>2. /\ AtWork(run[e]) /\ run[e].at # "idle" /\ intents[i] \in Intent /\ IsOpen(i)
      /\ RowKnown(intents[i], recorded) /\ intents \in Seq(Intent)
      /\ run[e] \in RunRecord
    BY <1>1, RunFacts DEF RecoverUnknown, At, AtWork, DbInv, DbTyped
<1>3. PICK seen \in Sight : seen = run[e].seen
    BY <1>2 DEF RunRecord
<1>4. /\ recorded \subseteq recorded' /\ recorded' \subseteq Contents
      /\ Leave(e) /\ UNCHANGED <<current, edits>>
    BY <1>1, <1>3, UnknownTyped DEF RecoverUnknown, DbInv, DbTyped, counters
<1>5. PICK u : u = Released(intents[i])
    OBVIOUS
<1>6. /\ u \in Intent /\ u.status = intents[i].status
      /\ u.rev = intents[i].rev /\ u.expected = intents[i].expected
      /\ u.captured = intents[i].captured /\ u.baseline = intents[i].baseline
    BY <1>2, <1>5, ReleasedTyped
\* The intent stays open, and is left to the human.
<1>7. ASSUME NEW w \in Intent, intents' = [intents EXCEPT ![i] = w], pending' = pending,
             life' = "invalid", newest' \in Nat, w.status = intents[i].status,
             w.rev = intents[i].rev, w.expected = intents[i].expected,
             w.captured = intents[i].captured, w.baseline = intents[i].baseline
      PROVE  DbInv'
  <2>1. RestKept
      BY <1>4, <1>7 DEF RestKept, RestTyped, DbInv, DbTyped
  <2>2. RowKnown(w, recorded)
      BY <1>2, <1>7 DEF RowKnown, Held
  <2>3. RowKnown(w, recorded') /\ (IsOpenRow(w) <=> IsOpen(i))
      BY <1>4, <1>7, <2>2, KnownStays DEF IsOpenRow, IsOpen
  <2>4. WorkerStep(e, w, Idle)
      BY <1>1, <1>2, <1>4, <1>7, <2>1, <2>3, IdleTyped DEF WorkerStep, Leave, AtWork
  <2> QED BY <2>4, IdleTyped, WorkerMoves
<1>8. newest \in Nat
    BY DEF DbInv, DbTyped
<1>9. CASE /\ life' = "invalid" /\ intents' = [intents EXCEPT ![i] = Released(@)]
           /\ UNCHANGED <<pending, newest>>
    BY <1>5, <1>6, <1>7, <1>8, <1>9
<1>10. CASE /\ life' = "invalid" /\ newest' \in {newest, newest + 1} /\ UNCHANGED pending
            /\ \E q \in {u.review,
                         [cand |-> newest', target |-> seen.target, backup |-> seen.backup]} :
                  intents' = [intents EXCEPT ![i] = [u EXCEPT !.review = q]]
  <2>1. newest' \in Nat
      BY <1>8, <1>10
  <2>2. PICK q \in Review : intents' = [intents EXCEPT ![i] = [u EXCEPT !.review = q]]
    <3>1. [cand |-> newest', target |-> seen.target, backup |-> seen.backup] \in Review
        BY <2>1 DEF Review, Sight
    <3>2. u.review \in Review
        BY <1>6 DEF Intent
    <3> QED BY <3>1, <3>2, <1>10
  <2>3. PICK w : w = [u EXCEPT !.review = q]
      OBVIOUS
  <2>4. /\ w \in Intent /\ w.status = intents[i].status
        /\ w.rev = intents[i].rev /\ w.expected = intents[i].expected
        /\ w.captured = intents[i].captured /\ w.baseline = intents[i].baseline
      BY <2>3, <1>6 DEF Intent
  <2> QED BY <2>1, <2>2, <2>3, <2>4, <1>7, <1>10
<1>11. CASE newest' = newest + 1 /\ HandOff(i, newest', seen.target) /\ UNCHANGED life
  <2>1. PICK rev : rev = newest'
      OBVIOUS
  <2>2. rev \in Nat /\ seen.target \in Mark /\ HandOff(i, rev, seen.target)
      BY <2>1, <1>8, <1>11 DEF Sight
  <2>3. LetsGo(i)
      BY <1>1, <1>2, <1>4, LeavingLetsGo
  <2>4. RestKept
      BY <1>4, <1>11, <2>1, <2>2 DEF RestKept, RestTyped, DbInv, DbTyped
  <2> QED BY <2>2, <2>3, <2>4, <1>2, HandOffKeeps
<1>12. CASE /\ life' = "invalid" /\ UNCHANGED pending
            /\ \E same \in BOOLEAN :
                 /\ newest' = IF same THEN newest ELSE newest + 1
                 /\ intents' = [intents EXCEPT
                      ![i] = [Released(@) EXCEPT
                                !.review = IF same THEN intents[i].review
                                           ELSE [cand |-> newest', target |-> seen.target,
                                                 backup |-> seen.backup]]]
  <2>1. PICK same \in BOOLEAN :
          /\ newest' = IF same THEN newest ELSE newest + 1
          /\ intents' = [intents EXCEPT
               ![i] = [u EXCEPT !.review = IF same THEN intents[i].review
                                           ELSE [cand |-> newest', target |-> seen.target,
                                                 backup |-> seen.backup]]]
      BY <1>5, <1>12
  <2>2. u.review = intents[i].review
      BY <1>2, <1>5, ReleasedTyped
  <2>3. PICK q : q = IF same THEN intents[i].review
                     ELSE [cand |-> newest', target |-> seen.target, backup |-> seen.backup]
      OBVIOUS
  <2> QED BY <2>1, <2>2, <2>3, <1>10, <1>12
<1>13. \/ /\ life' = "invalid" /\ intents' = [intents EXCEPT ![i] = Released(@)]
          /\ UNCHANGED <<pending, newest>>
       \/ /\ life' = "invalid" /\ UNCHANGED pending
          /\ \E same \in BOOLEAN :
               /\ newest' = IF same THEN newest ELSE newest + 1
               /\ intents' = [intents EXCEPT
                    ![i] = [Released(@) EXCEPT
                              !.review = IF same THEN intents[i].review
                                         ELSE [cand |-> newest', target |-> seen.target,
                                               backup |-> seen.backup]]]
       \/ newest' = newest + 1 /\ HandOff(i, newest', seen.target) /\ UNCHANGED life
  <2>1. PICK same \in BOOLEAN : same = (/\ intents[i].review.target = seen.target
                                       /\ intents[i].review.backup = seen.backup)
      OBVIOUS
  <2> QED BY <1>1, <1>3, <2>1 DEF RecoverUnknown
<1> QED BY <1>9, <1>11, <1>12, <1>13

LEMMA ResolveDb ==
    ASSUME DbInv, NEW i \in DOMAIN intents, Resolve(i)
    PROVE  DbInv'
<1>1. intents[i] \in Intent /\ intents[i].review \in Review /\ IsOpen(i)
    BY IntentNumbers DEF Intent, Resolve, IsOpen, OpenStatuses
<1>2. PICK rev \in {intents[i].review.cand, current} \ {None} :
         HandOff(i, rev, intents[i].review.target)
    BY DEF Resolve
<1>3. rev \in Nat /\ intents[i].review.target \in Mark
    BY <1>1, <1>2 DEF Review, DbInv, DbTyped
<1>4. LetsGo(i)
  <2>1. run \in [Executors -> RunRecord] /\ UNCHANGED run /\ intents[i].owner = NoOwner
      BY DEF DbInv, DbTyped, Resolve
  <2>2. \A f \in Executors : AtWork(run[f]) => run[f].i # i
      BY <2>1, RunFacts
  <2> QED BY <2>1, <2>2 DEF LetsGo
<1>5. RestKept
    BY RestUnchanged DEF Resolve
<1> QED BY <1>1, <1>2, <1>3, <1>4, <1>5, HandOffKeeps

\* Changes of one row, and of nothing else that counts.
LEMMA RowTouched ==
    ASSUME DbInv, NEW i \in DOMAIN intents, NEW w \in Intent,
           intents' = [intents EXCEPT ![i] = w], UNCHANGED <<run, pending>>, RestKept,
           w.status = intents[i].status, w.rev = intents[i].rev,
           w.expected = intents[i].expected, w.owner = intents[i].owner,
           RowKnown(w, recorded')
    PROVE  DbInv'
<1>1. intents \in Seq(Intent) /\ run \in [Executors -> RunRecord]
    BY DEF DbInv, DbTyped
<1>2. /\ intents' \in Seq(Intent) /\ Len(intents') = Len(intents) /\ intents'[i] = w
      /\ \A j \in DOMAIN intents : j # i => intents'[j] = intents[j]
    BY <1>1
<1>3. \A j \in DOMAIN intents : RowKnown(intents[j], recorded')
    BY KnownStays DEF DbInv, RowsKnown, RestKept
<1>4. Touches
    BY <1>1, <1>2, <1>3 DEF Touches
<1> QED BY <1>4, TouchKeeps

LEMMA ReconcileBackupDb ==
    ASSUME DbInv, FileTyped, NEW i \in DOMAIN intents, ReconcileBackup(i)
    PROVE  DbInv'
<1>1. PICK x : x = Content(Backup(i))
    OBVIOUS
<1>2. x \in Contents
    BY <1>1, NamesOfIntents, ContentTyped DEF ReconcileBackup, Mark
<1>3. intents[i] \in Intent /\ RowKnown(intents[i], recorded) /\ intents \in Seq(Intent)
    BY IntentNumbers DEF DbInv, DbTyped, RowsKnown
<1>4. PICK w : w = [intents[i] EXCEPT !.baseline = x]
    OBVIOUS
<1>5. /\ w \in Intent /\ w.status = intents[i].status /\ w.rev = intents[i].rev
      /\ w.expected = intents[i].expected /\ w.owner = intents[i].owner
      /\ w.captured = intents[i].captured /\ w.baseline = x
    BY <1>2, <1>3, <1>4 DEF Intent, Mark
<1>6. intents' = [intents EXCEPT ![i] = w] /\ recorded' = recorded \cup {x}
    BY <1>1, <1>3, <1>4 DEF ReconcileBackup
<1>7. RestKept
    BY <1>2, <1>6 DEF RestKept, RestTyped, ReconcileBackup, counters, DbInv, DbTyped
<1>8. RowKnown(w, recorded')
    BY <1>3, <1>5, <1>6 DEF RowKnown, Held
<1> QED BY <1>5, <1>6, <1>7, <1>8, RowTouched DEF ReconcileBackup

LEMMA ExpireDb ==
    ASSUME DbInv, NEW i \in DOMAIN intents, Expire(i)
    PROVE  DbInv'
<1>1. intents[i] \in Intent /\ RowKnown(intents[i], recorded) /\ intents \in Seq(Intent)
    BY IntentNumbers DEF DbInv, DbTyped, RowsKnown
<1>2. PICK w : w = [intents[i] EXCEPT !.lapsed = TRUE]
    OBVIOUS
<1>3. /\ w \in Intent /\ w.status = intents[i].status /\ w.rev = intents[i].rev
      /\ w.expected = intents[i].expected /\ w.owner = intents[i].owner
      /\ w.captured = intents[i].captured /\ w.baseline = intents[i].baseline
    BY <1>1, <1>2 DEF Intent
<1>4. intents' = [intents EXCEPT ![i] = w] /\ recorded' = recorded
    BY <1>1, <1>2 DEF Expire
<1>5. RestKept
    BY RestUnchanged DEF Expire
<1>6. RowKnown(w, recorded')
    BY <1>1, <1>3, <1>4 DEF RowKnown, Held
<1> QED BY <1>3, <1>4, <1>5, <1>6, RowTouched DEF Expire

\* An executor that is no more leaves its intents to nobody.
LEMMA OrphanedDb ==
    ASSUME DbInv, NEW e \in Executors, Retire(e) \/ Crash(e)
    PROVE  DbInv'
<1>1. /\ intents \in Seq(Intent) /\ run \in [Executors -> RunRecord]
      /\ DOMAIN intents = 1 .. Len(intents) /\ Len(intents) \in Nat
      /\ \A j \in DOMAIN intents : intents[j] \in Intent
    BY IntentNumbers DEF DbInv, DbTyped
<1>2. \A j \in DOMAIN intents : [intents[j] EXCEPT !.owner = Gone] \in Intent
    BY <1>1 DEF Intent
<1>3. intents' = Orphaned(e)
    BY DEF Retire, Crash
<1>4. /\ DOMAIN intents' = 1 .. Len(intents)
      /\ \A j \in DOMAIN intents :
            intents'[j] \in {intents[j], [intents[j] EXCEPT !.owner = Gone]}
      /\ intents' = [j \in DOMAIN intents |-> intents'[j]]
    BY <1>1, <1>3 DEF Orphaned
<1>5. intents' \in Seq(Intent) /\ Len(intents') = Len(intents)
  <2>1. \A j \in DOMAIN intents : intents'[j] \in Intent
      BY <1>1, <1>2, <1>4
  <2> QED BY <2>1, <1>1, <1>4
<1>6. RestKept /\ recorded' = recorded /\ pending' = pending
    BY RestUnchanged DEF Retire, Crash, counters
<1>7. ASSUME NEW j \in DOMAIN intents
      PROVE  /\ intents'[j].status = intents[j].status /\ intents'[j].rev = intents[j].rev
             /\ intents'[j].expected = intents[j].expected
             /\ intents[j].owner # NoOwner => intents'[j].owner # NoOwner
             /\ RowKnown(intents'[j], recorded')
  <2>1. PICK w : w = intents'[j]
      OBVIOUS
  <2>2. /\ w.status = intents[j].status /\ w.rev = intents[j].rev
        /\ w.expected = intents[j].expected /\ w.captured = intents[j].captured
        /\ w.baseline = intents[j].baseline /\ w.owner \in {intents[j].owner, Gone}
      BY <2>1, <1>1, <1>4 DEF Intent
  <2>3. RowKnown(intents[j], recorded) /\ Gone # NoOwner
      BY VaultWriterAssumption DEF DbInv, RowsKnown
  <2> QED BY <2>1, <2>2, <2>3, <1>6 DEF RowKnown, Held
<1>8. /\ run' \in [Executors -> RunRecord]
      /\ \A f \in Executors : run'[f] = run[f] \/ run'[f] = Idle
    BY <1>1, IdleTyped DEF Retire, Crash, Leave
<1>9. Touches
    BY <1>5, <1>6, <1>7, <1>8 DEF Touches
<1> QED BY <1>9, TouchKeeps

LEMMA WorkDb ==
    ASSUME DbInv, FileTyped, NEW e \in Executors, Work(e)
    PROVE  DbInv'
    BY LockDb, LoseLeaseDb, CaptureDb, LinkBackupDb, GrabDb, SettleDb, RecordCapturedDb,
       InstallDb, StageDb, WriteDb, AdvanceDb, FinalizeDb, MarkRecoveryDb, ObserveDb,
       RecoverGoesOnDb, RecoverMissingDb, RecoverUnknownDb
       DEF Work

LEMMA NextDb ==
    ASSUME DbInv, FileTyped, [Next]_vars
    PROVE  DbInv'
<1>1. CASE UNCHANGED vars
  <2>1. /\ UNCHANGED <<intents, pending, run>> /\ RestKept
        /\ run \in [Executors -> RunRecord] /\ intents \in Seq(Intent)
      BY <1>1, RestUnchanged DEF vars, dbVars, counters, DbInv, DbTyped
  <2>2. recorded' = recorded
      BY <1>1 DEF vars, dbVars
  <2>3. Touches
      BY <2>1, <2>2 DEF Touches, DbInv, RowsKnown
  <2> QED BY <2>3, TouchKeeps
<1>2. CASE Next
    BY <1>2, EditorDb, PreparationsDb, WorkDb, OrphanedDb, ClaimIntentDb, ResolveDb,
       ReconcileBackupDb, ExpireDb
       DEF Next
<1> QED BY <1>1, <1>2

----------------------------------------------------------------------------
(* What the steps do to the files.                                         *)

\* One run is at work at a time.
LEMMA OneAtWork ==
    ASSUME DbInv, NEW e \in Executors, NEW f \in Executors, AtWork(run[e]), AtWork(run[f])
    PROVE  e = f
<1>1. /\ run[e].i \in DOMAIN intents /\ IsOpen(run[e].i)
      /\ run[f].i \in DOMAIN intents /\ IsOpen(run[f].i)
    BY RunFacts
<1>2. run[e].i = pending /\ run[f].i = pending
    BY <1>1 DEF DbInv, PendingIsTheOpenIntent
<1> QED BY <1>2 DEF DbInv, Apart

LEMMA FilesMove ==
    ASSUME FileTyped, NEW d \in [Names -> Inodes \cup {NoFile}], NEW c \in [Inodes -> Mark],
           handle' \in Inodes \cup {NoFile}, NEW given, Files(d, c, given),
           \A n \in Linked(d) : c[n] # Missing
    PROVE  /\ FileTyped' /\ disk' = d
           /\ \A n \in Linked(d) : data'[n] = c[n]
           /\ disowned' = (disowned \cup given) \cap Linked(d)
<1>1. Linked(d) \subseteq Inodes /\ Linked(disk') = Linked(d)
    BY DEF Linked, Files
<1>2. \A n \in Linked(d) : data'[n] = c[n]
    BY <1>1 DEF Files
<1>3. data' \in [Inodes -> Mark]
    BY DEF Files, Mark
<1> QED BY <1>1, <1>2, <1>3 DEF FileTyped, Files

\* What a run at intent i may do to the files: give names to them, and take names away from
\* those that have another; and write into one whose writing was cut short.
Service(i) ==
    /\ FileTyped' /\ handle' = handle
    /\ \A n \in Names \ {Target, Backup(i), Claim(i), Staged(i)} : disk'[n] = disk[n]
    /\ \A n \in Linked(disk) : /\ n \in Linked(disk')
                               /\ data'[n] = data[n] \/ (data[n] = Torn /\ data'[n] \in Nat)
    /\ disowned \subseteq disowned'

LEMMA ServiceUnchanged ==
    ASSUME FileTyped, UNCHANGED fileVars, NEW i
    PROVE  Service(i)
    BY DEF Service, FileTyped, fileVars, Linked

\* A name is given to an inode that has one, or taken away.
LEMMA LinkedToMoves ==
    ASSUME FileTyped, NEW name \in Names, NEW inode \in Linked(disk) \cup {NoFile},
           LinkedTo(name, inode)
    PROVE  /\ FileTyped' /\ handle' = handle
           /\ disk' = [disk EXCEPT ![name] = inode]
           /\ Linked(disk') \subseteq Linked(disk)
           /\ \A n \in Linked(disk') : data'[n] = data[n]
           /\ disowned' = disowned \cap Linked(disk')
<1>1. PICK d : d = [disk EXCEPT ![name] = inode]
    OBVIOUS
<1>2. d \in [Names -> Inodes \cup {NoFile}] /\ Linked(d) \subseteq Linked(disk)
    BY <1>1 DEF FileTyped, Linked
<1>3. Files(d, data, {}) /\ handle' = handle
    BY <1>1 DEF LinkedTo, SetFiles
<1>4. data \in [Inodes -> Mark] /\ handle' \in Inodes \cup {NoFile}
    BY <1>3 DEF FileTyped
<1>5. \A n \in Linked(d) : data[n] # Missing
    BY <1>2 DEF FileTyped
<1>6. /\ FileTyped' /\ disk' = d /\ \A n \in Linked(d) : data'[n] = data[n]
      /\ disowned' = (disowned \cup {}) \cap Linked(d)
    BY <1>2, <1>3, <1>4, <1>5, FilesMove
<1> QED BY <1>1, <1>2, <1>3, <1>6

\* No file is lost when the name had none, or its file has another name.
LEMMA LinkedToServes ==
    ASSUME FileTyped, NEW i \in DOMAIN intents,
           NEW name \in Names, name \in {Target, Backup(i), Claim(i), Staged(i)},
           NEW inode \in Linked(disk) \cup {NoFile}, LinkedTo(name, inode),
           disk[name] = NoFile \/ \E m \in Names \ {name} : disk[m] = disk[name]
    PROVE  Service(i)
<1>1. /\ FileTyped' /\ handle' = handle
      /\ disk' = [disk EXCEPT ![name] = inode]
      /\ \A n \in Linked(disk') : data'[n] = data[n]
      /\ disowned' = disowned \cap Linked(disk')
    BY LinkedToMoves
<1>2. disk \in [Names -> Inodes \cup {NoFile}] /\ disowned \subseteq Linked(disk)
    BY DEF FileTyped
<1>3. \A n \in Names \ {Target, Backup(i), Claim(i), Staged(i)} : disk'[n] = disk[n]
    BY <1>1, <1>2
<1>4. Linked(disk) \subseteq Linked(disk')
  <2> SUFFICES ASSUME NEW m \in Names, disk[m] # NoFile PROVE disk[m] \in Linked(disk')
      BY DEF Linked
  <2>1. PICK k \in Names \ {name} : disk[k] = disk[m]
      OBVIOUS
  <2>2. disk'[k] = disk[m]
      BY <1>1, <1>2, <2>1
  <2> QED BY <2>2 DEF Linked
<1> QED BY <1>1, <1>2, <1>3, <1>4 DEF Service

----------------------------------------------------------------------------
(* What a run relies on between two of its calls.                          *)

\* A file nobody else has a name for or a handle on, half written.
Unshared(s) == /\ disk[s] # NoFile /\ data[disk[s]] = Torn /\ disk[s] # handle
               /\ \A n \in Names : disk[n] = disk[s] => n = s

Relies(r) == /\ r.at = "grab" => disk[Claim(r.i)] = NoFile
             /\ r.at = "write" => Unshared(Staged(r.i))

FileInv == FileTyped /\ \A e \in Executors : Relies(run[e])

\* Steps that leave the files alone, and after which no run is about to move or to write one
\* that was not before.
Quiet == /\ UNCHANGED fileVars
         /\ \A f \in Executors : run'[f] = run[f] \/ run'[f].at \notin {"grab", "write"}

LEMMA QuietKeeps ==
    ASSUME FileInv, Quiet
    PROVE  FileInv'
<1>1. FileTyped'
    BY DEF FileInv, Quiet, fileVars, FileTyped, Linked
<1>2. ASSUME NEW f \in Executors PROVE Relies(run[f])'
    BY DEF FileInv, Quiet, fileVars, Relies, Unshared
<1> QED BY <1>1, <1>2 DEF FileInv

\* Steps of the run that is at work.
Alone(e) == \A f \in Executors : f # e => run'[f] = run[f]

LEMMA AloneKeeps ==
    ASSUME DbInv, FileInv, NEW e \in Executors, AtWork(run[e]), Alone(e), FileTyped',
           run'[e].at = "grab" => disk'[Claim(run'[e].i)] = NoFile,
           run'[e].at = "write" => Unshared(Staged(run[e].i))' /\ run'[e].i = run[e].i
    PROVE  FileInv'
<1> SUFFICES ASSUME NEW f \in Executors PROVE Relies(run[f])'
    BY DEF FileInv
<1>1. CASE f = e
    BY <1>1 DEF Relies, Unshared
<1>2. CASE f # e
  <2>1. ~AtWork(run[f]) /\ run'[f] = run[f]
      BY <1>2, OneAtWork DEF Alone
  <2> QED BY <2>1 DEF Relies, AtWork
<1> QED BY <1>1, <1>2

\* Where a run goes.
LEMMA GotoFacts ==
    ASSUME DbInv, NEW e \in Executors, NEW step, Goto(e, step)
    PROVE  Alone(e) /\ run'[e].at = step /\ run'[e].i = run[e].i /\ run'[e].seen = run[e].seen
    BY DEF DbInv, DbTyped, RunRecord, Goto, Alone

LEMMA GotFacts ==
    ASSUME DbInv, NEW e \in Executors, NEW x, Got(e, x)
    PROVE  Alone(e) /\ run'[e].at = "record" /\ run'[e].i = run[e].i
    BY DEF DbInv, DbTyped, RunRecord, Got, Alone

LEMMA LeaveFacts ==
    ASSUME DbInv, NEW e \in Executors, Leave(e)
    PROVE  Alone(e) /\ run'[e] = Idle
    BY DEF DbInv, DbTyped, Leave, Alone

----------------------------------------------------------------------------
(* One lemma per system call: the files.                                   *)

Serves(e) == Service(run[e].i) /\ FileInv'

LEMMA CaptureServes ==
    ASSUME DbInv, FileInv, NEW e \in Executors, Capture(e)
    PROVE  Serves(e)
<1>1. PICK i \in DOMAIN intents : i = run[e].i
    BY RunFacts DEF Capture, Renewing, At
<1>2. AtWork(run[e]) /\ FileTyped
    BY DEF Capture, Renewing, At, AtWork, FileInv
<1>3. {Target, Backup(i), Claim(i), Staged(i)} \subseteq Names
    BY NamesOfIntents
<1>4. \/ UNCHANGED fileVars
      \/ disk[Target] = NoFile /\ disk[Claim(i)] # NoFile /\ LinkedTo(Target, disk[Claim(i)])
      \/ disk[Claim(i)] = disk[Backup(i)] /\ LinkedTo(Claim(i), NoFile)
    BY <1>1 DEF Capture
<1>5. Service(i)
  <2>1. CASE UNCHANGED fileVars
      BY <2>1, <1>2, ServiceUnchanged
  <2>2. CASE disk[Target] = NoFile /\ disk[Claim(i)] # NoFile /\ LinkedTo(Target, disk[Claim(i)])
    <3>1. disk[Claim(i)] \in Linked(disk)
        BY <2>2, <1>3 DEF Linked
    <3> QED BY <2>2, <3>1, <1>2, <1>3, LinkedToServes
  <2>3. CASE disk[Claim(i)] = disk[Backup(i)] /\ LinkedTo(Claim(i), NoFile)
    <3>1. \E m \in Names \ {Claim(i)} : disk[m] = disk[Claim(i)]
        BY <2>3, <1>3, NamesDiffer
    <3> QED BY <2>3, <3>1, <1>2, <1>3, LinkedToServes
  <2> QED BY <2>1, <2>2, <2>3, <1>4
<1>6. Alone(e) /\ run'[e].at \in {"fail", "record", "link"}
    BY GotoFacts, GotFacts DEF Capture
<1>7. FileInv'
    BY <1>2, <1>5, <1>6, AloneKeeps DEF Service
<1> QED BY <1>1, <1>5, <1>7 DEF Serves

LEMMA LinkBackupServes ==
    ASSUME DbInv, FileInv, NEW e \in Executors, LinkBackup(e)
    PROVE  Serves(e)
<1>1. PICK i \in DOMAIN intents : i = run[e].i
    BY RunFacts DEF LinkBackup, At
<1>2. AtWork(run[e]) /\ FileTyped
    BY DEF LinkBackup, At, AtWork, FileInv
<1>3. {Target, Backup(i), Claim(i), Staged(i)} \subseteq Names
    BY NamesOfIntents
<1>4. disk[Target] \in Linked(disk) \cup {NoFile}
    BY <1>3 DEF Linked
<1>5. CASE disk[Backup(i)] = NoFile /\ LinkedTo(Backup(i), disk[Target])
  <2>1. Service(i)
      BY <1>2, <1>3, <1>4, <1>5, LinkedToServes
  <2>2. disk'[Claim(i)] = disk[Claim(i)]
    <3>1. disk' = [disk EXCEPT ![Backup(i)] = disk[Target]]
        BY <1>2, <1>3, <1>4, <1>5, LinkedToMoves
    <3> QED BY <3>1, <1>2, <1>3, NamesDiffer DEF FileTyped
  <2>3. /\ Alone(e) /\ run'[e].i = i /\ run'[e].at \in {"fail", "grab"}
        /\ run'[e].at = "grab" => disk[Claim(i)] = NoFile
      BY <1>1, GotoFacts DEF LinkBackup
  <2>4. FileInv'
      BY <1>2, <2>1, <2>2, <2>3, AloneKeeps DEF Service
  <2> QED BY <1>1, <2>1, <2>4 DEF Serves
<1>6. CASE UNCHANGED fileVars
  <2>1. Service(i)
      BY <1>2, <1>6, ServiceUnchanged
  <2>2. /\ Alone(e) /\ run'[e].i = i /\ run'[e].at \in {"fail", "grab"}
        /\ run'[e].at = "grab" => disk[Claim(i)] = NoFile
      BY <1>1, GotoFacts DEF LinkBackup
  <2>3. FileInv'
      BY <1>2, <1>6, <2>1, <2>2, AloneKeeps DEF Service, fileVars
  <2> QED BY <1>1, <2>1, <2>3 DEF Serves
<1> QED BY <1>1, <1>5, <1>6 DEF LinkBackup

LEMMA GrabServes ==
    ASSUME DbInv, FileInv, NEW e \in Executors, Grab(e)
    PROVE  Serves(e)
<1>1. PICK i \in DOMAIN intents : i = run[e].i
    BY RunFacts DEF Grab, At
<1>2. /\ AtWork(run[e]) /\ FileTyped /\ disk[Claim(i)] = NoFile
      /\ disk \in [Names -> Inodes \cup {NoFile}] /\ data \in [Inodes -> Mark]
    BY <1>1 DEF Grab, At, AtWork, FileInv, FileTyped, Relies
<1>3. {Target, Backup(i), Claim(i), Staged(i)} \subseteq Names
    BY NamesOfIntents
<1>4. Alone(e) /\ run'[e].at \in {"fail", "settle"}
    BY GotoFacts DEF Grab
<1>5. CASE UNCHANGED fileVars
    BY <1>1, <1>2, <1>4, <1>5, ServiceUnchanged, AloneKeeps DEF Service, Serves
<1>6. CASE /\ disk[Target] # NoFile /\ handle' = handle
           /\ SetFiles([disk EXCEPT ![Target] = NoFile, ![Claim(i)] = disk[Target]], data)
  <2>1. PICK d : d = [disk EXCEPT ![Target] = NoFile, ![Claim(i)] = disk[Target]]
      OBVIOUS
  <2>2. /\ d \in [Names -> Inodes \cup {NoFile}] /\ d[Target] = NoFile
        /\ d[Claim(i)] = disk[Target]
        /\ \A n \in Names \ {Target, Claim(i)} : d[n] = disk[n]
      BY <2>1, <1>2, <1>3, NamesDiffer
  <2>3. Linked(d) = Linked(disk)
    <3>1. ASSUME NEW m \in Names, disk[m] # NoFile PROVE disk[m] \in Linked(d)
        BY <3>1, <2>2, <1>2, <1>3, NamesDiffer DEF Linked
    <3>2. ASSUME NEW m \in Names, d[m] # NoFile PROVE d[m] \in Linked(disk)
        BY <3>2, <2>2, <1>2, <1>3, NamesDiffer DEF Linked
    <3> QED BY <3>1, <3>2 DEF Linked
  <2>4. Files(d, data, {}) /\ handle' \in Inodes \cup {NoFile}
      BY <1>6, <1>2, <2>1 DEF SetFiles, FileTyped
  <2>5. \A n \in Linked(d) : data[n] # Missing
      BY <2>3, <1>2 DEF FileTyped
  <2>6. /\ FileTyped' /\ disk' = d /\ \A n \in Linked(d) : data'[n] = data[n]
        /\ disowned' = (disowned \cup {}) \cap Linked(d)
      BY <1>2, <2>2, <2>4, <2>5, FilesMove
  <2>7. disowned \subseteq Linked(disk)
      BY <1>2 DEF FileTyped
  <2>8. Service(i)
      BY <1>6, <2>2, <2>3, <2>6, <2>7 DEF Service
  <2> QED BY <1>1, <1>2, <1>4, <2>8, AloneKeeps DEF Service, Serves
<1> QED BY <1>1, <1>5, <1>6 DEF Grab

LEMMA SettleServes ==
    ASSUME DbInv, FileInv, NEW e \in Executors, Settle(e)
    PROVE  Serves(e)
<1>1. PICK i \in DOMAIN intents : i = run[e].i
    BY RunFacts DEF Settle, At
<1>2. AtWork(run[e]) /\ FileTyped
    BY DEF Settle, At, AtWork, FileInv
<1>3. {Target, Backup(i), Claim(i), Staged(i)} \subseteq Names
    BY NamesOfIntents
<1>4. \/ UNCHANGED fileVars
      \/ disk[Target] = NoFile /\ LinkedTo(Target, disk[Claim(i)])
      \/ disk[Claim(i)] = disk[Backup(i)] /\ LinkedTo(Claim(i), NoFile)
    BY <1>1 DEF Settle
<1>5. Service(i)
  <2>1. CASE UNCHANGED fileVars
      BY <2>1, <1>2, ServiceUnchanged
  <2>2. CASE disk[Target] = NoFile /\ LinkedTo(Target, disk[Claim(i)])
    <3>1. disk[Claim(i)] \in Linked(disk) \cup {NoFile}
        BY <1>3 DEF Linked
    <3> QED BY <2>2, <3>1, <1>2, <1>3, LinkedToServes
  <2>3. CASE disk[Claim(i)] = disk[Backup(i)] /\ LinkedTo(Claim(i), NoFile)
    <3>1. \E m \in Names \ {Claim(i)} : disk[m] = disk[Claim(i)]
        BY <2>3, <1>3, NamesDiffer
    <3> QED BY <2>3, <3>1, <1>2, <1>3, LinkedToServes
  <2> QED BY <2>1, <2>2, <2>3, <1>4
<1>6. Alone(e) /\ run'[e].at \in {"fail", "record"}
    BY GotoFacts, GotFacts DEF Settle
<1>7. FileInv'
    BY <1>2, <1>5, <1>6, AloneKeeps DEF Service
<1> QED BY <1>1, <1>5, <1>7 DEF Serves

LEMMA FreshIsFree ==
    ASSUME Free # {}
    PROVE  FreshInode \in Inodes /\ FreshInode \notin Linked(disk) /\ FreshInode # handle
<1>1. FreshInode \in Free
    BY DEF FreshInode
<1> QED BY <1>1 DEF Free

\* A new file under a name that had none.
LEMMA NewFile ==
    ASSUME FileTyped, NEW name \in Names, NEW x \in Mark \ {Missing}, Free # {},
           NEW given, handle' = handle,
           Files([disk EXCEPT ![name] = FreshInode], [data EXCEPT ![FreshInode] = x], given)
    PROVE  /\ FileTyped' /\ disk' = [disk EXCEPT ![name] = FreshInode]
           /\ data'[FreshInode] = x
           /\ Linked(disk') \subseteq Linked(disk) \cup {FreshInode}
           /\ \A n \in Linked(disk') \ {FreshInode} : data'[n] = data[n]
           /\ disowned' = (disowned \cup given) \cap Linked(disk')
<1>1. /\ FreshInode \in Inodes /\ FreshInode \notin Linked(disk)
      /\ disk \in [Names -> Inodes \cup {NoFile}] /\ data \in [Inodes -> Mark]
      /\ handle' \in Inodes \cup {NoFile}
    BY FreshIsFree DEF FileTyped
<1>2. PICK d : d = [disk EXCEPT ![name] = FreshInode]
    OBVIOUS
<1>3. PICK c : c = [data EXCEPT ![FreshInode] = x]
    OBVIOUS
<1>4. /\ d \in [Names -> Inodes \cup {NoFile}] /\ c \in [Inodes -> Mark]
      /\ d[name] = FreshInode /\ c[FreshInode] = x
      /\ \A n \in Inodes \ {FreshInode} : c[n] = data[n]
    BY <1>1, <1>2, <1>3
<1>5. Linked(d) \subseteq Linked(disk) \cup {FreshInode} /\ FreshInode \in Linked(d)
    BY <1>1, <1>2, <1>4, InodesAreNot DEF Linked
<1>6. \A n \in Linked(disk) : n \in Inodes /\ data[n] # Missing
    BY DEF FileTyped, Linked
<1>7. \A n \in Linked(d) : c[n] # Missing
    BY <1>4, <1>5, <1>6
<1>8. /\ FileTyped' /\ disk' = d /\ \A n \in Linked(d) : data'[n] = c[n]
      /\ disowned' = (disowned \cup given) \cap Linked(d)
  <2>1. Files(d, c, given)
      BY <1>2, <1>3
  <2> QED BY <2>1, <1>1, <1>4, <1>7, FilesMove
<1> QED BY <1>2, <1>4, <1>5, <1>6, <1>8

LEMMA StageServes ==
    ASSUME DbInv, FileInv, NEW e \in Executors, Stage(e)
    PROVE  Serves(e)
<1>1. PICK i \in DOMAIN intents : i = run[e].i
    BY RunFacts DEF Stage, Renewing, At
<1>2. /\ AtWork(run[e]) /\ FileTyped
      /\ disk \in [Names -> Inodes \cup {NoFile}] /\ data \in [Inodes -> Mark]
    BY <1>1 DEF Stage, Renewing, At, AtWork, FileInv, FileTyped
<1>3. {Target, Backup(i), Claim(i), Staged(i)} \subseteq Names
    BY NamesOfIntents
<1>4. CASE UNCHANGED fileVars /\ \E step \in {"place", "fail"} : Goto(e, step)
  <2>1. Alone(e) /\ run'[e].at \in {"place", "fail"}
      BY <1>4, GotoFacts
  <2> QED BY <1>1, <1>2, <1>4, <2>1, ServiceUnchanged, AloneKeeps DEF Service, Serves
<1>5. CASE /\ disk[Staged(i)] = NoFile /\ Free # {} /\ handle' = handle /\ Goto(e, "write")
           /\ Files([disk EXCEPT ![Staged(i)] = FreshInode], [data EXCEPT ![FreshInode] = Torn], {})
  <2>1. Torn \in Mark \ {Missing}
      BY VaultWriterAssumption DEF Mark, Contents
  <2>2. /\ FileTyped' /\ disk' = [disk EXCEPT ![Staged(i)] = FreshInode]
        /\ data'[FreshInode] = Torn
        /\ \A n \in Linked(disk') \ {FreshInode} : data'[n] = data[n]
        /\ disowned' = (disowned \cup {}) \cap Linked(disk')
      BY <1>2, <1>3, <1>5, <2>1, NewFile
  <2>3. FreshInode \in Inodes /\ FreshInode \notin Linked(disk) /\ FreshInode # handle
      BY <1>5, FreshIsFree
  <2>4. Linked(disk) \subseteq Linked(disk')
    <3> SUFFICES ASSUME NEW m \in Names, disk[m] # NoFile PROVE disk[m] \in Linked(disk')
        BY DEF Linked
    <3>1. disk'[m] = disk[m]
        BY <1>2, <1>5, <2>2
    <3> QED BY <3>1 DEF Linked
  <2>5. disowned \subseteq Linked(disk)
      BY <1>2 DEF FileTyped
  <2>6. Service(i)
      BY <1>2, <1>3, <1>5, <2>2, <2>3, <2>4, <2>5 DEF Service
  <2>7. Unshared(Staged(i))'
    <3>1. disk'[Staged(i)] = FreshInode /\ FreshInode # NoFile
        BY <1>2, <1>3, <2>2, <2>3, InodesAreNot
    <3>2. \A n \in Names : disk'[n] = FreshInode => n = Staged(i)
        BY <1>2, <2>2, <2>3, InodesAreNot DEF Linked
    <3> QED BY <1>5, <2>2, <2>3, <3>1, <3>2 DEF Unshared, Staged
  <2>8. Alone(e) /\ run'[e].at = "write" /\ run'[e].i = run[e].i
      BY <1>5, GotoFacts
  <2>9. Unshared(Staged(run[e].i))'
      BY <1>1, <2>7, <2>8 DEF Unshared, Staged
  <2> QED BY <1>1, <1>2, <2>2, <2>6, <2>8, <2>9, AloneKeeps DEF Serves
<1> QED BY <1>1, <1>4, <1>5 DEF Stage, SetFiles

LEMMA WriteServes ==
    ASSUME DbInv, FileInv, NEW e \in Executors, Write(e)
    PROVE  Serves(e)
<1>1. PICK i \in DOMAIN intents : i = run[e].i
    BY RunFacts DEF Write, At
<1>2. /\ AtWork(run[e]) /\ FileTyped /\ Unshared(Staged(i)) /\ intents[i] \in Intent
      /\ disk \in [Names -> Inodes \cup {NoFile}] /\ data \in [Inodes -> Mark]
    BY <1>1, RunFacts DEF Write, At, AtWork, FileInv, FileTyped, Relies
<1>3. PICK s : s = disk[Staged(i)]
    OBVIOUS
<1>4. s \in Linked(disk) /\ s \in Inodes /\ data[s] = Torn
    BY <1>1, <1>2, <1>3, NamesOfIntents DEF Unshared, Linked
<1>5. PICK c : c = [data EXCEPT ![s] = intents[i].rev]
    OBVIOUS
<1>6. /\ c \in [Inodes -> Mark] /\ c[s] \in Nat /\ c[s] # Missing
      /\ \A n \in Inodes \ {s} : c[n] = data[n]
    BY <1>2, <1>4, <1>5, InodesAreNot DEF Intent, Mark, Contents
<1>7. \A n \in Linked(disk) : n \in Inodes /\ c[n] # Missing
    BY <1>2, <1>6 DEF FileTyped, Linked
<1>8. Files(disk, c, {}) /\ handle' = handle /\ Goto(e, "place")
    BY <1>1, <1>3, <1>5 DEF Write, SetFiles
<1>9. handle' \in Inodes \cup {NoFile}
    BY <1>2, <1>8 DEF FileTyped
<1>10. /\ FileTyped' /\ disk' = disk /\ \A n \in Linked(disk) : data'[n] = c[n]
       /\ disowned' = (disowned \cup {}) \cap Linked(disk)
    BY <1>2, <1>6, <1>7, <1>8, <1>9, FilesMove
<1>11. Service(i)
    BY <1>2, <1>4, <1>6, <1>7, <1>8, <1>10 DEF Service, FileTyped, Linked
<1>12. Alone(e) /\ run'[e].at = "place"
    BY <1>8, GotoFacts
<1> QED BY <1>1, <1>2, <1>10, <1>11, <1>12, AloneKeeps DEF Serves

LEMMA PlaceServes ==
    ASSUME DbInv, FileInv, NEW e \in Executors, Place(e)
    PROVE  Serves(e)
<1>1. PICK i \in DOMAIN intents : i = run[e].i
    BY RunFacts DEF Place, At
<1>2. AtWork(run[e]) /\ FileTyped
    BY DEF Place, At, AtWork, FileInv
<1>3. {Target, Backup(i), Claim(i), Staged(i)} \subseteq Names
    BY NamesOfIntents
<1>4. Alone(e) /\ run'[e].at \in {"fail", "advance"}
    BY GotoFacts DEF Place
<1>5. disk[Staged(i)] \in Linked(disk) \cup {NoFile}
    BY <1>3 DEF Linked
<1>6. Service(i)
    BY <1>1, <1>2, <1>3, <1>5, ServiceUnchanged, LinkedToServes DEF Place
<1> QED BY <1>1, <1>2, <1>4, <1>6, AloneKeeps DEF Service, Serves

\* The other steps of a run leave the files alone.
LEMMA WorkServes ==
    ASSUME DbInv, FileInv, NEW e \in Executors, Work(e)
    PROVE  Serves(e)
<1>1. CASE \/ Capture(e) \/ LinkBackup(e) \/ Grab(e) \/ Settle(e) \/ Stage(e) \/ Write(e)
           \/ Place(e)
    BY <1>1, CaptureServes, LinkBackupServes, GrabServes, SettleServes, StageServes,
       WriteServes, PlaceServes
<1>2. CASE \/ Lock(e) \/ LoseLease(e) \/ RecordCaptured(e) \/ Install(e) \/ Advance(e)
           \/ Finalize(e) \/ MarkRecovery(e) \/ Observe(e) \/ RecoverIntended(e)
           \/ RecoverExpected(e) \/ RecoverMissing(e) \/ RecoverUnknown(e)
  <2>1. UNCHANGED fileVars
      BY <1>2 DEF Lock, LoseLease, RecordCaptured, Phase, Install, Advance, Finalize,
         MarkRecovery, Observe, RecoverIntended, RecoverExpected, RecoverMissing, RecoverUnknown
  <2>2. Alone(e) /\ run'[e].at \notin {"grab", "write"}
    <3>1. CASE Leave(e)
        BY <3>1, LeaveFacts, IdleTyped
    <3>2. CASE \E step \in Steps \ {"grab", "write"} : Goto(e, step)
        BY <3>2, GotoFacts
    <3>3. CASE Observe(e)
        BY <3>3 DEF Observe, DbInv, DbTyped, RunRecord, Alone
    <3>4. CASE Lock(e)
      <4>1. ASSUME Holds(e, run[e].i)
            PROVE  FirstStep(intents[run[e].i].status) \in Steps \ {"grab", "write"}
          BY <4>1 DEF Holds, IsOpen, OpenStatuses, FirstStep, Steps
      <4> QED BY <3>1, <3>2, <3>4, <4>1 DEF Lock
    <3> QED
      <4>1. {"install", "finalize", "advance", "stage", "fail", "capture"}
              \subseteq Steps \ {"grab", "write"}
          BY DEF Steps
      <4> QED BY <3>1, <3>2, <3>3, <3>4, <4>1, <1>2
              DEF LoseLease, RecordCaptured, Phase, Install, Advance, Finalize, MarkRecovery,
                  RecoverIntended, RecoverExpected, RecoverMissing, RecoverUnknown
  <2>3. Quiet
      BY <2>1, <2>2 DEF Quiet, Alone
  <2> QED BY <2>1, <2>3, ServiceUnchanged, QuietKeeps DEF Serves, FileInv
<1> QED BY <1>1, <1>2 DEF Work

----------------------------------------------------------------------------
(* The editor.                                                             *)

\* What the editor may do to the files: it changes what is at the page's path, and writes into
\* the file it has open, if that is its way.
Types == /\ FileTyped' /\ UNCHANGED <<run, dbVars>>
         /\ \A n \in Names \ {Target} : disk'[n] = disk[n]
         /\ \A n \in Linked(disk) \cap Linked(disk') :
              data'[n] = data[n] \/ (n = handle /\ "handle" \in EditorWays)
         /\ handle' = handle \/ (handle' = disk[Target] /\ "handle" \in EditorWays)
         /\ disk'[Target] \in {disk[Target], NoFile} \/ disk'[Target] \notin Linked(disk)
         /\ disk'[Target] # disk[Target] /\ disk[Target] \in Linked(disk') =>
              disk[Target] \in disowned'
         /\ disowned \cap Linked(disk') \subseteq disowned'

LEMMA ReplaceTypes ==
    ASSUME DbInv, FileInv, NEW x \in Mark \ {Missing}, Replace(x)
    PROVE  Types
<1>1. /\ FileTyped /\ Target \in Names /\ Free # {} /\ handle' = handle
      /\ disk \in [Names -> Inodes \cup {NoFile}]
      /\ Files([disk EXCEPT ![Target] = FreshInode], [data EXCEPT ![FreshInode] = x],
               {disk[Target]})
    BY NamesDiffer DEF FileInv, FileTyped, Replace
<1>2. /\ FileTyped' /\ disk' = [disk EXCEPT ![Target] = FreshInode]
      /\ \A n \in Linked(disk') \ {FreshInode} : data'[n] = data[n]
      /\ disowned' = (disowned \cup {disk[Target]}) \cap Linked(disk')
    BY <1>1, NewFile
<1>3. FreshInode \notin Linked(disk)
    BY <1>1, FreshIsFree
<1>4. UNCHANGED <<run, dbVars>>
    BY DEF Replace, Edited
<1> QED BY <1>1, <1>2, <1>3, <1>4 DEF Types

LEMMA RemoveTypes ==
    ASSUME DbInv, FileInv, Remove
    PROVE  Types
<1>1. /\ FileTyped /\ Target \in Names /\ handle' = handle
      /\ disk \in [Names -> Inodes \cup {NoFile}] /\ data \in [Inodes -> Mark]
      /\ Files([disk EXCEPT ![Target] = NoFile], data, {disk[Target]})
      /\ handle' \in Inodes \cup {NoFile}
    BY NamesDiffer DEF FileInv, FileTyped, Remove
<1>2. PICK d : d = [disk EXCEPT ![Target] = NoFile]
    OBVIOUS
<1>3. d \in [Names -> Inodes \cup {NoFile}] /\ Linked(d) \subseteq Linked(disk)
    BY <1>1, <1>2 DEF Linked
<1>4. \A n \in Linked(d) : data[n] # Missing
    BY <1>1, <1>3 DEF FileTyped
<1>5. Files(d, data, {disk[Target]})
    BY <1>1, <1>2
<1>6. /\ FileTyped' /\ disk' = d /\ \A n \in Linked(d) : data'[n] = data[n]
      /\ disowned' = (disowned \cup {disk[Target]}) \cap Linked(d)
    BY <1>1, <1>3, <1>4, <1>5, FilesMove
<1>7. UNCHANGED <<run, dbVars>>
    BY DEF Remove, Edited
<1> QED BY <1>1, <1>2, <1>6, <1>7 DEF Types

LEMMA WriteInPlaceTypes ==
    ASSUME DbInv, FileInv, NEW x \in Mark \ {Missing}, WriteInPlace(x)
    PROVE  Types
<1>1. /\ FileTyped /\ handle' = handle /\ handle \in Inodes
      /\ disk \in [Names -> Inodes \cup {NoFile}] /\ data \in [Inodes -> Mark]
      /\ Files(disk, [data EXCEPT ![handle] = x], {})
      /\ disowned \subseteq Linked(disk) /\ "handle" \in EditorWays
    BY DEF FileInv, FileTyped, WriteInPlace, SetFiles, Edited
<1>2. PICK c : c = [data EXCEPT ![handle] = x]
    OBVIOUS
<1>3. c \in [Inodes -> Mark] /\ c[handle] = x /\ \A n \in Inodes \ {handle} : c[n] = data[n]
    BY <1>1, <1>2
<1>4. \A n \in Linked(disk) : n \in Inodes /\ c[n] # Missing
    BY <1>1, <1>3 DEF FileTyped, Linked
<1>5. Files(disk, c, {}) /\ handle' \in Inodes \cup {NoFile}
    BY <1>1, <1>2
<1>6. /\ FileTyped' /\ disk' = disk /\ \A n \in Linked(disk) : data'[n] = c[n]
      /\ disowned' = (disowned \cup {}) \cap Linked(disk)
    BY <1>1, <1>3, <1>4, <1>5, FilesMove
<1>7. UNCHANGED <<run, dbVars>>
    BY DEF WriteInPlace, Edited
<1> QED BY <1>1, <1>3, <1>4, <1>6, <1>7 DEF Types

LEMMA OpenFileTypes ==
    ASSUME DbInv, FileInv, OpenFile
    PROVE  Types
<1>1. /\ FileTyped /\ handle' = disk[Target] /\ Target \in Names
      /\ disk \in [Names -> Inodes \cup {NoFile}] /\ data \in [Inodes -> Mark]
      /\ Files(disk, data, {}) /\ disowned \subseteq Linked(disk)
      /\ \A n \in Linked(disk) : data[n] # Missing
      /\ "handle" \in EditorWays
    BY NamesDiffer DEF FileInv, FileTyped, OpenFile, SetFiles
<1>2. handle' \in Inodes \cup {NoFile}
    BY <1>1
<1>3. /\ FileTyped' /\ disk' = disk /\ \A n \in Linked(disk) : data'[n] = data[n]
      /\ disowned' = (disowned \cup {}) \cap Linked(disk)
    BY <1>1, <1>2, FilesMove
<1>4. UNCHANGED <<run, dbVars>>
    BY DEF OpenFile
<1> QED BY <1>1, <1>3, <1>4 DEF Types

LEMMA EditorTypes ==
    ASSUME DbInv, FileInv, Editor
    PROVE  Types
<1>1. Edits \cup 0 .. newest \subseteq Mark \ {Missing}
  <2>1. newest \in Nat
      BY DEF DbInv, DbTyped
  <2> QED BY <2>1, VaultWriterAssumption DEF Mark, Contents
<1> QED BY <1>1, ReplaceTypes, RemoveTypes, WriteInPlaceTypes, OpenFileTypes DEF Editor

LEMMA TypesKeeps ==
    ASSUME DbInv, FileInv, Types
    PROVE  FileInv'
<1> SUFFICES ASSUME NEW f \in Executors PROVE Relies(run[f])'
    BY DEF FileInv, Types
<1>1. run'[f] = run[f] /\ Relies(run[f]) /\ FileTyped
    BY DEF Types, FileInv
<1>2. CASE ~AtWork(run[f])
    BY <1>1, <1>2 DEF Relies, AtWork
<1>3. CASE AtWork(run[f])
  <2>1. PICK j \in DOMAIN intents : j = run[f].i
      BY <1>3, RunFacts
  <2>2. /\ {Target, Claim(j), Staged(j)} \subseteq Names
        /\ disk'[Claim(j)] = disk[Claim(j)] /\ disk'[Staged(j)] = disk[Staged(j)]
        /\ Staged(j) # Target
      BY NamesOfIntents, NamesDiffer DEF Types
  <2>3. ASSUME Unshared(Staged(j)) PROVE Unshared(Staged(j))'
    <3>1. PICK s : s = Staged(j)
        OBVIOUS
    <3>2. /\ s \in Names /\ s # Target /\ disk'[s] = disk[s] /\ disk[s] # NoFile
          /\ data[disk[s]] = Torn /\ disk[s] # handle
          /\ \A n \in Names : disk[n] = disk[s] => n = s
        BY <3>1, <2>2, <2>3 DEF Unshared
    <3>3. disk[s] \in Linked(disk) /\ disk[s] \in Linked(disk')
        BY <3>2 DEF Linked
    <3>4. data'[disk[s]] = Torn
        BY <3>2, <3>3 DEF Types
    <3>5. disk[s] # handle'
        BY <3>2, <2>2 DEF Types
    <3>6. ASSUME NEW n \in Names, disk'[n] = disk[s] PROVE n = s
      <4>1. CASE n # Target
          BY <4>1, <3>2, <3>6 DEF Types
      <4>2. CASE n = Target
          BY <4>2, <3>2, <3>3, <3>6 DEF Types
      <4> QED BY <4>1, <4>2
    <3>7. disk'[s] # NoFile /\ data'[disk'[s]] = Torn /\ disk'[s] # handle'
        BY <3>2, <3>4, <3>5
    <3> QED BY <3>1, <3>2, <3>6, <3>7 DEF Unshared, Staged
  <2> QED BY <1>1, <2>1, <2>2, <2>3 DEF Relies, Claim, Staged
<1> QED BY <1>2, <1>3

----------------------------------------------------------------------------
(* The invariant, and what follows from it.                                *)

IInv == DbInv /\ FileInv

LEMMA InitIInv == Init => IInv
<1> SUFFICES ASSUME Init PROVE IInv
    OBVIOUS
<1>1. PICK first \in FirstPages :
        LET body == IF first = "legacy" THEN CHOOSE x \in Edits \ Unreadable : TRUE ELSE 0
        IN  /\ current = IF first = "file" THEN 0 ELSE None
            /\ life = IF first = "none" THEN "absent" ELSE "active"
            /\ disk = [n \in Names |-> IF n = Target /\ first # "none" THEN 1 ELSE NoFile]
            /\ data = [n \in Inodes |-> IF n = 1 /\ first # "none" THEN body ELSE Missing]
    BY DEF Init
<1>2. PICK body : body = IF first = "legacy" THEN CHOOSE x \in Edits \ Unreadable : TRUE ELSE 0
    OBVIOUS
<1>3. body \in Contents
    BY <1>2, VaultWriterAssumption DEF Contents
<1>4. body # Missing
    BY <1>2, VaultWriterAssumption
<1>5. 1 \in Inodes /\ 1 # NoFile /\ MaxIntents \in Nat
    BY VaultWriterAssumption DEF Inodes, MaxIntents, NoFile
<1>6. FileTyped
  <2>1. disk \in [Names -> Inodes \cup {NoFile}] /\ Linked(disk) \subseteq {1}
      BY <1>1, <1>5 DEF Linked
  <2>2. data \in [Inodes -> Mark]
      BY <1>1, <1>2, <1>3 DEF Mark
  <2>3. \A n \in Linked(disk) : first # "none"
      BY <1>1 DEF Linked
  <2>4. \A n \in Linked(disk) : data[n] # Missing
      BY <1>1, <1>2, <1>4, <1>5, <2>1, <2>3
  <2> QED BY <2>1, <2>2, <2>4 DEF FileTyped, Init
<1>7. DbInv
  <2>1. intents = <<>> /\ DOMAIN intents = {} /\ intents \in Seq(Intent) /\ Len(intents) = 0
      BY DEF Init
  <2>2. \A e \in Executors : run[e] = Idle
      BY DEF Init
  <2>3. DbTyped
      BY <1>1, <1>5, <2>1, IdleTyped DEF Init, DbTyped
  <2>4. Runs
      BY <2>2, IdleTyped DEF Runs, AtWork
  <2>5. Apart
      BY <2>2, IdleTyped DEF Apart, AtWork
  <2> QED BY <2>1, <2>3, <2>4, <2>5 DEF DbInv, PendingIsTheOpenIntent, RowsKnown
<1>8. \A e \in Executors : Relies(run[e])
    BY IdleTyped DEF Init, Relies
<1> QED BY <1>6, <1>7, <1>8 DEF IInv, FileInv

\* Whatever is not a run at work or the editor leaves the files alone.
LEMMA OthersAreQuiet ==
    ASSUME DbInv,
           \/ UNCHANGED vars
           \/ PrepareEdit \/ PrepareNew \/ PrepareLegacy \/ Ingest
           \/ \E e \in Executors : \/ Retire(e) \/ Crash(e)
                                   \/ \E i \in DOMAIN intents : ClaimIntent(e, i)
           \/ \E i \in DOMAIN intents : Resolve(i) \/ ReconcileBackup(i) \/ Expire(i)
    PROVE  Quiet
<1>1. run \in [Executors -> RunRecord]
    BY DEF DbInv, DbTyped
<1>2. CASE \/ UNCHANGED vars \/ PrepareEdit \/ PrepareNew \/ PrepareLegacy \/ Ingest
           \/ \E i \in DOMAIN intents : Resolve(i) \/ ReconcileBackup(i) \/ Expire(i)
    BY <1>2 DEF Quiet, vars, PrepareEdit, PrepareNew, PrepareLegacy, Ingest, Prepare, Resolve,
       ReconcileBackup, Expire
<1>3. ASSUME NEW e \in Executors, Retire(e) \/ Crash(e) PROVE Quiet
    BY <1>1, <1>3, IdleTyped DEF Quiet, Retire, Crash, Leave
<1>4. ASSUME NEW e \in Executors, NEW i \in DOMAIN intents, ClaimIntent(e, i) PROVE Quiet
  <2>1. \A f \in Executors : run'[f] = run[f] \/ run'[f].at = "lock"
      BY <1>1, <1>4, IdleTyped DEF ClaimIntent, RunRecord
  <2> QED BY <1>4, <2>1 DEF Quiet, ClaimIntent
<1> QED BY <1>2, <1>3, <1>4

LEMMA NextIInv == IInv /\ [Next]_vars => IInv'
<1> SUFFICES ASSUME IInv, [Next]_vars PROVE IInv'
    OBVIOUS
<1>1. DbInv /\ FileInv /\ FileTyped
    BY DEF IInv, FileInv
<1>2. DbInv'
    BY <1>1, NextDb
<1>3. FileInv'
  <2>1. CASE \E e \in Executors : Work(e)
      BY <1>1, <2>1, WorkServes DEF Serves
  <2>2. CASE Editor
      BY <1>1, <2>2, EditorTypes, TypesKeeps
  <2>3. CASE Quiet
      BY <1>1, <2>3, QuietKeeps
  <2> QED BY <1>1, <2>1, <2>2, <2>3, OthersAreQuiet DEF Next
<1> QED BY <1>2, <1>3 DEF IInv

LEMMA IInvHolds == Spec => []IInv
    BY InitIInv, NextIInv, PTL DEF Spec

\* The type invariant: the page points at an intent that exists, every name at a file that
\* exists.
THEOREM WriterTypeCorrect == Spec => []TypeOK
<1>1. IInv => TypeOK
  <2> SUFFICES ASSUME IInv PROVE TypeOK
      OBVIOUS
  <2>1. DbInv /\ DbTyped /\ FileTyped
      BY DEF IInv, DbInv, FileInv
  <2>2. \A i \in DOMAIN intents : intents[i] \in Intent
      BY <2>1, IntentNumbers
  <2>3. ASSUME NEW e \in Executors
        PROVE  run[e].at \in Steps /\ run[e].i \in DOMAIN intents \cup {None}
      BY <2>1 DEF DbInv, DbTyped, Runs, RunRecord
  <2>4. ASSUME NEW i \in DOMAIN intents
        PROVE  /\ intents[i].status \in Statuses
               /\ intents[i].rev \in Nat
               /\ intents[i].base \in Nat \cup {None}
               /\ intents[i].owner \in Executors \cup {NoOwner, Gone}
               /\ {intents[i].expected, intents[i].captured, intents[i].baseline}
                    \subseteq Contents \cup {Missing}
      BY <2>2 DEF Intent, Mark
  <2> QED BY <2>1, <2>3, <2>4 DEF TypeOK, DbTyped, FileTyped, Mark
<1> QED BY <1>1, IInvHolds, PTL

\* At any time the page points at its one open intent, if there is one (wiki_revisions.py:
\* prepare_write_intent_locked, finalize_intent, _prepare_recovery_successor_locked): hand-overs,
\* resolutions and take-overs after crashes and lapsed leases leave no second one behind.
THEOREM OneOpenIntent == Spec => []PendingIsTheOpenIntent
<1>1. IInv => PendingIsTheOpenIntent
    BY DEF IInv, DbInv
<1> QED BY <1>1, IInvHolds, PTL

\* One executor at a time has the page's file in hand (vault_writer.py: the lease of claim and
\* the lock of the operating system), also when an intent succeeds another.
THEOREM OneExecutor == Spec => []OneWriter
<1>1. IInv => OneWriter
    BY OneAtWork DEF IInv, OneWriter, AtWork
<1> QED BY <1>1, IInvHolds, PTL

\* The bytes an applied intent displaced, the monitor's baseline, are those it was prepared
\* upon or the database has them (AtomicVaultWriter.capture, finalize_intent).
THEOREM BaselinesKnown == Spec => []BaselineIsKnown
<1>1. IInv => BaselineIsKnown
    BY VaultWriterAssumption DEF IInv, DbInv, RowsKnown, RowKnown, BaselineIsKnown, BaselineOf,
       Contents
<1> QED BY <1>1, IInvHolds, PTL

\* The service takes the last name from no file, and writes into none but the one it is just
\* making (AtomicVaultWriter: os.link, os.rename, unlink of a duplicate).
THEOREM FilesKept == Spec => KeepsEveryFile
<1>1. IInv /\ [Next]_vars =>
        [edits' = edits =>
           \A n \in Linked(disk) :
             n \in Linked(disk') /\ (data'[n] = data[n] \/ data[n] = Torn)]_vars
  <2> SUFFICES ASSUME IInv, Next, edits' = edits, NEW n \in Linked(disk)
               PROVE  n \in Linked(disk') /\ (data'[n] = data[n] \/ data[n] = Torn)
      OBVIOUS
  <2>1. DbInv /\ FileInv /\ edits \in Nat
      BY DEF IInv, DbInv, DbTyped
  <2>2. CASE \E e \in Executors : Work(e)
      BY <2>1, <2>2, WorkServes DEF Serves, Service
  <2>3. CASE Editor
    <3>1. OpenFile
      <4>1. edits + 1 # edits
          BY <2>1
      <4>2. ASSUME NEW way, Edited(way) PROVE FALSE
          BY <4>1, <4>2 DEF Edited
      <4> QED BY <2>3, <4>2 DEF Editor, Replace, Remove, WriteInPlace
    <3>2. disk' = disk /\ data' = [m \in Inodes |-> IF m \in Linked(disk) \cup {handle'}
                                                    THEN data[m] ELSE Missing]
        BY <3>1 DEF OpenFile, SetFiles, Files
    <3>3. n \in Inodes
        BY <2>1 DEF FileInv, FileTyped, Linked
    <3> QED BY <3>2, <3>3
  <2>4. CASE Quiet
      BY <2>4 DEF Quiet, fileVars
  <2> QED BY <2>1, <2>2, <2>3, <2>4, OthersAreQuiet DEF Next
<1> QED BY <1>1, IInvHolds, PTL DEF Spec, KeepsEveryFile

----------------------------------------------------------------------------
(* Nothing is forgotten, unless the editor keeps handles on files.         *)

\* What nobody has to look for: bytes the service made or the database has.
Known == Nat \cup {Torn} \cup recorded
KnownFile(n) == n = NoFile \/ n \in disowned \/ data[n] \in Known

\* A claim holds no file of its own that anybody has to look for.
ClaimOK(i) == disk[Claim(i)] \in {disk[Backup(i)], disk[Target]} \/ KnownFile(disk[Claim(i)])

\* Of a closed intent the backup is known, or the monitor sees that it is not, and the claim
\* is the backup or known.
Retained(i) ==
    /\ \/ KnownFile(disk[Backup(i)])
       \/ intents[i].expected = Missing
       \/ intents[i].status = "applied" /\ intents[i].baseline # Content(Backup(i))
    /\ disk[Claim(i)] = disk[Backup(i)] \/ KnownFile(disk[Claim(i)])

\* An open intent whose capture is recorded has left its claim; one that waits for a human is
\* known, and no run gets past recovery with it.
Reviewed(i) == /\ intents[i].status = "recovery_required"
               /\ Content(Backup(i)) \in Known /\ Unknown(i, Content(Backup(i)))
               /\ Content(Claim(i)) \in {Missing} \cup Known
               /\ intents[i].review.target \in Known
OpenKept(i) == /\ intents[i].status \in {"captured", "installed"} => ClaimOK(i)
               /\ intents[i].review # NoReview => Reviewed(i)

IntentKept(i) == IF IsOpen(i) THEN OpenKept(i) ELSE Retained(i)
ExpectedKnown(i) == intents[i].expected \in {Missing} \cup Known
StagedKnown(i) == disk[Staged(i)] # NoFile => data[disk[Staged(i)]] \in Nat \cup {Torn}
Unused(i) == disk[Backup(i)] = NoFile /\ disk[Claim(i)] = NoFile

\* What recovery has seen of backup and claim is what they hold.
SeenOf(i, seen) ==
    /\ Content(Backup(i)) = seen.backup
    /\ Content(Claim(i)) \in {Missing, seen.claim, seen.target, seen.backup}

PastCapture == HasCaptured \cup {"finalize"}
RunKept(r) == /\ r.at \in PastCapture => ClaimOK(r.i)
              /\ r.at = "recover" => SeenOf(r.i, r.seen)
              /\ intents[r.i].review # NoReview => r.at \in {"observe", "recover"}

Kept == /\ \A i \in 1 .. MaxIntents : StagedKnown(i)
        /\ \A i \in (1 .. MaxIntents) \ DOMAIN intents : Unused(i)
        /\ \A i \in DOMAIN intents : ExpectedKnown(i) /\ IntentKept(i)
        /\ \A e \in Executors : AtWork(run[e]) => RunKept(run[e])

\* What all steps have in common: what is known, and written, stays so; files are disowned
\* until they are gone.
KnownStep == /\ recorded \subseteq recorded'
             /\ \A n \in Linked(disk) \cap Linked(disk') :
                  /\ data'[n] = data[n] \/ (data[n] = Torn /\ data'[n] \in Nat)
                  /\ n \in disowned => n \in disowned'

LEMMA KnownFileStays ==
    ASSUME KnownStep, NEW n \in Linked(disk) \cup {NoFile}, n \in Linked(disk') \cup {NoFile},
           KnownFile(n)
    PROVE  KnownFile(n)'
<1>1. CASE n = NoFile
    BY <1>1 DEF KnownFile
<1>2. CASE n # NoFile
  <2>1. n \in Linked(disk) \cap Linked(disk')
      BY <1>2
  <2> QED BY <2>1 DEF KnownStep, KnownFile, Known
<1> QED BY <1>1, <1>2

\* A name that stays with its file.
LEMMA NameStays ==
    ASSUME FileTyped, KnownStep, NEW name \in Names, disk'[name] = disk[name]
    PROVE  /\ KnownFile(disk[name]) => KnownFile(disk[name])'
           /\ \/ Content(name)' = Content(name)
              \/ Content(name) = Torn /\ Content(name)' \in Nat /\ KnownFile(disk[name])'
<1>1. PICK n : n = disk[name]
    OBVIOUS
<1>2. /\ n \in Linked(disk) \cup {NoFile} /\ n \in Linked(disk') \cup {NoFile}
      /\ n = disk'[name]
    BY <1>1 DEF Linked
<1>3. KnownFile(n) => KnownFile(n)'
    BY <1>2, KnownFileStays
<1>4. KnownFile(disk[name]) => KnownFile(disk[name])'
    BY <1>1, <1>2, <1>3 DEF KnownFile
<1>5. CASE n = NoFile
    BY <1>1, <1>2, <1>4, <1>5 DEF Content
<1>6. CASE n # NoFile
  <2>1. data'[n] = data[n] \/ (data[n] = Torn /\ data'[n] \in Nat)
      BY <1>2, <1>6 DEF KnownStep
  <2> QED BY <1>1, <1>2, <1>4, <1>6, <2>1 DEF Content, KnownFile, Known
<1> QED BY <1>5, <1>6

\* A claim stays accounted for when the page's path changes, if what was there is disowned.
LEMMA ClaimStays ==
    ASSUME FileTyped, FileTyped', KnownStep, NEW i,
           {Backup(i), Claim(i)} \subseteq Names, ClaimOK(i),
           disk'[Claim(i)] = disk[Claim(i)], disk'[Backup(i)] = disk[Backup(i)],
           \/ disk'[Target] = disk[Target] \/ disk[Target] = NoFile
           \/ disk[Target] \in Linked(disk') => disk[Target] \in disowned'
    PROVE  ClaimOK(i)'
<1>1. CASE KnownFile(disk[Claim(i)])
    BY <1>1, NameStays DEF ClaimOK, Claim
<1>2. CASE disk[Claim(i)] = disk[Backup(i)]
    BY <1>2 DEF ClaimOK, Claim, Backup
<1>3. CASE disk[Claim(i)] = disk[Target] /\ disk[Target] # NoFile /\ disk'[Target] # disk[Target]
  <2>1. disk[Target] \in Linked(disk')
      BY <1>3 DEF Linked
  <2>2. disk'[Claim(i)] \in disowned'
      BY <1>3, <2>1
  <2>3. KnownFile(disk[Claim(i)])'
      BY <2>2 DEF KnownFile, Claim
  <2> QED BY <2>3 DEF ClaimOK
<1>4. CASE disk[Claim(i)] = disk[Target] /\ disk'[Target] = disk[Target]
    BY <1>4 DEF ClaimOK, Claim, Target
<1> QED BY <1>1, <1>2, <1>3, <1>4 DEF ClaimOK, KnownFile

\* What a row says of its files; a step may give a closed one another baseline, if the
\* database gets its bytes.
RowStays(j) == /\ j \in DOMAIN intents' /\ intents'[j].status = intents[j].status
               /\ intents'[j].expected = intents[j].expected
               /\ \/ intents'[j].baseline = intents[j].baseline
                  \/ intents'[j].baseline = Content(Backup(j)) /\ Content(Backup(j)) \in recorded'
FilesStay(j) == disk'[Backup(j)] = disk[Backup(j)] /\ disk'[Claim(j)] = disk[Claim(j)]

LEMMA RetainedStays ==
    ASSUME FileTyped, FileTyped', KnownStep, NEW j, {Backup(j), Claim(j)} \subseteq Names,
           Retained(j), RowStays(j), FilesStay(j)
    PROVE  Retained(j)'
<1>1. disk'[Claim(j)] = disk'[Backup(j)] \/ KnownFile(disk[Claim(j)])'
    BY NameStays DEF Retained, FilesStay
<1>2. CASE KnownFile(disk[Backup(j)])
    BY <1>1, <1>2, NameStays DEF Retained, FilesStay, Claim, Backup
<1>3. CASE intents[j].expected = Missing
    BY <1>1, <1>3 DEF Retained, RowStays, Claim, Backup
<1>4. CASE intents[j].status = "applied" /\ intents[j].baseline # Content(Backup(j))
  <2>1. CASE KnownFile(disk[Backup(j)])'
      BY <1>1, <2>1 DEF Retained, Claim, Backup
  <2>2. CASE Content(Backup(j))' = Content(Backup(j))
    <3>1. CASE intents'[j].baseline = intents[j].baseline
      <4>1. intents'[j].status = "applied" /\ intents'[j].baseline # Content(Backup(j))'
          BY <1>4, <2>2, <3>1 DEF RowStays
      <4> QED BY <1>1, <4>1 DEF Retained, Claim, Backup
    <3>2. CASE Content(Backup(j)) \in recorded'
      <4>1. Content(Backup(j))' \in recorded'
          BY <2>2, <3>2
      <4>2. KnownFile(disk[Backup(j)])'
          BY <4>1 DEF Content, KnownFile, Known
      <4> QED BY <1>1, <4>2 DEF Retained, Claim, Backup
    <3> QED BY <3>1, <3>2 DEF RowStays
  <2>3. Content(Backup(j))' = Content(Backup(j)) \/ KnownFile(disk[Backup(j)])'
      BY NameStays DEF FilesStay
  <2> QED BY <2>1, <2>2, <2>3
<1> QED BY <1>2, <1>3, <1>4 DEF Retained

\* A step at intent i, if there is one that is open: the files of the others are left alone.
Frame(i) ==
    /\ KnownStep
    /\ \A n \in Names \ {Target, Backup(i), Claim(i), Staged(i)} : disk'[n] = disk[n]
    /\ \A j \in DOMAIN intents \ {i} : RowStays(j)
    /\ DOMAIN intents \subseteq DOMAIN intents'
    /\ \A j \in DOMAIN intents' \ DOMAIN intents :
         /\ intents'[j].status = "pending" /\ intents'[j].review = NoReview
         /\ intents'[j].expected \in {Missing} \cup Known'

\* What the step owes at its intent, and to the runs.
OwnKept(i) == /\ StagedKnown(i) /\ (i \in DOMAIN intents => ExpectedKnown(i) /\ IntentKept(i))
RunsKept == \A e \in Executors : AtWork(run[e]) => RunKept(run[e])

LEMMA OthersStay ==
    ASSUME DbInv, DbInv', FileTyped, FileTyped', Kept, NEW i, i = pending, Frame(i),
           i \in DOMAIN intents => OwnKept(i)', RunsKept'
    PROVE  Kept'
<1>1. /\ DOMAIN intents = 1 .. Len(intents) /\ Len(intents) \in Nat /\ Len(intents) <= MaxIntents
      /\ MaxIntents \in Nat /\ \A j \in DOMAIN intents : j # i => ~IsOpen(j)
    BY IntentNumbers DEF DbInv, DbTyped, PendingIsTheOpenIntent
<1>2. \A j \in 1 .. MaxIntents : {Backup(j), Claim(j), Staged(j)} \subseteq Names
    BY DEF Names, Backup, Claim, Staged
<1>3. ASSUME NEW j \in 1 .. MaxIntents, j # i
      PROVE  FilesStay(j) /\ disk'[Staged(j)] = disk[Staged(j)]
    BY <1>2, <1>3, NamesDiffer DEF Frame, FilesStay
<1>4. DOMAIN intents \subseteq 1 .. MaxIntents
    BY <1>1
<1>5. ASSUME NEW j \in 1 .. MaxIntents PROVE StagedKnown(j)'
  <2>1. CASE j = i /\ i \in DOMAIN intents
      BY <2>1 DEF OwnKept, StagedKnown, Staged
  <2>2. CASE j # i
    <3>1. PICK n : n = disk[Staged(j)]
        OBVIOUS
    <3>2. n = disk'[Staged(j)] /\ StagedKnown(j)
        BY <1>3, <2>2, <3>1 DEF Kept
    <3>3. n # NoFile => n \in Linked(disk) \cap Linked(disk') /\ data[n] \in Nat \cup {Torn}
        BY <1>2, <3>1, <3>2 DEF Linked, StagedKnown
    <3>4. n # NoFile => data'[n] \in Nat \cup {Torn}
        BY <3>3 DEF Frame, KnownStep
    <3> QED BY <3>1, <3>2, <3>4 DEF StagedKnown, Staged
  <2>3. i \in DOMAIN intents \/ i = None
      BY DEF DbInv, DbTyped
  <2>4. j # None
      BY DEF None
  <2> QED BY <2>1, <2>2, <2>3, <2>4
<1>6. DOMAIN intents' \subseteq 1 .. MaxIntents /\ None \notin 1 .. MaxIntents
    BY <1>1 DEF DbInv, DbTyped, None
<1>7. ASSUME NEW j \in (1 .. MaxIntents) \ DOMAIN intents' PROVE Unused(j)'
  <2>1. j \notin DOMAIN intents /\ Unused(j)
      BY <1>7 DEF Frame, Kept
  <2>2. j # i
      BY <1>6, <2>1 DEF DbInv, DbTyped
  <2>3. FilesStay(j)
      BY <1>3, <2>2
  <2> QED BY <2>1, <2>3 DEF Unused, FilesStay, Backup, Claim
<1>8. ASSUME NEW j \in DOMAIN intents' PROVE ExpectedKnown(j)' /\ IntentKept(j)'
  <2>1. CASE j \in DOMAIN intents \ {i}
    <3>1. /\ j \in 1 .. MaxIntents /\ ~IsOpen(j) /\ ExpectedKnown(j) /\ Retained(j)
          /\ RowStays(j) /\ FilesStay(j)
        BY <1>1, <1>3, <1>4, <2>1 DEF Kept, IntentKept, Frame
    <3>2. Retained(j)'
        BY <1>2, <3>1, RetainedStays DEF Frame
    <3>3. ~IsOpen(j)' /\ ExpectedKnown(j)'
        BY <3>1 DEF IsOpen, RowStays, ExpectedKnown, Known, Frame, KnownStep
    <3> QED BY <3>2, <3>3 DEF IntentKept
  <2>2. CASE j = i /\ i \in DOMAIN intents
      BY <2>2 DEF OwnKept, ExpectedKnown, IntentKept, IsOpen, OpenKept, Retained, ClaimOK,
         Reviewed, Unknown, Claim, Backup
  <2>3. CASE j \notin DOMAIN intents
    <3>1. /\ intents'[j].status = "pending" /\ intents'[j].review = NoReview
          /\ intents'[j].expected \in {Missing} \cup Known'
        BY <2>3 DEF Frame
    <3> QED BY <3>1 DEF ExpectedKnown, IntentKept, OpenKept, IsOpen, OpenStatuses
  <2> QED BY <2>1, <2>2, <2>3
<1> QED BY <1>5, <1>7, <1>8 DEF Kept, RunsKept

\* Steps beside the runs at work: the open intent and its files stay as they are.
SameRow(j) == /\ intents'[j].status = intents[j].status /\ intents'[j].rev = intents[j].rev
              /\ intents'[j].expected = intents[j].expected
              /\ intents'[j].review = intents[j].review
Undisturbed(i) ==
    /\ SameRow(i) /\ FilesStay(i) /\ disk'[Staged(i)] = disk[Staged(i)]
    /\ \A n \in Linked(disk) \cap Linked(disk') : data'[n] = data[n]
    /\ disk'[Target] = disk[Target] \/ (disk[Target] \in Linked(disk') => disk[Target] \in disowned')

LEMMA ContentsUndisturbed ==
    ASSUME FileTyped, FileTyped', NEW i, Undisturbed(i), {Backup(i), Claim(i), Staged(i)} \subseteq Names
    PROVE  /\ Content(Backup(i))' = Content(Backup(i)) /\ Content(Claim(i))' = Content(Claim(i))
           /\ StagedKnown(i) => StagedKnown(i)'
<1> ASSUME NEW name \in {Backup(i), Claim(i), Staged(i)}
    PROVE  /\ disk'[name] = disk[name]
           /\ disk[name] # NoFile => data'[disk[name]] = data[disk[name]]
  <2>1. disk'[name] = disk[name]
      BY DEF Undisturbed, FilesStay
  <2>2. disk[name] # NoFile => disk[name] \in Linked(disk) \cap Linked(disk')
      BY <2>1 DEF Linked
  <2> QED BY <2>1, <2>2 DEF Undisturbed
<1> QED BY DEF Content, StagedKnown, Backup, Claim, Staged

LEMMA RowUndisturbed ==
    ASSUME FileTyped, FileTyped', KnownStep, NEW i \in DOMAIN intents, i \in DOMAIN intents',
           Undisturbed(i), {Backup(i), Claim(i), Staged(i)} \subseteq Names, IsOpen(i),
           StagedKnown(i), ExpectedKnown(i), OpenKept(i)
    PROVE  OwnKept(i)' /\ (ClaimOK(i) => ClaimOK(i)')
<1>1. ClaimOK(i) => ClaimOK(i)'
    BY ClaimStays DEF Undisturbed, FilesStay
<1>2. StagedKnown(i)' /\ ExpectedKnown(i)' /\ IsOpen(i)'
    BY ContentsUndisturbed
       DEF Undisturbed, SameRow, ExpectedKnown, Known, KnownStep, IsOpen
<1>3. Reviewed(i) => Reviewed(i)'
    BY ContentsUndisturbed
       DEF Undisturbed, SameRow, Reviewed, Known, KnownStep, Unknown, Backup, Claim
<1>4. OpenKept(i)'
    BY <1>1, <1>3 DEF OpenKept, Undisturbed, SameRow
<1> QED BY <1>1, <1>2, <1>4 DEF OwnKept, IntentKept

LEMMA BystandersKeep ==
    ASSUME DbInv, DbInv', FileTyped, FileTyped', Kept, NEW i, i = pending, Frame(i),
           i \in DOMAIN intents => Undisturbed(i),
           \A f \in Executors : run'[f] = run[f] \/ ~AtWork(run'[f])
    PROVE  Kept'
<1>1. ASSUME i \in DOMAIN intents
      PROVE  /\ {Backup(i), Claim(i), Staged(i)} \subseteq Names /\ IsOpen(i)
             /\ StagedKnown(i) /\ ExpectedKnown(i) /\ OpenKept(i) /\ i \in DOMAIN intents'
  <2>1. IsOpen(i) /\ i \in 1 .. MaxIntents
      BY <1>1, IntentNumbers DEF DbInv, DbTyped, PendingIsTheOpenIntent
  <2> QED BY <1>1, <2>1, NamesOfIntents DEF Kept, IntentKept, Frame
<1>2. ASSUME i \in DOMAIN intents
      PROVE  OwnKept(i)' /\ (ClaimOK(i) => ClaimOK(i)')
    BY <1>1, <1>2, RowUndisturbed DEF Frame
<1>3. ASSUME NEW f \in Executors, AtWork(run'[f]) PROVE RunKept(run[f])'
  <2>1. run'[f] = run[f] /\ AtWork(run[f]) /\ RunKept(run[f])
      BY <1>3 DEF Kept
  <2>2. run[f].i = i /\ i \in DOMAIN intents
    <3>1. run[f].i \in DOMAIN intents /\ IsOpen(run[f].i)
        BY <2>1, RunFacts
    <3> QED BY <3>1 DEF DbInv, PendingIsTheOpenIntent
  <2>3. PICK r : r = run[f]
      OBVIOUS
  <2>4. run'[f] = r /\ r.i = i /\ RunKept(r)
      BY <2>1, <2>2, <2>3
  <2>5. ASSUME SeenOf(i, r.seen) PROVE SeenOf(i, r.seen)'
      BY <1>1, <2>2, <2>5, ContentsUndisturbed DEF SeenOf
  <2>6. RunKept(r)'
      BY <1>2, <2>2, <2>4, <2>5 DEF RunKept, Undisturbed, SameRow
  <2> QED BY <2>4, <2>6 DEF RunKept
<1> QED BY <1>2, <1>3, OthersStay DEF RunsKept

\* Only what the editor does to the page's path, and to what it holds open, is left to say of
\* its steps.
NoHandles == "handle" \notin EditorWays
KInv == NoHandles /\ IInv /\ Kept

LEMMA EditorKept ==
    ASSUME KInv, IInv', Editor
    PROVE  Kept'
<1>1. DbInv /\ DbInv' /\ FileInv /\ FileInv' /\ FileTyped /\ FileTyped' /\ Kept /\ NoHandles
    BY DEF KInv, IInv, FileInv
<1>2. PICK i : i = pending
    OBVIOUS
<1>3. Types
    BY <1>1, EditorTypes
<1>4. KnownStep /\ UNCHANGED dbVars /\ UNCHANGED run
    BY <1>1, <1>3 DEF Types, KnownStep, NoHandles, dbVars
<1>5. Frame(i)
    BY <1>3, <1>4 DEF Types, Frame, RowStays, dbVars
<1>6. ASSUME i \in DOMAIN intents PROVE Undisturbed(i)
  <2>1. {Backup(i), Claim(i), Staged(i)} \subseteq Names \ {Target}
      BY <1>1, <1>6, NamesOfIntents, NamesDiffer
  <2> QED BY <1>1, <1>3, <1>4, <2>1
          DEF Types, Undisturbed, SameRow, FilesStay, dbVars, NoHandles
<1> QED BY <1>1, <1>2, <1>4, <1>5, <1>6, BystandersKeep

\* Steps that leave the files alone, and of rows all but leases and baselines of closed ones.
BaselineStays(j) ==
    \/ intents'[j].baseline = intents[j].baseline
    \/ intents'[j].baseline = Content(Backup(j)) /\ Content(Backup(j)) \in recorded'
RowsStay == /\ UNCHANGED fileVars /\ recorded \subseteq recorded'
            /\ DOMAIN intents' = DOMAIN intents
            /\ \A j \in DOMAIN intents : SameRow(j) /\ BaselineStays(j)
            /\ \A f \in Executors : run'[f] = run[f] \/ ~AtWork(run'[f])

LEMMA FilesUnchanged ==
    ASSUME UNCHANGED fileVars, recorded \subseteq recorded'
    PROVE  KnownStep /\ Linked(disk') = Linked(disk)
    BY DEF KnownStep, fileVars, Linked

LEMMA RowsStayKeeps ==
    ASSUME KInv, IInv', RowsStay
    PROVE  Kept'
<1>1. DbInv /\ DbInv' /\ FileTyped /\ FileTyped' /\ Kept
    BY DEF KInv, IInv, FileInv
<1>2. PICK i : i = pending
    OBVIOUS
<1>3. KnownStep /\ UNCHANGED fileVars
    BY FilesUnchanged DEF RowsStay
<1>4. Frame(i)
    BY <1>3 DEF Frame, RowsStay, RowStays, BaselineStays, SameRow, fileVars
<1>5. i \in DOMAIN intents => Undisturbed(i)
    BY <1>3 DEF RowsStay, Undisturbed, FilesStay, fileVars
<1> QED BY <1>1, <1>2, <1>4, <1>5, BystandersKeep DEF RowsStay

LEMMA RowSame ==
    ASSUME NEW j, intents'[j] = intents[j]
    PROVE  SameRow(j) /\ BaselineStays(j)
    BY DEF SameRow, BaselineStays

\* One row changes, and in nothing but its lease or its baseline.
LEMMA OneRowChanges ==
    ASSUME DbInv, NEW i \in DOMAIN intents, NEW w, intents' = [intents EXCEPT ![i] = w],
           w.status = intents[i].status, w.rev = intents[i].rev,
           w.expected = intents[i].expected, w.review = intents[i].review,
           \/ w.baseline = intents[i].baseline
           \/ w.baseline = Content(Backup(i)) /\ Content(Backup(i)) \in recorded'
    PROVE  /\ DOMAIN intents' = DOMAIN intents
           /\ \A j \in DOMAIN intents : SameRow(j) /\ BaselineStays(j)
<1>1. intents \in Seq(Intent)
    BY DEF DbInv, DbTyped
<1>2. /\ DOMAIN intents' = DOMAIN intents /\ intents'[i] = w
      /\ \A j \in DOMAIN intents : j # i => intents'[j] = intents[j]
    BY <1>1
<1> QED BY <1>2, RowSame DEF SameRow, BaselineStays

LEMMA TimeKept ==
    ASSUME KInv, IInv',
           \/ UNCHANGED vars
           \/ \E e \in Executors : \/ Retire(e) \/ Crash(e)
                                   \/ \E i \in DOMAIN intents : ClaimIntent(e, i)
           \/ \E i \in DOMAIN intents : ReconcileBackup(i) \/ Expire(i)
    PROVE  Kept'
<1>1. /\ DbInv /\ run \in [Executors -> RunRecord] /\ intents \in Seq(Intent)
      /\ \A i \in DOMAIN intents : intents[i] \in Intent
    BY IntentNumbers DEF KInv, IInv, DbInv, DbTyped
<1>2. CASE UNCHANGED vars
  <2>1. UNCHANGED <<intents, recorded, run>> /\ UNCHANGED fileVars
      BY <1>2 DEF vars, dbVars
  <2> QED BY <2>1, RowSame, RowsStayKeeps DEF RowsStay
<1>3. ASSUME NEW e \in Executors, Retire(e) \/ Crash(e) PROVE Kept'
  <2>1. /\ intents' = Orphaned(e) /\ UNCHANGED fileVars /\ recorded' = recorded
        /\ \A f \in Executors : run'[f] = run[f] \/ run'[f] = Idle
      BY <1>1, <1>3 DEF Retire, Crash, Leave
  <2>2. ASSUME NEW j \in DOMAIN intents PROVE SameRow(j) /\ BaselineStays(j)
    <3>1. intents'[j] \in {intents[j], [intents[j] EXCEPT !.owner = Gone]}
        BY <2>1 DEF Orphaned
    <3>2. intents[j] \in Intent
        BY <1>1
    <3> QED BY <3>1, <3>2, RowSame DEF SameRow, BaselineStays, Intent
  <2>3. DOMAIN intents' = DOMAIN intents
      BY <2>1 DEF Orphaned
  <2>4. \A f \in Executors : run'[f] = run[f] \/ ~AtWork(run'[f])
      BY <2>1, IdleTyped DEF AtWork
  <2> QED BY <2>1, <2>2, <2>3, <2>4, RowsStayKeeps DEF RowsStay
<1>4. ASSUME NEW e \in Executors, NEW i \in DOMAIN intents, ClaimIntent(e, i) PROVE Kept'
  <2>1. PICK w : w = [[intents[i] EXCEPT !.owner = e] EXCEPT !.lapsed = FALSE]
      OBVIOUS
  <2>2. /\ w.status = intents[i].status /\ w.rev = intents[i].rev
        /\ w.expected = intents[i].expected /\ w.review = intents[i].review
        /\ w.baseline = intents[i].baseline
      BY <1>1, <2>1 DEF Intent
  <2>3. intents' = [intents EXCEPT ![i] = w] /\ UNCHANGED fileVars /\ recorded' = recorded
      BY <1>1, <1>4, <2>1 DEF ClaimIntent
  <2>4. \A f \in Executors : run'[f] = run[f] \/ run'[f].at = "lock"
      BY <1>1, <1>4, IdleTyped DEF ClaimIntent, RunRecord
  <2> QED BY <1>1, <2>2, <2>3, <2>4, OneRowChanges, RowsStayKeeps DEF RowsStay, AtWork
<1>5. ASSUME NEW i \in DOMAIN intents, ReconcileBackup(i) PROVE Kept'
  <2>1. PICK w : w = [intents[i] EXCEPT !.baseline = Content(Backup(i))]
      OBVIOUS
  <2>2. /\ w.status = intents[i].status /\ w.rev = intents[i].rev
        /\ w.expected = intents[i].expected /\ w.review = intents[i].review
        /\ w.baseline = Content(Backup(i))
      BY <1>1, <2>1 DEF Intent
  <2>3. /\ intents' = [intents EXCEPT ![i] = w] /\ UNCHANGED fileVars /\ UNCHANGED run
        /\ recorded' = recorded \cup {Content(Backup(i))}
      BY <1>1, <1>5, <2>1 DEF ReconcileBackup
  <2> QED BY <1>1, <2>2, <2>3, OneRowChanges, RowsStayKeeps DEF RowsStay
<1>6. ASSUME NEW i \in DOMAIN intents, Expire(i) PROVE Kept'
  <2>1. PICK w : w = [intents[i] EXCEPT !.lapsed = TRUE]
      OBVIOUS
  <2>2. /\ w.status = intents[i].status /\ w.rev = intents[i].rev
        /\ w.expected = intents[i].expected /\ w.review = intents[i].review
        /\ w.baseline = intents[i].baseline
      BY <1>1, <2>1 DEF Intent
  <2>3. /\ intents' = [intents EXCEPT ![i] = w] /\ UNCHANGED fileVars /\ UNCHANGED run
        /\ recorded' = recorded
      BY <1>1, <1>6, <2>1 DEF Expire
  <2> QED BY <1>1, <2>2, <2>3, OneRowChanges, RowsStayKeeps DEF RowsStay
<1> QED BY <1>2, <1>3, <1>4, <1>5, <1>6

\* A new intent expects what the database has, or nothing; nobody is at work.
LEMMA AppendedKept ==
    ASSUME KInv, IInv', NEW rev \in Nat, NEW x \in {Missing} \cup Known', x \in Mark,
           pending = None, UNCHANGED fileVars, recorded \subseteq recorded', UNCHANGED run,
           intents' = Append(intents, NewIntent(rev, x))
    PROVE  Kept'
<1>1. /\ DbInv /\ DbInv' /\ FileTyped /\ FileTyped' /\ Kept /\ intents \in Seq(Intent)
      /\ DOMAIN intents = 1 .. Len(intents) /\ Len(intents) \in Nat
    BY IntentNumbers DEF KInv, IInv, FileInv, DbInv, DbTyped
<1>2. PICK w : w = NewIntent(rev, x)
    OBVIOUS
<1>3. w.status = "pending" /\ w.review = NoReview /\ w.expected = x
    BY <1>1, <1>2, NewTyped
<1>4. /\ DOMAIN intents' = DOMAIN intents \cup {Len(intents) + 1}
      /\ intents'[Len(intents) + 1] = w
      /\ \A j \in DOMAIN intents : intents'[j] = intents[j]
    BY <1>1, <1>2
<1>5. KnownStep /\ disk' = disk
    BY FilesUnchanged DEF fileVars
<1>6. \A j \in DOMAIN intents : RowStays(j)
    BY <1>4 DEF RowStays
<1>7. PICK i : i = pending
    OBVIOUS
<1>8. Frame(i)
    BY <1>3, <1>4, <1>5, <1>6 DEF Frame
<1>9. i \notin DOMAIN intents
    BY <1>1, <1>7 DEF None
<1> QED BY <1>1, <1>7, <1>8, <1>9, BystandersKeep

LEMMA PreparationsKept ==
    ASSUME KInv, IInv', PrepareEdit \/ PrepareNew \/ PrepareLegacy \/ Ingest
    PROVE  Kept'
<1>1. DbInv /\ FileTyped /\ current \in Nat \cup {None} /\ newest \in Nat /\ newest + 1 \in Nat
    BY DEF KInv, IInv, FileInv, DbInv, DbTyped
<1>2. Content(Target) \in Mark /\ Missing \in Mark /\ Nat \subseteq Mark
    BY <1>1, ContentTyped, NamesDiffer DEF Mark, Contents
<1>3. ASSUME NEW x \in {Missing} \cup Known', x \in Mark, Prepare(x),
             recorded \subseteq recorded'
      PROVE  Kept'
  <2>1. PICK rev \in Nat : rev = newest'
      BY <1>1, <1>3 DEF Prepare
  <2> QED BY <1>3, <2>1, AppendedKept DEF Prepare
<1>4. CASE PrepareEdit
  <2>1. current \in Nat
      BY <1>1, <1>4 DEF PrepareEdit
  <2> QED BY <1>2, <1>3, <1>4, <2>1 DEF PrepareEdit, Known
<1>5. CASE PrepareNew
    BY <1>2, <1>3, <1>5 DEF PrepareNew
<1>6. CASE PrepareLegacy \/ (Ingest /\ Prepare(Content(Target)))
  <2>1. PICK x : x = Content(Target)
      OBVIOUS
  <2>2. recorded' = recorded \cup {x} /\ Prepare(x) /\ x \in Mark
      BY <1>2, <1>6, <2>1 DEF PrepareLegacy, Ingest
  <2> QED BY <1>3, <2>2 DEF Known
<1>7. CASE Ingest /\ UNCHANGED <<intents, fileVars, run>>
  <2>1. recorded \subseteq recorded'
      BY <1>7 DEF Ingest
  <2> QED BY <1>7, <2>1, RowSame, RowsStayKeeps DEF RowsStay
<1> QED BY <1>4, <1>5, <1>6, <1>7 DEF Ingest

\* A run at work is at the one open intent, and no other run is at work.
LEMMA WorksAlone ==
    ASSUME DbInv, NEW e \in Executors, AtWork(run[e])
    PROVE  /\ run[e].i = pending /\ run[e].i \in DOMAIN intents /\ IsOpen(run[e].i)
           /\ intents[run[e].i] \in Intent /\ InPhase(run[e], intents[run[e].i])
           /\ \A f \in Executors : f # e => ~AtWork(run[f])
<1>1. /\ run[e].i \in DOMAIN intents /\ IsOpen(run[e].i)
      /\ intents[run[e].i] \in Intent /\ InPhase(run[e], intents[run[e].i])
    BY RunFacts
<1>2. run[e].i = pending
    BY <1>1 DEF DbInv, PendingIsTheOpenIntent
<1> QED BY <1>1, <1>2, OneAtWork

\* What the invariant says of the intent that a run is at work at.
LEMMA OwnFacts ==
    ASSUME KInv, NEW e \in Executors, AtWork(run[e])
    PROVE  /\ StagedKnown(run[e].i) /\ ExpectedKnown(run[e].i) /\ OpenKept(run[e].i)
           /\ RunKept(run[e])
           /\ {Target, Backup(run[e].i), Claim(run[e].i), Staged(run[e].i)} \subseteq Names
<1>1. PICK i \in DOMAIN intents : i = run[e].i
    BY WorksAlone DEF KInv, IInv
<1>2. IsOpen(i) /\ i \in 1 .. MaxIntents
    BY <1>1, WorksAlone, IntentNumbers DEF KInv, IInv, DbInv, DbTyped
<1>3. {Target, Backup(i), Claim(i), Staged(i)} \subseteq Names
    BY NamesOfIntents DEF KInv, IInv
<1> QED BY <1>1, <1>2, <1>3 DEF KInv, Kept, IntentKept

\* What a step of a run leaves to show: its own row and files, and its own next step.
LEMMA StepKeeps ==
    ASSUME KInv, IInv', NEW e \in Executors, AtWork(run[e]), Alone(e),
           NEW i, i = run[e].i, Service(i), recorded \subseteq recorded',
           DOMAIN intents' = DOMAIN intents,
           \A j \in DOMAIN intents \ {i} : intents'[j] = intents[j],
           OwnKept(i)', AtWork(run'[e]) => RunKept(run[e])'
    PROVE  Kept'
<1>1. /\ DbInv /\ DbInv' /\ FileTyped /\ FileTyped' /\ Kept
      /\ i = pending /\ i \in DOMAIN intents
      /\ \A f \in Executors : f # e => ~AtWork(run[f])
    BY WorksAlone DEF KInv, IInv, FileInv
<1>2. KnownStep
    BY DEF Service, KnownStep
<1>3. Frame(i)
    BY <1>2 DEF Service, Frame, RowStays
<1>4. RunsKept'
  <2> SUFFICES ASSUME NEW f \in Executors, AtWork(run'[f]) PROVE RunKept(run[f])'
      BY DEF RunsKept
  <2>1. f = e
      BY <1>1 DEF Alone
  <2> QED BY <2>1
<1> QED BY <1>1, <1>3, <1>4, OthersStay

\* The same where the files are left alone.
LEMMA RowMoves ==
    ASSUME KInv, IInv', NEW e \in Executors, AtWork(run[e]), Alone(e),
           NEW i, i = run[e].i, UNCHANGED fileVars, recorded \subseteq recorded',
           NEW w, intents' = [intents EXCEPT ![i] = w], w.expected = intents[i].expected,
           IntentKept(i)', AtWork(run'[e]) => RunKept(run[e])'
    PROVE  Kept'
<1>1. /\ FileTyped /\ i \in DOMAIN intents /\ intents \in Seq(Intent)
    BY WorksAlone DEF KInv, IInv, FileInv, DbInv, DbTyped
<1>2. Service(i)
    BY <1>1, ServiceUnchanged
<1>3. /\ DOMAIN intents' = DOMAIN intents /\ intents'[i] = w
      /\ \A j \in DOMAIN intents \ {i} : intents'[j] = intents[j]
    BY <1>1
<1>4. StagedKnown(i) /\ ExpectedKnown(i)
    BY OwnFacts
<1>5. StagedKnown(i)' /\ ExpectedKnown(i)'
    BY <1>3, <1>4 DEF StagedKnown, ExpectedKnown, Known, fileVars, Staged
<1> QED BY <1>2, <1>3, <1>5, StepKeeps DEF OwnKept

\* Steps that leave rows as they are, but for the lease.
RowsStill(e) == /\ \/ intents' = intents
                   \/ intents' = [intents EXCEPT ![run[e].i].lapsed = FALSE]
                /\ recorded' = recorded

LEMMA StillRows ==
    ASSUME DbInv, NEW e \in Executors, run[e].i \in DOMAIN intents, RowsStill(e)
    PROVE  /\ DOMAIN intents' = DOMAIN intents
           /\ \A j \in DOMAIN intents : SameRow(j) /\ BaselineStays(j)
           /\ \A j \in DOMAIN intents \ {run[e].i} : intents'[j] = intents[j]
<1>1. intents \in Seq(Intent) /\ intents[run[e].i] \in Intent
    BY IntentNumbers DEF DbInv, DbTyped
<1>2. CASE intents' = intents
    BY <1>2, RowSame
<1>3. CASE intents' = [intents EXCEPT ![run[e].i].lapsed = FALSE]
  <2>1. PICK w : w = [intents[run[e].i] EXCEPT !.lapsed = FALSE]
      OBVIOUS
  <2>2. /\ w.status = intents[run[e].i].status /\ w.rev = intents[run[e].i].rev
        /\ w.expected = intents[run[e].i].expected /\ w.review = intents[run[e].i].review
        /\ w.baseline = intents[run[e].i].baseline
      BY <1>1, <2>1 DEF Intent
  <2>3. intents' = [intents EXCEPT ![run[e].i] = w]
      BY <1>1, <1>3, <2>1
  <2> QED BY <1>1, <2>2, <2>3, OneRowChanges
<1> QED BY <1>2, <1>3 DEF RowsStill

\* With the files left alone as well, a run may go wherever the state allows it.
LEMMA StillKeeps ==
    ASSUME KInv, IInv', NEW e \in Executors, run[e].i \in DOMAIN intents,
           UNCHANGED fileVars, RowsStill(e),
           \A f \in Executors : f # e => run'[f] = run[f],
           NEW r, run'[e] = r, AtWork(r) => RunKept(r) /\ r.i = run[e].i /\ IsOpen(r.i)
    PROVE  Kept'
<1>1. /\ DbInv /\ DbInv' /\ FileTyped /\ FileTyped' /\ Kept
    BY DEF KInv, IInv, FileInv
<1>2. /\ DOMAIN intents' = DOMAIN intents
      /\ \A j \in DOMAIN intents : SameRow(j) /\ BaselineStays(j)
    BY <1>1, StillRows
<1>3. KnownStep /\ recorded' = recorded
    BY FilesUnchanged DEF RowsStill
<1>4. PICK i : i = pending
    OBVIOUS
<1>5. Frame(i)
    BY <1>2, <1>3 DEF Frame, RowStays, BaselineStays, SameRow, fileVars
<1>6. ASSUME i \in DOMAIN intents PROVE OwnKept(i)'
  <2>1. Undisturbed(i)
      BY <1>2, <1>6 DEF Undisturbed, FilesStay, fileVars
  <2>2. /\ IsOpen(i) /\ i \in 1 .. MaxIntents /\ i \in DOMAIN intents'
      BY <1>1, <1>2, <1>4, <1>6, IntentNumbers DEF DbInv, DbTyped, PendingIsTheOpenIntent
  <2>3. StagedKnown(i) /\ ExpectedKnown(i) /\ OpenKept(i)
      BY <1>6, <2>2, <1>1 DEF Kept, IntentKept
  <2>4. {Backup(i), Claim(i), Staged(i)} \subseteq Names
      BY <1>1, <1>6, NamesOfIntents
  <2> QED BY <1>1, <1>3, <1>6, <2>1, <2>2, <2>3, <2>4, RowUndisturbed
<1>7. ASSUME NEW q, q.i \in DOMAIN intents, RunKept(q) PROVE RunKept(q)'
  <2>1. ClaimOK(q.i) => ClaimOK(q.i)'
      BY <1>3 DEF ClaimOK, KnownFile, Known, fileVars, Claim, Backup, Target
  <2>2. SeenOf(q.i, q.seen) => SeenOf(q.i, q.seen)'
      BY DEF SeenOf, Content, fileVars, Claim, Backup
  <2>3. intents'[q.i].review = intents[q.i].review
      BY <1>2, <1>7 DEF SameRow
  <2> QED BY <1>7, <2>1, <2>2, <2>3 DEF RunKept
<1>8. RunsKept'
  <2> SUFFICES ASSUME NEW f \in Executors, AtWork(run'[f]) PROVE RunKept(run[f])'
      BY DEF RunsKept
  <2>1. PICK q : q = run'[f]
      OBVIOUS
  <2>2. RunKept(q) /\ q.i \in DOMAIN intents
      BY <1>1, <2>1, WorksAlone DEF Kept
  <2> QED BY <1>7, <2>1, <2>2 DEF RunKept
<1> QED BY <1>1, <1>4, <1>5, <1>6, <1>8, OthersStay

\* A run at work past capture, or on its way there, has an intent without an open question.
LEMMA NoQuestion ==
    ASSUME KInv, NEW e \in Executors, AtWork(run[e]), run[e].at \notin {"observe", "recover"}
    PROVE  intents[run[e].i].review = NoReview
    BY OwnFacts DEF RunKept

\* Steps that only look and move on.
LEMMA LockKept ==
    ASSUME KInv, IInv', NEW e \in Executors, Lock(e)
    PROVE  Kept'
<1>1. /\ DbInv /\ Kept /\ run[e].i \in DOMAIN intents /\ run \in [Executors -> RunRecord]
    BY RunFacts DEF KInv, IInv, Lock, At, DbInv, DbTyped
<1>2. UNCHANGED fileVars /\ RowsStill(e)
    BY DEF Lock, RowsStill, dbVars
<1>3. CASE Leave(e)
    BY <1>1, <1>2, <1>3, LeaveFacts, IdleTyped, StillKeeps DEF Alone, AtWork
<1>4. CASE ~LockTaken(e) /\ Holds(e, run[e].i) /\ Goto(e, FirstStep(intents[run[e].i].status))
  <2>1. PICK r : r = run'[e]
      OBVIOUS
  <2>2. /\ Alone(e) /\ r.i = run[e].i /\ r.at = FirstStep(intents[r.i].status)
      BY <1>1, <1>4, <2>1, GotoFacts
  <2>3. IsOpen(r.i) /\ OpenKept(r.i) /\ r.i \in DOMAIN intents
      BY <1>1, <1>4, <2>2 DEF Holds, Kept, IntentKept
  <2>4. RunKept(r)
    <3>1. intents[r.i].status \in {"pending", "captured", "installed", "recovery_required"}
        BY <2>3 DEF IsOpen, OpenStatuses
    <3>2. /\ r.at \in {"capture", "install", "finalize", "observe"}
          /\ r.at \in {"install", "finalize"} <=> intents[r.i].status \in {"captured", "installed"}
          /\ r.at = "observe" <=> intents[r.i].status = "recovery_required"
        BY <2>2, <3>1 DEF FirstStep
    <3>3. intents[r.i].review # NoReview => intents[r.i].status = "recovery_required"
        BY <2>3 DEF OpenKept, Reviewed
    <3> QED BY <2>3, <3>2, <3>3 DEF RunKept, PastCapture, HasCaptured, OpenKept
  <2> QED BY <1>1, <1>2, <2>1, <2>2, <2>3, <2>4, StillKeeps DEF Alone
<1> QED BY <1>3, <1>4 DEF Lock

\* The end of a run.
LEMMA LeaveKept ==
    ASSUME KInv, IInv', NEW e \in Executors, AtWork(run[e]), Leave(e),
           UNCHANGED fileVars, RowsStill(e)
    PROVE  Kept'
<1>1. DbInv /\ run[e].i \in DOMAIN intents
    BY WorksAlone DEF KInv, IInv
<1> QED BY <1>1, LeaveFacts, IdleTyped, StillKeeps DEF Alone, AtWork

\* Going on, when there is no open question or the next step is to recover.
LEMMA GotoKept ==
    ASSUME KInv, IInv', NEW e \in Executors, AtWork(run[e]), NEW step, Goto(e, step),
           UNCHANGED fileVars, RowsStill(e),
           intents[run[e].i].review = NoReview, step # "recover",
           step \in PastCapture => ClaimOK(run[e].i)
    PROVE  Kept'
<1>1. DbInv /\ run[e].i \in DOMAIN intents /\ IsOpen(run[e].i)
    BY WorksAlone DEF KInv, IInv
<1>2. PICK r : r = run'[e]
    OBVIOUS
<1>3. Alone(e) /\ r.at = step /\ r.i = run[e].i
    BY <1>1, <1>2, GotoFacts
<1>4. RunKept(r)
    BY <1>3 DEF RunKept
<1> QED BY <1>1, <1>2, <1>3, <1>4, StillKeeps DEF Alone

LEMMA InstallKept ==
    ASSUME KInv, IInv', NEW e \in Executors, Install(e)
    PROVE  Kept'
<1>1. /\ AtWork(run[e]) /\ UNCHANGED fileVars /\ RowsStill(e) /\ run[e].at = "install"
    BY DEF Install, Renewing, At, AtWork, RowsStill
<1>2. intents[run[e].i].review = NoReview /\ ClaimOK(run[e].i)
    BY <1>1, OwnFacts, NoQuestion DEF RunKept, PastCapture, HasCaptured
<1>3. PICK step \in {"stage", "advance", "fail"} : Goto(e, step)
    BY DEF Install
<1> QED BY <1>1, <1>2, <1>3, GotoKept

LEMMA ObserveKept ==
    ASSUME KInv, IInv', NEW e \in Executors, Observe(e)
    PROVE  Kept'
<1>1. /\ AtWork(run[e]) /\ UNCHANGED fileVars /\ RowsStill(e) /\ run[e].at = "observe"
    BY DEF Observe, Renewing, At, AtWork, RowsStill
<1>2. /\ DbInv /\ run[e].i \in DOMAIN intents /\ IsOpen(run[e].i)
      /\ run \in [Executors -> RunRecord] /\ run[e] \in RunRecord
    BY <1>1, WorksAlone DEF KInv, IInv, DbInv, DbTyped
<1>3. PICK i : i = run[e].i
    OBVIOUS
<1>4. PICK seen : seen = [target |-> Content(Target), backup |-> Content(Backup(i)),
                          staged |-> Content(Staged(i)),
                          claim |-> IF disk[Claim(i)] \in {disk[Target], disk[Backup(i)]}
                                    THEN Missing ELSE Content(Claim(i))]
    OBVIOUS
<1>5. run' = [run EXCEPT ![e].at = "recover", ![e].seen = seen]
    BY <1>3, <1>4 DEF Observe
<1>6. PICK r : r = run'[e]
    OBVIOUS
<1>7. /\ r.at = "recover" /\ r.seen = seen /\ r.i = i
      /\ \A f \in Executors : f # e => run'[f] = run[f]
    BY <1>2, <1>3, <1>5, <1>6 DEF RunRecord
<1>8. SeenOf(i, seen)
  <2>1. Content(Backup(i)) = seen.backup
      BY <1>4
  <2>2. CASE disk[Claim(i)] \in {disk[Target], disk[Backup(i)]}
      BY <1>4, <2>1, <2>2 DEF SeenOf, Content
  <2>3. CASE disk[Claim(i)] \notin {disk[Target], disk[Backup(i)]}
      BY <1>4, <2>1, <2>3 DEF SeenOf
  <2> QED BY <2>2, <2>3
<1>9. RunKept(r)
    BY <1>7, <1>8 DEF RunKept, PastCapture, HasCaptured
<1> QED BY <1>1, <1>2, <1>3, <1>6, <1>7, <1>9, StillKeeps

\* Where recovery has found nothing unknown, there is no open question, and backup and claim
\* are known.
LEMMA NothingUnknown ==
    ASSUME KInv, NEW e \in Executors, At(e, "recover"), UnknownSeen(run[e].i, run[e].seen) = {}
    PROVE  /\ intents[run[e].i].review = NoReview
           /\ KnownFile(disk[Backup(run[e].i)]) /\ KnownFile(disk[Claim(run[e].i)])
<1>1. AtWork(run[e]) /\ FileTyped
    BY DEF At, AtWork, KInv, IInv, FileInv
<1>2. PICK i : i = run[e].i
    OBVIOUS
<1>3. PICK seen : seen = run[e].seen
    OBVIOUS
<1>4. /\ SeenOf(i, seen) /\ ExpectedKnown(i) /\ OpenKept(i) /\ intents[i].rev \in Nat
      /\ {Backup(i), Claim(i)} \subseteq Names
    BY <1>1, <1>2, <1>3, OwnFacts, WorksAlone DEF At, RunKept, KInv, IInv, Intent
<1>5. \A x \in {seen.target, seen.backup, seen.claim} : ~Unknown(i, x)
    BY <1>2, <1>3 DEF UnknownSeen
<1>6. \A x \in {seen.target, seen.backup, seen.claim} : x \in {Missing} \cup Known
    BY <1>4, <1>5 DEF Unknown, ExpectedKnown, Known
<1>7. /\ Content(Backup(i)) \in {Missing} \cup Known /\ Content(Claim(i)) \in {Missing} \cup Known
      /\ ~Unknown(i, Content(Backup(i)))
    BY <1>4, <1>5, <1>6 DEF SeenOf
<1>8. intents[i].review = NoReview
    BY <1>4, <1>7 DEF OpenKept, Reviewed
<1>9. \A name \in {Backup(i), Claim(i)} : KnownFile(disk[name])
    BY <1>1, <1>4, <1>7, ContentTyped DEF Content, KnownFile
<1> QED BY <1>2, <1>8, <1>9

LEMMA RecoverGoesOnKept ==
    ASSUME KInv, IInv', NEW e \in Executors, RecoverIntended(e) \/ RecoverExpected(e)
    PROVE  Kept'
<1>1. /\ AtWork(run[e]) /\ UNCHANGED fileVars /\ RowsStill(e) /\ At(e, "recover")
      /\ UnknownSeen(run[e].i, run[e].seen) = {}
    BY DEF RecoverIntended, RecoverExpected, Renewing, At, AtWork, RowsStill
<1>2. intents[run[e].i].review = NoReview /\ ClaimOK(run[e].i)
    BY <1>1, NothingUnknown DEF ClaimOK
<1>3. PICK step \in {"stage", "advance", "fail", "capture"} : Goto(e, step)
    BY DEF RecoverIntended, RecoverExpected
<1> QED BY <1>1, <1>2, <1>3, GotoKept

LEMMA LoseLeaseKept ==
    ASSUME KInv, IInv', NEW e \in Executors, LoseLease(e)
    PROVE  Kept'
<1>1. AtWork(run[e]) /\ UNCHANGED fileVars /\ RowsStill(e) /\ Leave(e)
    BY DEF LoseLease, AtWork, Leased, RowsStill, dbVars
<1> QED BY <1>1, LeaveKept

\* The calls of capture.  The intent's capture is not recorded yet, so that its claim has to be
\* accounted for only by a run that is about to record it.
LEMMA CaptureStepKept ==
    ASSUME KInv, IInv', NEW e \in Executors, AtWork(run[e]), Alone(e),
           NEW i, i = run[e].i, Service(i), RowsStill(e),
           run[e].at \in {"capture", "link", "grab", "settle"},
           disk'[Staged(i)] = disk[Staged(i)],
           run'[e].i = i, run'[e].at \in {"fail", "link", "grab", "settle", "record"},
           run'[e].at = "record" => ClaimOK(i)'
    PROVE  Kept'
<1>1. /\ DbInv /\ FileTyped /\ i \in DOMAIN intents /\ IsOpen(i)
      /\ InPhase(run[e], intents[i])
    BY WorksAlone DEF KInv, IInv, FileInv
<1>2. /\ StagedKnown(i) /\ ExpectedKnown(i) /\ Staged(i) \in Names
      /\ intents[i].review = NoReview
    BY OwnFacts, NoQuestion
<1>3. /\ DOMAIN intents' = DOMAIN intents /\ SameRow(i)
      /\ \A j \in DOMAIN intents \ {i} : intents'[j] = intents[j]
    BY <1>1, StillRows
<1>4. KnownStep
    BY DEF Service, KnownStep, RowsStill
<1>5. StagedKnown(i)'
  <2>1. PICK n : n = disk[Staged(i)]
      OBVIOUS
  <2>2. n # NoFile => n \in Linked(disk) /\ data[n] \in Nat \cup {Torn}
      BY <1>1, <1>2, <2>1, ContentTyped DEF StagedKnown
  <2>3. n # NoFile => data'[n] \in Nat \cup {Torn}
      BY <2>2 DEF Service
  <2> QED BY <2>1, <2>3 DEF StagedKnown, Staged
<1>6. ExpectedKnown(i)' /\ IsOpen(i)' /\ intents'[i].review = NoReview
    BY <1>1, <1>2, <1>3 DEF SameRow, ExpectedKnown, Known, RowsStill, IsOpen
<1>7. intents'[i].status \notin {"captured", "installed"}
    BY <1>1, <1>3 DEF InPhase, SameRow
<1>8. OwnKept(i)'
    BY <1>5, <1>6, <1>7 DEF OwnKept, IntentKept, OpenKept
<1>9. RunKept(run[e])'
  <2>1. PICK r : r = run'[e]
      OBVIOUS
  <2>2. RunKept(r)'
      BY <2>1, <1>6 DEF RunKept, PastCapture, HasCaptured
  <2> QED BY <2>1, <2>2 DEF RunKept
<1> QED BY <1>3, <1>8, <1>9, StepKeeps DEF RowsStill

LEMMA CaptureKept ==
    ASSUME KInv, IInv', NEW e \in Executors, Capture(e)
    PROVE  Kept'
<1>1. PICK i : i = run[e].i
    OBVIOUS
<1>2. /\ DbInv /\ FileInv /\ FileTyped /\ FileTyped' /\ AtWork(run[e])
      /\ run[e].at = "capture" /\ RowsStill(e)
    BY DEF KInv, IInv, FileInv, Capture, Renewing, At, AtWork, RowsStill
<1>3. Service(i)
    BY <1>1, <1>2, CaptureServes DEF Serves
<1>4. Alone(e) /\ run'[e].at \in {"fail", "record", "link"} /\ run'[e].i = i
    BY <1>1, <1>2, GotoFacts, GotFacts DEF Capture
<1>5. {Target, Backup(i), Claim(i), Staged(i)} \subseteq Names
    BY <1>1, <1>2, OwnFacts
<1>6. CASE UNCHANGED fileVars
  <2>1. disk' = disk
      BY <1>6 DEF fileVars
  <2>2. ASSUME run'[e].at = "record" PROVE ClaimOK(i)'
    <3>1. disk[Claim(i)] \in {NoFile, disk[Backup(i)], disk[Target]}
      <4>1. ASSUME Goto(e, "fail") \/ Goto(e, "link") PROVE FALSE
          BY <1>2, <2>2, <4>1, GotoFacts
      <4> QED BY <1>1, <4>1 DEF Capture
    <3>2. disk'[Claim(i)] \in {NoFile, disk'[Backup(i)], disk'[Target]}
        BY <2>1, <3>1
    <3> QED BY <3>2 DEF ClaimOK, KnownFile, Claim, Backup, Target
  <2> QED BY <1>1, <1>2, <1>3, <1>4, <2>1, <2>2, CaptureStepKept
<1>7. CASE disk[Claim(i)] # NoFile /\ LinkedTo(Target, disk[Claim(i)]) /\ Goto(e, "fail")
  <2>1. disk[Claim(i)] \in Linked(disk)
      BY <1>5, <1>7 DEF Linked
  <2>2. disk' = [disk EXCEPT ![Target] = disk[Claim(i)]]
      BY <1>2, <1>5, <1>7, <2>1, LinkedToMoves
  <2>3. disk'[Staged(i)] = disk[Staged(i)]
      BY <2>2, <1>2, <1>5, NamesDiffer DEF FileTyped
  <2>4. run'[e].at = "fail"
      BY <1>2, <1>7, GotoFacts
  <2> QED BY <1>1, <1>2, <1>3, <1>4, <2>3, <2>4, CaptureStepKept
<1>8. CASE LinkedTo(Claim(i), NoFile)
  <2>1. disk' = [disk EXCEPT ![Claim(i)] = NoFile]
      BY <1>2, <1>5, <1>8, LinkedToMoves
  <2>2. disk'[Staged(i)] = disk[Staged(i)] /\ disk'[Claim(i)] = NoFile
      BY <2>1, <1>2, <1>5, NamesDiffer DEF FileTyped
  <2>3. ClaimOK(i)'
      BY <2>2 DEF ClaimOK, KnownFile, Claim
  <2> QED BY <1>1, <1>2, <1>3, <1>4, <2>2, <2>3, CaptureStepKept
<1> QED BY <1>1, <1>6, <1>7, <1>8 DEF Capture

LEMMA SettleKept ==
    ASSUME KInv, IInv', NEW e \in Executors, Settle(e)
    PROVE  Kept'
<1>1. PICK i : i = run[e].i
    OBVIOUS
<1>2. /\ DbInv /\ FileInv /\ FileTyped /\ FileTyped' /\ AtWork(run[e])
      /\ run[e].at = "settle" /\ RowsStill(e)
    BY DEF KInv, IInv, FileInv, Settle, At, AtWork, RowsStill, dbVars
<1>3. Service(i)
    BY <1>1, <1>2, SettleServes DEF Serves
<1>4. Alone(e) /\ run'[e].at \in {"fail", "record"} /\ run'[e].i = i
    BY <1>1, <1>2, GotoFacts, GotFacts DEF Settle
<1>5. {Target, Backup(i), Claim(i), Staged(i)} \subseteq Names
    BY <1>1, <1>2, OwnFacts
<1>6. CASE UNCHANGED fileVars /\ Goto(e, "fail")
  <2>1. disk' = disk /\ run'[e].at = "fail"
      BY <1>2, <1>6, GotoFacts DEF fileVars
  <2> QED BY <1>1, <1>2, <1>3, <1>4, <2>1, CaptureStepKept
<1>7. CASE LinkedTo(Target, disk[Claim(i)]) /\ Goto(e, "fail")
  <2>1. disk[Claim(i)] \in Linked(disk) \cup {NoFile}
      BY <1>5 DEF Linked
  <2>2. disk' = [disk EXCEPT ![Target] = disk[Claim(i)]]
      BY <1>2, <1>5, <1>7, <2>1, LinkedToMoves
  <2>3. disk'[Staged(i)] = disk[Staged(i)]
      BY <2>2, <1>2, <1>5, NamesDiffer DEF FileTyped
  <2>4. run'[e].at = "fail"
      BY <1>2, <1>7, GotoFacts
  <2> QED BY <1>1, <1>2, <1>3, <1>4, <2>3, <2>4, CaptureStepKept
<1>8. CASE LinkedTo(Claim(i), NoFile)
  <2>1. disk' = [disk EXCEPT ![Claim(i)] = NoFile]
      BY <1>2, <1>5, <1>8, LinkedToMoves
  <2>2. disk'[Staged(i)] = disk[Staged(i)] /\ disk'[Claim(i)] = NoFile
      BY <2>1, <1>2, <1>5, NamesDiffer DEF FileTyped
  <2>3. ClaimOK(i)'
      BY <2>2 DEF ClaimOK, KnownFile, Claim
  <2> QED BY <1>1, <1>2, <1>3, <1>4, <2>2, <2>3, CaptureStepKept
<1> QED BY <1>1, <1>6, <1>7, <1>8 DEF Settle

LEMMA LinkAndGrabKept ==
    ASSUME KInv, IInv', NEW e \in Executors, LinkBackup(e) \/ Grab(e)
    PROVE  Kept'
<1>1. PICK i : i = run[e].i
    OBVIOUS
<1>2. /\ DbInv /\ FileInv /\ FileTyped /\ FileTyped' /\ AtWork(run[e])
      /\ run[e].at \in {"link", "grab"} /\ RowsStill(e)
    BY DEF KInv, IInv, FileInv, LinkBackup, Grab, At, AtWork, RowsStill, dbVars
<1>3. Service(i)
    BY <1>1, <1>2, LinkBackupServes, GrabServes DEF Serves
<1>4. Alone(e) /\ run'[e].at \in {"fail", "grab", "settle"} /\ run'[e].i = i
    BY <1>1, <1>2, GotoFacts DEF LinkBackup, Grab
<1>5. /\ {Target, Backup(i), Claim(i), Staged(i)} \subseteq Names
      /\ disk \in [Names -> Inodes \cup {NoFile}]
    BY <1>1, <1>2, OwnFacts DEF FileTyped
<1>6. disk'[Staged(i)] = disk[Staged(i)]
  <2>1. \/ UNCHANGED fileVars
        \/ LinkedTo(Backup(i), disk[Target])
        \/ disk' = [disk EXCEPT ![Target] = NoFile, ![Claim(i)] = disk[Target]]
      BY <1>1 DEF LinkBackup, Grab, SetFiles, Files
  <2>2. disk[Target] \in Linked(disk) \cup {NoFile}
      BY <1>5 DEF Linked
  <2>3. CASE LinkedTo(Backup(i), disk[Target])
      BY <1>2, <1>5, <2>2, <2>3, LinkedToMoves, NamesDiffer
  <2> QED BY <1>5, <2>1, <2>3, NamesDiffer DEF fileVars
<1> QED BY <1>1, <1>2, <1>3, <1>4, <1>6, CaptureStepKept

\* The calls of install.  They leave backup and claim alone, and the page's path only gets what
\* was staged, if nothing is there.
LEMMA InstallStepKept ==
    ASSUME KInv, IInv', NEW e \in Executors, AtWork(run[e]), Alone(e),
           NEW i, i = run[e].i, Service(i), RowsStill(e),
           run[e].at \in {"stage", "write", "place"}, FilesStay(i),
           disk'[Target] = disk[Target] \/ disk[Target] = NoFile,
           StagedKnown(i)', run'[e].i = i,
           run'[e].at \in {"write", "place", "advance", "fail"}
    PROVE  Kept'
<1>1. /\ DbInv /\ FileTyped /\ FileTyped' /\ i \in DOMAIN intents /\ IsOpen(i)
    BY WorksAlone DEF KInv, IInv, FileInv
<1>2. /\ ExpectedKnown(i) /\ {Backup(i), Claim(i)} \subseteq Names
      /\ intents[i].review = NoReview /\ ClaimOK(i)
    BY OwnFacts, NoQuestion DEF RunKept, PastCapture, HasCaptured
<1>3. /\ DOMAIN intents' = DOMAIN intents /\ SameRow(i)
      /\ \A j \in DOMAIN intents \ {i} : intents'[j] = intents[j]
    BY <1>1, StillRows
<1>4. KnownStep
    BY DEF Service, KnownStep, RowsStill
<1>5. ClaimOK(i)'
    BY <1>1, <1>2, <1>4, ClaimStays DEF FilesStay
<1>6. ExpectedKnown(i)' /\ IsOpen(i)' /\ intents'[i].review = NoReview
    BY <1>1, <1>2, <1>3 DEF SameRow, ExpectedKnown, Known, RowsStill, IsOpen
<1>7. OwnKept(i)'
    BY <1>5, <1>6 DEF OwnKept, IntentKept, OpenKept
<1>8. RunKept(run[e])'
  <2>1. PICK r : r = run'[e]
      OBVIOUS
  <2>2. RunKept(r)'
      BY <2>1, <1>5, <1>6 DEF RunKept, ClaimOK, Claim, Backup
  <2> QED BY <2>1, <2>2 DEF RunKept
<1> QED BY <1>3, <1>7, <1>8, StepKeeps DEF RowsStill

LEMMA StageKept ==
    ASSUME KInv, IInv', NEW e \in Executors, Stage(e)
    PROVE  Kept'
<1>1. PICK i : i = run[e].i
    OBVIOUS
<1>2. /\ DbInv /\ FileInv /\ FileTyped /\ FileTyped' /\ AtWork(run[e])
      /\ run[e].at = "stage" /\ RowsStill(e)
    BY DEF KInv, IInv, FileInv, Stage, Renewing, At, AtWork, RowsStill
<1>3. Service(i)
    BY <1>1, <1>2, StageServes DEF Serves
<1>4. /\ {Target, Backup(i), Claim(i), Staged(i)} \subseteq Names /\ StagedKnown(i)
      /\ disk \in [Names -> Inodes \cup {NoFile}]
    BY <1>1, <1>2, OwnFacts DEF FileTyped
<1>5. CASE UNCHANGED fileVars /\ \E step \in {"place", "fail"} : Goto(e, step)
  <2>1. FilesStay(i) /\ disk'[Target] = disk[Target] /\ StagedKnown(i)'
      BY <1>4, <1>5 DEF fileVars, FilesStay, StagedKnown, Staged
  <2>2. Alone(e) /\ run'[e].at \in {"place", "fail"} /\ run'[e].i = i
      BY <1>1, <1>2, <1>5, GotoFacts
  <2> QED BY <1>1, <1>2, <1>3, <2>1, <2>2, InstallStepKept
<1>6. CASE /\ disk[Staged(i)] = NoFile /\ Free # {} /\ handle' = handle /\ Goto(e, "write")
           /\ Files([disk EXCEPT ![Staged(i)] = FreshInode], [data EXCEPT ![FreshInode] = Torn], {})
  <2>1. Torn \in Mark \ {Missing}
      BY VaultWriterAssumption DEF Mark, Contents
  <2>2. disk' = [disk EXCEPT ![Staged(i)] = FreshInode] /\ data'[FreshInode] = Torn
      BY <1>2, <1>4, <1>6, <2>1, NewFile
  <2>3. FilesStay(i) /\ disk'[Target] = disk[Target]
      BY <1>4, <2>2, NamesDiffer DEF FilesStay
  <2>4. disk'[Staged(i)] = FreshInode
      BY <1>4, <2>2
  <2>5. StagedKnown(i)'
      BY <2>2, <2>4 DEF StagedKnown, Staged
  <2>6. Alone(e) /\ run'[e].at = "write" /\ run'[e].i = i
      BY <1>1, <1>2, <1>6, GotoFacts
  <2> QED BY <1>1, <1>2, <1>3, <2>3, <2>5, <2>6, InstallStepKept
<1> QED BY <1>1, <1>5, <1>6 DEF Stage, SetFiles

LEMMA WriteKept ==
    ASSUME KInv, IInv', NEW e \in Executors, Write(e)
    PROVE  Kept'
<1>1. PICK i : i = run[e].i
    OBVIOUS
<1>2. /\ DbInv /\ FileInv /\ FileTyped /\ AtWork(run[e])
      /\ run[e].at = "write" /\ RowsStill(e) /\ Unshared(Staged(i))
    BY <1>1 DEF KInv, IInv, FileInv, Write, At, AtWork, RowsStill, dbVars, Relies
<1>3. Service(i)
    BY <1>1, <1>2, WriteServes DEF Serves
<1>4. disk' = disk
    BY DEF Write, SetFiles, Files
<1>5. {Target, Backup(i), Claim(i), Staged(i)} \subseteq Names /\ StagedKnown(i)
    BY <1>1, <1>2, OwnFacts
<1>6. StagedKnown(i)'
  <2>1. disk[Staged(i)] \in Linked(disk) /\ data[disk[Staged(i)]] = Torn
      BY <1>2, <1>5 DEF Unshared, Linked
  <2>2. data'[disk[Staged(i)]] \in Nat \cup {Torn}
      BY <1>3, <2>1 DEF Service
  <2> QED BY <1>4, <2>2 DEF StagedKnown, Staged
<1>7. Alone(e) /\ run'[e].at = "place" /\ run'[e].i = i
    BY <1>1, <1>2, GotoFacts DEF Write
<1> QED BY <1>1, <1>2, <1>3, <1>4, <1>6, <1>7, InstallStepKept DEF FilesStay

LEMMA PlaceKept ==
    ASSUME KInv, IInv', NEW e \in Executors, Place(e)
    PROVE  Kept'
<1>1. PICK i : i = run[e].i
    OBVIOUS
<1>2. /\ DbInv /\ FileInv /\ FileTyped /\ AtWork(run[e])
      /\ run[e].at = "place" /\ RowsStill(e)
    BY <1>1 DEF KInv, IInv, FileInv, Place, At, AtWork, RowsStill, dbVars
<1>3. Service(i)
    BY <1>1, <1>2, PlaceServes DEF Serves
<1>4. /\ {Target, Backup(i), Claim(i), Staged(i)} \subseteq Names /\ StagedKnown(i)
      /\ disk \in [Names -> Inodes \cup {NoFile}]
    BY <1>1, <1>2, OwnFacts DEF FileTyped
<1>5. Alone(e) /\ run'[e].at \in {"fail", "advance"} /\ run'[e].i = i
    BY <1>1, <1>2, GotoFacts DEF Place
<1>6. /\ disk' \in {disk, [disk EXCEPT ![Target] = disk[Staged(i)]]}
      /\ disk' = disk \/ disk[Target] = NoFile
    BY <1>1 DEF Place, LinkedTo, SetFiles, Files, fileVars
<1>7. FilesStay(i) /\ disk'[Staged(i)] = disk[Staged(i)]
    BY <1>4, <1>6, NamesDiffer DEF FilesStay
<1>8. StagedKnown(i)'
  <2>1. PICK n : n = disk[Staged(i)]
      OBVIOUS
  <2>2. n # NoFile => n \in Linked(disk) /\ data[n] \in Nat \cup {Torn}
      BY <1>2, <1>4, <2>1, ContentTyped DEF StagedKnown
  <2>3. n # NoFile => data'[n] \in Nat \cup {Torn}
      BY <1>3, <2>2 DEF Service
  <2> QED BY <1>7, <2>1, <2>3 DEF StagedKnown, Staged
<1> QED BY <1>1, <1>2, <1>3, <1>5, <1>6, <1>7, <1>8, InstallStepKept

\* The transactions at the end of a phase: the claim is accounted for from here on.
LEMMA PhaseKept ==
    ASSUME KInv, IInv', NEW e \in Executors, NEW step \in PastCapture,
           NEW next \in {"install", "finalize"}, NEW status \in {"captured", "installed"}, NEW x,
           Phase(e, step, next, status, x)
    PROVE  Kept'
<1>1. PICK i : i = run[e].i
    OBVIOUS
<1>2. /\ AtWork(run[e]) /\ run[e].at = step /\ UNCHANGED fileVars /\ recorded' = recorded
      /\ DbInv /\ Goto(e, next) /\ run[e].at \notin {"observe", "recover"}
    BY DEF Phase, At, AtWork, PastCapture, HasCaptured, KInv, IInv
<1>3. /\ i \in DOMAIN intents /\ intents[i] \in Intent /\ intents \in Seq(Intent)
      /\ ClaimOK(i) /\ intents[i].review = NoReview
    BY <1>1, <1>2, WorksAlone, OwnFacts, NoQuestion DEF RunKept, DbInv, DbTyped
<1>4. PICK w : w = [[[intents[i] EXCEPT !.lapsed = FALSE] EXCEPT !.status = status]
                        EXCEPT !.captured = x]
    OBVIOUS
<1>5. w.status = status /\ w.expected = intents[i].expected /\ w.review = NoReview
    BY <1>3, <1>4 DEF Intent
<1>6. intents' = [intents EXCEPT ![i] = w] /\ intents'[i] = w
    BY <1>1, <1>3, <1>4 DEF Phase
<1>7. ClaimOK(i)'
    BY <1>2, <1>3 DEF ClaimOK, KnownFile, Known, fileVars, Claim, Backup, Target
<1>8. IntentKept(i)'
    BY <1>5, <1>6, <1>7 DEF IntentKept, IsOpen, OpenStatuses, OpenKept
<1>9. Alone(e) /\ run'[e].at = next /\ run'[e].i = i
    BY <1>1, <1>2, GotoFacts
<1>10. RunKept(run[e])'
  <2>1. PICK r : r = run'[e]
      OBVIOUS
  <2>2. RunKept(r)'
      BY <2>1, <1>5, <1>6, <1>7, <1>9 DEF RunKept
  <2> QED BY <2>1, <2>2 DEF RunKept
<1> QED BY <1>1, <1>2, <1>5, <1>6, <1>8, <1>9, <1>10, RowMoves

LEMMA PhasesKept ==
    ASSUME KInv, IInv', NEW e \in Executors, RecordCaptured(e) \/ Advance(e)
    PROVE  Kept'
<1>1. ASSUME RecordCaptured(e) PROVE Kept'
    BY <1>1, PhaseKept DEF RecordCaptured, PastCapture, HasCaptured
<1>2. ASSUME Advance(e) PROVE Kept'
    BY <1>2, PhaseKept DEF Advance, PastCapture, HasCaptured
<1> QED BY <1>1, <1>2

LEMMA MarkRecoveryKept ==
    ASSUME KInv, IInv', NEW e \in Executors, MarkRecovery(e)
    PROVE  Kept'
<1>1. PICK i : i = run[e].i
    OBVIOUS
<1>2. /\ AtWork(run[e]) /\ run[e].at = "fail" /\ UNCHANGED fileVars /\ recorded' = recorded
      /\ DbInv /\ Leave(e)
    BY DEF MarkRecovery, At, AtWork, KInv, IInv
<1>3. /\ i \in DOMAIN intents /\ intents[i] \in Intent /\ intents \in Seq(Intent)
      /\ intents[i].review = NoReview
    BY <1>1, <1>2, WorksAlone, NoQuestion DEF DbInv, DbTyped
<1>4. PICK w : w = [intents[i] EXCEPT !.status = "recovery_required"]
    OBVIOUS
<1>5. /\ w.status = "recovery_required" /\ w.expected = intents[i].expected
      /\ w.review = NoReview
    BY <1>3, <1>4 DEF Intent
<1>6. intents' = [intents EXCEPT ![i] = w] /\ intents'[i] = w
    BY <1>1, <1>3, <1>4 DEF MarkRecovery
<1>7. IntentKept(i)'
    BY <1>5, <1>6 DEF IntentKept, IsOpen, OpenStatuses, OpenKept
<1>8. Alone(e) /\ ~AtWork(run'[e])
    BY <1>2, LeaveFacts, IdleTyped DEF AtWork
<1> QED BY <1>1, <1>2, <1>5, <1>6, <1>7, <1>8, RowMoves

\* The page moves to the revision at its path.  What the capture displaced was expected, and so
\* known, or the monitor sees that the backup differs from it.
LEMMA FinalizeKept ==
    ASSUME KInv, IInv', NEW e \in Executors, Finalize(e)
    PROVE  Kept'
<1>1. PICK i : i = run[e].i
    OBVIOUS
<1>2. /\ AtWork(run[e]) /\ run[e].at = "finalize" /\ UNCHANGED fileVars /\ recorded' = recorded
      /\ DbInv /\ FileTyped
    BY DEF Finalize, At, AtWork, KInv, IInv, FileInv
<1>3. /\ i \in DOMAIN intents /\ intents[i] \in Intent /\ intents \in Seq(Intent)
      /\ intents[i].review = NoReview /\ ClaimOK(i) /\ ExpectedKnown(i)
      /\ {Target, Backup(i), Claim(i)} \subseteq Names
    BY <1>1, <1>2, WorksAlone, NoQuestion, OwnFacts DEF DbInv, DbTyped, RunKept, PastCapture
<1>4. CASE intents' = intents /\ Goto(e, "fail")
  <2>1. RowsStill(e) /\ "fail" \notin PastCapture
      BY <1>2, <1>4 DEF RowsStill, PastCapture, HasCaptured
  <2> QED BY <1>1, <1>2, <1>3, <1>4, <2>1, GotoKept
<1>5. CASE /\ Content(Target) = intents[i].rev /\ Leave(e)
           /\ intents' = [intents EXCEPT ![i] = [Released(@) EXCEPT !.status = "applied",
                                                     !.baseline = intents[i].captured]]
  <2>1. PICK v : v = Released(intents[i])
      OBVIOUS
  <2>2. v \in Intent /\ v.expected = intents[i].expected
      BY <2>1, <1>3, ReleasedTyped
  <2>3. PICK w : w = [[v EXCEPT !.status = "applied"] EXCEPT !.baseline = intents[i].captured]
      OBVIOUS
  <2>4. /\ w.status = "applied" /\ w.expected = intents[i].expected
        /\ w.baseline = intents[i].captured
      BY <2>2, <2>3 DEF Intent
  <2>5. intents' = [intents EXCEPT ![i] = w] /\ intents'[i] = w
      BY <1>3, <1>5, <2>1, <2>3
  <2>6. disk[Claim(i)] = disk[Backup(i)] \/ KnownFile(disk[Claim(i)])
    <3>1. data[disk[Target]] \in Nat
        BY <1>2, <1>3, <1>5, InodesAreNot DEF Content, Intent
    <3> QED BY <1>3, <3>1 DEF ClaimOK, KnownFile, Known
  <2>7. \/ KnownFile(disk[Backup(i)]) \/ w.expected = Missing
        \/ w.baseline # Content(Backup(i))
    <3> SUFFICES ASSUME w.expected # Missing, w.baseline = Content(Backup(i))
                 PROVE  KnownFile(disk[Backup(i)])
        OBVIOUS
    <3>1. Held(intents[i], intents[i].captured)
        BY <1>2, <1>3 DEF DbInv, RowsKnown, RowKnown
    <3>2. Content(Backup(i)) \in {Missing, intents[i].rev, intents[i].expected}
        BY <2>4, <3>1 DEF Held
    <3>3. Content(Backup(i)) \in {Missing} \cup Known
        BY <1>3, <3>2 DEF ExpectedKnown, Known, Intent
    <3> QED BY <1>2, <1>3, <3>3, ContentTyped DEF Content, KnownFile
  <2>8. Retained(i)'
    <3>1. \A n : KnownFile(n) => KnownFile(n)'
        BY <1>2 DEF KnownFile, Known, fileVars
    <3>2. /\ disk' = disk /\ Content(Backup(i))' = Content(Backup(i))
        BY <1>2 DEF fileVars, Content, Backup
    <3>3. /\ KnownFile(disk[Backup(i)]) => KnownFile(disk[Backup(i)])'
          /\ KnownFile(disk[Claim(i)]) => KnownFile(disk[Claim(i)])'
        BY <3>1, <3>2 DEF KnownFile, Backup, Claim
    <3> QED BY <2>4, <2>5, <2>6, <2>7, <3>2, <3>3 DEF Retained, Claim, Backup
  <2>9. IntentKept(i)'
      BY <2>4, <2>5, <2>8 DEF IntentKept, IsOpen, OpenStatuses
  <2>10. Alone(e) /\ ~AtWork(run'[e])
      BY <1>2, <1>5, LeaveFacts, IdleTyped DEF AtWork
  <2> QED BY <1>1, <1>2, <2>4, <2>5, <2>9, <2>10, RowMoves
<1> QED BY <1>1, <1>4, <1>5 DEF Finalize

LEMMA RecoverMissingKept ==
    ASSUME KInv, IInv', NEW e \in Executors, RecoverMissing(e)
    PROVE  Kept'
<1>1. PICK i : i = run[e].i
    OBVIOUS
<1>2. /\ AtWork(run[e]) /\ UNCHANGED fileVars /\ recorded' = recorded
      /\ DbInv /\ Leave(e)
    BY DEF RecoverMissing, At, AtWork, KInv, IInv
<1>3. i \in DOMAIN intents /\ intents[i] \in Intent /\ intents \in Seq(Intent)
    BY <1>1, <1>2, WorksAlone DEF DbInv, DbTyped
<1>4. KnownFile(disk[Backup(i)]) /\ KnownFile(disk[Claim(i)])
    BY <1>1, NothingUnknown DEF RecoverMissing
<1>5. (KnownFile(disk[Backup(i)]) /\ KnownFile(disk[Claim(i)]))'
    BY <1>2, <1>4 DEF KnownFile, Known, fileVars, Backup, Claim
<1>6. Retained(i)'
    BY <1>5 DEF Retained
<1>7. PICK v : v = Released(intents[i])
    OBVIOUS
<1>8. v \in Intent /\ v.expected = intents[i].expected
    BY <1>3, <1>7, ReleasedTyped
<1>9. PICK w : w = [v EXCEPT !.status = "failed"]
    OBVIOUS
<1>10. w.status = "failed" /\ w.expected = intents[i].expected
    BY <1>8, <1>9 DEF Intent
<1>11. intents' = [intents EXCEPT ![i] = w] /\ intents'[i] = w
    BY <1>1, <1>3, <1>7, <1>9 DEF RecoverMissing
<1>12. IntentKept(i)'
    BY <1>6, <1>10, <1>11 DEF IntentKept, IsOpen, OpenStatuses
<1>13. Alone(e) /\ ~AtWork(run'[e])
    BY <1>2, LeaveFacts, IdleTyped DEF AtWork
<1> QED BY <1>1, <1>2, <1>10, <1>11, <1>12, <1>13, RowMoves

\* An intent of which backup and claim are known hands over to a successor that expects what
\* is known, and nobody is at work any more.
LEMMA HandedOnKept ==
    ASSUME KInv, IInv', NEW i \in DOMAIN intents, IsOpen(i), NEW rev \in Nat, NEW x \in Mark,
           HandOff(i, rev, x), x \in {Missing} \cup Known', UNCHANGED fileVars,
           recorded \subseteq recorded', \A f \in Executors : ~AtWork(run'[f]),
           {Content(Backup(i)), Content(Claim(i))} \subseteq {Missing} \cup Known'
    PROVE  Kept'
<1>1. /\ DbInv /\ DbInv' /\ FileTyped /\ FileTyped' /\ Kept /\ intents \in Seq(Intent)
      /\ intents[i] \in Intent /\ DOMAIN intents = 1 .. Len(intents) /\ Len(intents) \in Nat
      /\ i \in 1 .. MaxIntents /\ {Backup(i), Claim(i)} \subseteq Names
    BY IntentNumbers, NamesOfIntents DEF KInv, IInv, FileInv, DbInv, DbTyped
<1>2. i = pending
    BY <1>1 DEF DbInv, PendingIsTheOpenIntent
<1>3. PICK u : u = Released(intents[i])
    OBVIOUS
<1>4. u \in Intent /\ u.expected = intents[i].expected
    BY <1>1, <1>3, ReleasedTyped
<1>5. PICK w : w = [u EXCEPT !.status = "superseded"]
    OBVIOUS
<1>6. w.status = "superseded" /\ w.expected = intents[i].expected
    BY <1>4, <1>5 DEF Intent
<1>7. PICK v : v = NewIntent(rev, x)
    OBVIOUS
<1>8. v.status = "pending" /\ v.review = NoReview /\ v.expected = x
    BY <1>1, <1>7, NewTyped
<1>9. PICK s : s = [intents EXCEPT ![i] = w]
    OBVIOUS
<1>10. /\ DOMAIN s = DOMAIN intents /\ s[i] = w /\ Len(s) = Len(intents) /\ s \in Seq({w} \cup Intent)
       /\ \A j \in DOMAIN intents : j # i => s[j] = intents[j]
    BY <1>1, <1>9
<1>11. intents' = Append(s, v)
    BY <1>3, <1>5, <1>7, <1>9 DEF HandOff
<1>12. /\ DOMAIN intents' = DOMAIN intents \cup {Len(intents) + 1}
       /\ intents'[Len(intents) + 1] = v
       /\ \A j \in DOMAIN intents : intents'[j] = s[j]
    BY <1>1, <1>10, <1>11
<1>13. KnownStep /\ disk' = disk /\ data' = data /\ disowned' = disowned
    BY FilesUnchanged DEF fileVars
<1>14. Frame(i)
    BY <1>8, <1>10, <1>12, <1>13 DEF Frame, RowStays
<1>15. KnownFile(disk[Backup(i)])' /\ KnownFile(disk[Claim(i)])'
    BY <1>1, <1>13, ContentTyped DEF Content, KnownFile, Backup, Claim
<1>16. Retained(i)' /\ ~IsOpen(i)'
    BY <1>6, <1>10, <1>12, <1>15 DEF Retained, IsOpen, OpenStatuses
<1>17. StagedKnown(i)' /\ ExpectedKnown(i)'
  <2>1. StagedKnown(i) /\ ExpectedKnown(i)
      BY <1>1 DEF Kept
  <2> QED BY <2>1, <1>6, <1>10, <1>12, <1>13
         DEF StagedKnown, ExpectedKnown, Known, Staged
<1>18. OwnKept(i)'
    BY <1>16, <1>17 DEF OwnKept, IntentKept
<1>19. RunsKept'
    BY DEF RunsKept
<1> QED BY <1>1, <1>2, <1>14, <1>18, <1>19, OthersStay

\* The question a human answers has been recorded with its bytes, and nobody is at work.
LEMMA ResolveKept ==
    ASSUME KInv, IInv', NEW i \in DOMAIN intents, Resolve(i)
    PROVE  Kept'
<1>1. DbInv /\ FileTyped /\ Kept /\ intents[i] \in Intent /\ intents[i].review \in Review
    BY IntentNumbers DEF KInv, IInv, FileInv, Intent
<1>2. /\ IsOpen(i) /\ UNCHANGED fileVars /\ recorded' = recorded /\ UNCHANGED run
      /\ intents[i].owner = NoOwner /\ intents[i].review # NoReview /\ pending = i
    BY DEF Resolve, IsOpen, OpenStatuses
<1>3. PICK rev \in {intents[i].review.cand, current} \ {None} :
         HandOff(i, rev, intents[i].review.target)
    BY DEF Resolve
<1>4. rev \in Nat /\ intents[i].review.target \in Mark
    BY <1>1, <1>3 DEF Review, DbInv, DbTyped
<1>5. Reviewed(i)
    BY <1>1, <1>2 DEF Kept, IntentKept, OpenKept
<1>6. \A f \in Executors : ~AtWork(run'[f])
  <2> SUFFICES ASSUME NEW f \in Executors, AtWork(run[f]) PROVE FALSE
      BY <1>2
  <2>1. run[f].i = i
      BY <1>1, <1>2, WorksAlone
  <2> QED BY <1>1, <1>2, <2>1, RunFacts
<1>7. /\ intents[i].review.target \in Known'
      /\ {Content(Backup(i)), Content(Claim(i))} \subseteq {Missing} \cup Known'
    BY <1>2, <1>5 DEF Reviewed, Known
<1> QED BY <1>2, <1>3, <1>4, <1>6, <1>7, HandedOnKept

\* Whatever recovery has seen is known once its unknown bytes are recorded.
LEMMA SeenIsKnown ==
    ASSUME KInv, NEW e \in Executors, RecoverUnknown(e)
    PROVE  /\ {run[e].seen.target, run[e].seen.backup} \subseteq {Missing} \cup Known'
           /\ Content(Backup(run[e].i)) = run[e].seen.backup
           /\ {Content(Backup(run[e].i)), Content(Claim(run[e].i))} \subseteq {Missing} \cup Known'
<1>1. PICK i : i = run[e].i
    OBVIOUS
<1>2. PICK seen : seen = run[e].seen
    OBVIOUS
<1>3. AtWork(run[e]) /\ At(e, "recover") /\ recorded' = recorded \cup UnknownSeen(i, seen)
    BY <1>1, <1>2 DEF RecoverUnknown, At, AtWork
<1>4. SeenOf(i, seen) /\ ExpectedKnown(i) /\ intents[i].rev \in Nat
    BY <1>1, <1>2, <1>3, OwnFacts, WorksAlone DEF At, RunKept, KInv, IInv, Intent
<1>5. ASSUME NEW x \in {seen.target, seen.backup, seen.claim} PROVE x \in {Missing} \cup Known'
  <2>1. CASE Unknown(i, x)
      BY <1>3, <2>1 DEF UnknownSeen, Known
  <2>2. CASE ~Unknown(i, x)
      BY <1>3, <1>4, <2>2 DEF Unknown, ExpectedKnown, Known
  <2> QED BY <2>1, <2>2
<1> QED BY <1>1, <1>2, <1>4, <1>5 DEF SeenOf

LEMMA RecoverUnknownKept ==
    ASSUME KInv, IInv', NEW e \in Executors, RecoverUnknown(e)
    PROVE  Kept'
<1>1. PICK i : i = run[e].i
    OBVIOUS
<1>2. PICK seen : seen = run[e].seen
    OBVIOUS
<1>3. /\ AtWork(run[e]) /\ run[e].at = "recover" /\ UNCHANGED fileVars /\ DbInv /\ Leave(e)
      /\ recorded' = recorded \cup UnknownSeen(i, seen) /\ recorded \subseteq recorded'
    BY <1>1, <1>2 DEF RecoverUnknown, At, AtWork, KInv, IInv
<1>4. /\ i \in DOMAIN intents /\ intents[i] \in Intent /\ IsOpen(i) /\ intents \in Seq(Intent)
      /\ intents[i].status = "recovery_required" /\ OpenKept(i)
      /\ seen \in Sight /\ newest \in Nat
      /\ \A f \in Executors : f # e => ~AtWork(run[f])
    BY <1>1, <1>2, <1>3, WorksAlone, OwnFacts DEF DbInv, DbTyped, InPhase, RunRecord
<1>5. Alone(e) /\ ~AtWork(run'[e])
    BY <1>3, LeaveFacts, IdleTyped DEF AtWork
<1>6. /\ {seen.target, seen.backup} \subseteq {Missing} \cup Known'
      /\ Content(Backup(i)) = seen.backup
      /\ {Content(Backup(i)), Content(Claim(i))} \subseteq {Missing} \cup Known'
    BY <1>1, <1>2, SeenIsKnown
\* The question stays as it was, or is asked about what was seen.
<1>7. ASSUME NEW w, intents' = [intents EXCEPT ![i] = w],
             w.status = "recovery_required", w.rev = intents[i].rev,
             w.expected = intents[i].expected,
             \/ w.review = intents[i].review
             \/ /\ w.review.target = seen.target
                /\ Unknown(i, seen.target) /\ Unknown(i, seen.backup)
      PROVE  Kept'
  <2>1. intents'[i] = w
      BY <1>4, <1>7
  <2>2. /\ Content(Backup(i))' = Content(Backup(i)) /\ Content(Claim(i))' = Content(Claim(i))
        /\ \A x : Unknown(i, x)' <=> Unknown(i, x)
      BY <1>3, <1>7, <2>1 DEF Unknown, fileVars, Content, Backup, Claim
  <2>3. CASE w.review = intents[i].review
    <3>1. Reviewed(i) => Reviewed(i)'
        BY <1>3, <1>7, <2>1, <2>2, <2>3 DEF Reviewed, Known
    <3>2. OpenKept(i)'
        BY <1>4, <1>7, <2>1, <2>3, <3>1 DEF OpenKept
    <3>3. IntentKept(i)'
        BY <1>7, <2>1, <3>2 DEF IntentKept, IsOpen, OpenStatuses
    <3> QED BY <1>1, <1>3, <1>5, <1>7, <3>3, RowMoves
  <2>4. CASE /\ w.review.target = seen.target
             /\ Unknown(i, seen.target) /\ Unknown(i, seen.backup)
    <3>1. seen.target \in Known' /\ seen.backup \in Known'
        BY <1>6, <2>4 DEF Unknown
    <3>2. Reviewed(i)'
        BY <1>6, <1>7, <2>1, <2>2, <2>4, <3>1 DEF Reviewed
    <3>3. IntentKept(i)'
        BY <1>7, <2>1, <3>2 DEF IntentKept, IsOpen, OpenStatuses, OpenKept
    <3> QED BY <1>1, <1>3, <1>5, <1>7, <3>3, RowMoves
  <2> QED BY <1>7, <2>3, <2>4
<1>8. PICK u : u = Released(intents[i])
    OBVIOUS
<1>9. /\ u \in Intent /\ u.status = "recovery_required" /\ u.rev = intents[i].rev
      /\ u.expected = intents[i].expected /\ u.review = intents[i].review
    BY <1>4, <1>8, ReleasedTyped
<1>10. CASE intents' = [intents EXCEPT ![i] = Released(@)]
  <2>1. intents' = [intents EXCEPT ![i] = u]
      BY <1>4, <1>8, <1>10
  <2> QED BY <1>7, <1>9, <2>1
<1>11. ASSUME NEW q, intents' = [intents EXCEPT ![i] = [Released(@) EXCEPT !.review = q]],
              \/ q = intents[i].review
              \/ /\ q.target = seen.target
                 /\ Unknown(i, seen.target) /\ Unknown(i, seen.backup)
       PROVE  Kept'
  <2>1. PICK w : w = [u EXCEPT !.review = q]
      OBVIOUS
  <2>2. /\ w.status = "recovery_required" /\ w.rev = intents[i].rev
        /\ w.expected = intents[i].expected /\ w.review = q
      BY <1>9, <2>1 DEF Intent
  <2>3. intents' = [intents EXCEPT ![i] = w]
      BY <1>4, <1>8, <1>11, <2>1
  <2> QED BY <1>7, <1>11, <2>2, <2>3
<1>12. CASE newest' = newest + 1 /\ HandOff(i, newest', seen.target)
  <2>1. PICK rev : rev = newest'
      OBVIOUS
  <2>2. rev \in Nat /\ seen.target \in Mark /\ HandOff(i, rev, seen.target)
      BY <1>4, <1>12, <2>1 DEF Sight
  <2>3. \A f \in Executors : ~AtWork(run'[f])
      BY <1>4, <1>5 DEF Alone
  <2> QED BY <1>3, <1>4, <1>6, <2>2, <2>3, HandedOnKept
<1>13. \/ intents' = [intents EXCEPT ![i] = Released(@)]
       \/ newest' = newest + 1 /\ HandOff(i, newest', seen.target)
       \/ /\ Unknown(i, seen.target) /\ Unknown(i, seen.backup)
          /\ \E q \in {intents[i].review,
                       [cand |-> newest', target |-> seen.target, backup |-> seen.backup]} :
                intents' = [intents EXCEPT ![i] = [Released(@) EXCEPT !.review = q]]
  <2>1. PICK same \in BOOLEAN : same = (/\ intents[i].review.target = seen.target
                                       /\ intents[i].review.backup = seen.backup)
      OBVIOUS
  <2> QED BY <1>1, <1>2, <2>1 DEF RecoverUnknown
<1>14. [cand |-> newest', target |-> seen.target, backup |-> seen.backup].target = seen.target
    OBVIOUS
<1> QED BY <1>10, <1>11, <1>12, <1>13, <1>14

LEMMA WorkKept ==
    ASSUME KInv, IInv', NEW e \in Executors, Work(e)
    PROVE  Kept'
    BY LockKept, LoseLeaseKept, CaptureKept, LinkAndGrabKept, SettleKept, PhasesKept, InstallKept,
       StageKept, WriteKept, PlaceKept, FinalizeKept, MarkRecoveryKept, ObserveKept,
       RecoverGoesOnKept, RecoverMissingKept, RecoverUnknownKept
       DEF Work

LEMMA NextKInv == KInv /\ [Next]_vars => KInv'
<1> SUFFICES ASSUME KInv, [Next]_vars PROVE KInv'
    OBVIOUS
<1>1. NoHandles' /\ IInv'
    BY NextIInv DEF KInv, NoHandles
<1>2. Kept'
  <2>1. CASE Editor
      BY <1>1, <2>1, EditorKept
  <2>2. CASE \E e \in Executors : Work(e)
      BY <1>1, <2>2, WorkKept
  <2>3. CASE PrepareEdit \/ PrepareNew \/ PrepareLegacy \/ Ingest
      BY <1>1, <2>3, PreparationsKept
  <2>4. CASE \E i \in DOMAIN intents : Resolve(i)
      BY <1>1, <2>4, ResolveKept
  <2>5. CASE \/ UNCHANGED vars
             \/ \E e \in Executors : \/ Retire(e) \/ Crash(e)
                                     \/ \E i \in DOMAIN intents : ClaimIntent(e, i)
             \/ \E i \in DOMAIN intents : ReconcileBackup(i) \/ Expire(i)
      BY <1>1, <2>5, TimeKept
  <2> QED BY <2>1, <2>2, <2>3, <2>4, <2>5 DEF Next
<1> QED BY <1>1, <1>2 DEF KInv

LEMMA InitKInv == NoHandles /\ Init => KInv
<1> SUFFICES ASSUME NoHandles, Init PROVE KInv
    OBVIOUS
<1>1. IInv
    BY InitIInv
<1>2. /\ DOMAIN intents = {} /\ \A n \in Names \ {Target} : disk[n] = NoFile
      /\ \A e \in Executors : ~AtWork(run[e])
    BY IdleTyped DEF Init, AtWork
<1>3. \A i \in 1 .. MaxIntents :
        {Backup(i), Claim(i), Staged(i)} \subseteq Names \ {Target}
    BY NamesDiffer DEF Names, Backup, Claim, Staged
<1>4. Kept
    BY <1>2, <1>3 DEF Kept, StagedKnown, Unused
<1> QED BY <1>1, <1>4 DEF KInv

\* Every file that was neither known nor taken by the editor has a name where it is sought.
LEMMA KInvSeeks == KInv => NothingForgotten
<1> SUFFICES ASSUME KInv, NEW n \in Linked(disk) \ disowned
             PROVE  data[n] \in Known \/ \E name \in Sought : disk[name] = n
    BY DEF NothingForgotten, Known
<1>1. Kept
    BY DEF KInv
<1>2. KnownFile(n) => data[n] \in Known
    BY DEF KnownFile, Linked
<1>3. PICK name \in Names : disk[name] = n /\ n # NoFile
    BY DEF Linked
<1>4. CASE name = Target
    BY <1>3, <1>4 DEF Sought
<1>5. ASSUME NEW i \in 1 .. MaxIntents, name \in {Backup(i), Claim(i), Staged(i)}
      PROVE  data[n] \in Known \/ \E m \in Sought : disk[m] = n
  <2>1. CASE name = Staged(i)
      BY <1>1, <1>3, <2>1 DEF Kept, StagedKnown, Known
  <2>2. CASE name # Staged(i) /\ i \notin DOMAIN intents
      BY <1>1, <1>3, <1>5, <2>2 DEF Kept, Unused
  <2>3. CASE i \in DOMAIN intents /\ IsOpen(i)
    <3>1. name \in Sought
        BY <1>5, <2>3 DEF Sought
    <3> QED BY <1>3, <3>1
  <2>4. CASE name # Staged(i) /\ i \in DOMAIN intents /\ ~IsOpen(i)
    <3>1. Retained(i)
        BY <1>1, <2>4 DEF Kept, IntentKept
    <3>2. disk[Backup(i)] = n \/ KnownFile(n)
        BY <1>3, <1>5, <2>4, <3>1 DEF Retained
    <3>3. CASE disk[Backup(i)] = n /\ ~KnownFile(n)
      <4>1. \/ intents[i].expected = Missing
            \/ intents[i].status = "applied" /\ intents[i].baseline # Content(Backup(i))
          BY <3>1, <3>3 DEF Retained
      <4>2. Backup(i) \in Sought
          BY <2>4, <4>1 DEF Sought
      <4> QED BY <3>3, <4>2
    <3> QED BY <1>2, <3>2, <3>3
  <2> QED BY <1>5, <2>1, <2>2, <2>3, <2>4
<1>6. name = Target \/ \E i \in 1 .. MaxIntents : name \in {Backup(i), Claim(i), Staged(i)}
    BY DEF Names, Backup, Claim, Staged
<1> QED BY <1>4, <1>5, <1>6

\* Where editors replace files, remove them and put revisions back, but write into none they
\* hold open, no bytes of theirs are forgotten (vault_writer.py: capture, finalize,
\* _reconcile_recovery, recover_write_intent, reconcile_retained_backup): whatever crashes and
\* lapsed leases an intent goes through, and whatever the editor does between two system calls.
THEOREM EditsAreSought == "handle" \notin EditorWays => (Spec => []NothingForgotten)
<1> SUFFICES ASSUME NoHandles PROVE Spec => []NothingForgotten
    BY DEF NoHandles
<1>1. Init => KInv
    BY InitKInv
<1> QED BY <1>1, NextKInv, KInvSeeks, PTL DEF Spec
=============================================================================
