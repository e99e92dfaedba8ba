-------------------------- MODULE SourceSyncProofs --------------------------
(***************************************************************************)
(* The sync of a source takes its lock as DbLock has it, and while nobody  *)
(* stalls, is told to terminate or rewrites the history, the bookmark only *)
(* moves to descendants of the commit it was at; and what bookmark and     *)
(* checkpoint say is done has been done: for any processes, paths, numbers *)
(* of commits, failures and deaths.                                        *)
(***************************************************************************)
EXTENDS SourceSync, SequenceTheorems, TLAPS

----------------------------------------------------------------------------
(* The row lock excludes, as long as no holder stalls for a TTL and none is *)
(* told to terminate in its work, whoever dies and takes rows over.         *)
Calm == stalls = 0 /\ signals = 0

\* Rows are those of processes, dead or not.
RowHasOwner == row # NoRow => \E q \in Procs : row.pid = PidOf[q] /\ row.host = HostOf[q]

\* A process about to break the lock has the pid of a dead one in hand, whatever the row is
\* by now: the delete by pid harms nobody alive.
VictimsAreDead == \A p, q \in Procs :
                      phase[p] = "breaking" /\ PidOf[q] = victim[p] => phase[q] = "dead"

\* Who works has its row, and has it fresh.
Has(p) == row # NoRow /\ row.pid = PidOf[p] /\ ~row.lapsed
WorkersHaveTheRow == Calm => \A p \in Procs : phase[p] # "leaving" /\ (phase[p] = "in" => Has(p))

LockInv == LockTypeOK /\ RowHasOwner /\ VictimsAreDead /\ WorkersHaveTheRow

\* The initial states satisfy the invariant.
LEMMA LockInitInv == LockInit => LockInv
<1> SUFFICES ASSUME LockInit PROVE LockInv
    OBVIOUS
<1>1. LockTypeOK
    BY LockAssumption DEF LockInit, LockTypeOK, Phases
<1>2. RowHasOwner /\ VictimsAreDead /\ WorkersHaveTheRow
    BY DEF LockInit, RowHasOwner, VictimsAreDead, WorkersHaveTheRow
<1> QED BY <1>1, <1>2 DEF LockInv

\* A row is not the absence of one.
LEMMA RowsAreRows == NoRow \notin Row
    BY LockAssumption DEF Row

\* Taking the lock, by the upsert.
LEMMA AcquireKeeps ==
    ASSUME LockInv, NEW p \in Procs, Acquire(p)
    PROVE  LockInv'
<1> USE LockAssumption, RowsAreRows DEF LockInv
<1>1. row' = [pid |-> PidOf[p], host |-> HostOf[p], young |-> TRUE, lapsed |-> FALSE] /\ row' \in Row
    BY DEF Acquire, Row
<1>2. LockTypeOK'
    BY <1>1 DEF Acquire, LockTypeOK, Phases
<1>3. RowHasOwner'
    BY <1>1 DEF RowHasOwner
<1>4. VictimsAreDead'
    BY DEF Acquire, VictimsAreDead, LockTypeOK
<1>5. ASSUME Calm', NEW q \in Procs PROVE phase'[q] # "leaving" /\ (phase'[q] = "in" => Has(q)')
  <2>1. Calm
      BY <1>5 DEF Calm, Acquire
  <2>2. q # p => phase'[q] = phase[q] /\ phase[q] # "in" /\ phase[q] # "leaving"
      BY <2>1 DEF Acquire, WorkersHaveTheRow, Has, LockTypeOK
  <2>3. phase'[p] = "in"
      BY DEF Acquire, LockTypeOK
  <2>4. Has(p)'
    <3>1. row'.pid = PidOf[p] /\ ~row'.lapsed /\ row' # NoRow
        BY <1>1
    <3> QED BY <3>1 DEF Has
  <2> QED BY <2>2, <2>3, <2>4
<1> QED BY <1>2, <1>3, <1>4, <1>5 DEF WorkersHaveTheRow

\* Finding the holder dead: no live process has its pid, and the finder works not.
LEMMA FindDeadKeeps ==
    ASSUME LockInv, NEW p \in Procs, FindDead(p)
    PROVE  LockInv'
<1> USE LockAssumption, RowsAreRows DEF LockInv
<1>1. LockTypeOK'
    BY DEF FindDead, LockTypeOK, Phases, Row
<1>2. RowHasOwner'
    BY DEF FindDead, RowHasOwner
<1>3. ASSUME NEW r \in Procs, NEW q \in Procs, phase'[r] = "breaking", PidOf[q] = victim'[r]
      PROVE  phase'[q] = "dead"
  <2>1. CASE r # p
      BY <1>3, <2>1 DEF FindDead, VictimsAreDead, LockTypeOK
  <2>2. CASE r = p
    <3>1. PidOf[q] = row.pid /\ row # NoRow
        BY <1>3, <2>2 DEF FindDead, LockTypeOK
    <3>2. row.host = HostOf[q]
        BY <3>1, UniquePids DEF RowHasOwner
    <3>3. phase[q] = "dead"
        BY <3>1, <3>2 DEF FindDead, IsHolderDeadLocally, AliveHere
    <3> QED BY <3>3 DEF FindDead, LockTypeOK
  <2> QED BY <2>1, <2>2
<1>4. WorkersHaveTheRow'
    BY DEF FindDead, WorkersHaveTheRow, Has, Calm, LockTypeOK
<1> QED BY <1>1, <1>2, <1>3, <1>4 DEF VictimsAreDead

\* Breaking the lock by the pid read before.
LEMMA DeleteLockRowKeeps ==
    ASSUME LockInv, NEW p \in Procs, DeleteLockRow(p)
    PROVE  LockInv'
<1> USE LockAssumption, RowsAreRows DEF LockInv
<1>1. LockTypeOK'
    BY DEF DeleteLockRow, LockTypeOK, Phases
<1>2. RowHasOwner'
    BY DEF DeleteLockRow, RowHasOwner
<1>3. VictimsAreDead'
    BY DEF DeleteLockRow, VictimsAreDead, LockTypeOK
<1>4. ASSUME Calm', NEW q \in Procs PROVE phase'[q] # "leaving" /\ (phase'[q] = "in" => Has(q)')
  <2>1. Calm
      BY <1>4 DEF Calm, DeleteLockRow
  <2>2. phase'[q] # "leaving" /\ (phase'[q] = "in" => phase[q] = "in" /\ Has(q))
      BY <2>1 DEF DeleteLockRow, WorkersHaveTheRow, LockTypeOK
  <2>3. phase[q] = "in" => PidOf[q] # victim[p]
      BY DEF DeleteLockRow, VictimsAreDead
  <2> QED BY <2>2, <2>3 DEF DeleteLockRow, Has
<1> QED BY <1>1, <1>2, <1>3, <1>4 DEF WorkersHaveTheRow

\* Letting the row go by one's own pid, whether that works or not, disturbs nobody else.
LEMMA OthersKeepTheRow ==
    ASSUME LockInv, NEW p \in Procs, row' \in {row, RowWithout(p)},
           NEW q \in Procs, q # p, Has(q)
    PROVE  Has(q)'
    BY UniquePids DEF RowWithout, Has

\* Giving the lock back: the others that work keep their row.
LEMMA ReleaseKeeps ==
    ASSUME LockInv, NEW p \in Procs, Release(p)
    PROVE  LockInv'
<1> USE LockAssumption, RowsAreRows DEF LockInv
<1>1. LockTypeOK'
    BY DEF Release, RowWithout, LockTypeOK, Phases
<1>2. RowHasOwner'
    BY DEF Release, RowWithout, RowHasOwner
<1>3. VictimsAreDead'
    BY DEF Release, VictimsAreDead, LockTypeOK
<1>4. ASSUME Calm', NEW q \in Procs PROVE phase'[q] # "leaving" /\ (phase'[q] = "in" => Has(q)')
  <2>1. Calm
      BY <1>4 DEF Calm, Release
  <2>2. phase'[q] # "leaving" /\ (phase'[q] = "in" => q # p /\ Has(q))
      BY <2>1 DEF Release, WorkersHaveTheRow, LockTypeOK
  <2> QED BY <2>2, OthersKeepTheRow DEF Release
<1> QED BY <1>1, <1>2, <1>3, <1>4 DEF WorkersHaveTheRow

\* Refreshing the row.
LEMMA RefreshKeeps ==
    ASSUME LockInv, NEW p \in Procs, Refresh(p)
    PROVE  LockInv'
<1> USE LockAssumption, RowsAreRows DEF LockInv
<1>1. row \in Row /\ row' = [row EXCEPT !.lapsed = FALSE] /\ row' \in Row
    BY DEF Refresh, LockTypeOK, Row
<1>2. row'.pid = row.pid /\ row'.host = row.host /\ ~row'.lapsed
    BY <1>1 DEF Row
<1>3. LockTypeOK'
    BY <1>1 DEF Refresh, LockTypeOK
<1>4. RowHasOwner' /\ VictimsAreDead'
    BY <1>1, <1>2 DEF Refresh, RowHasOwner, VictimsAreDead
<1>5. WorkersHaveTheRow'
    BY <1>1, <1>2 DEF Refresh, WorkersHaveTheRow, Has, Calm
<1> QED BY <1>3, <1>4, <1>5

\* A signal ends the calm, in which alone the row is promised.
LEMMA TerminateKeeps ==
    ASSUME LockInv, NEW p \in Procs, Terminate(p)
    PROVE  LockInv'
<1> USE LockAssumption, RowsAreRows DEF LockInv
<1>1. LockTypeOK'
    BY DEF Terminate, RowWithout, LockTypeOK, Phases
<1>2. RowHasOwner'
    BY DEF Terminate, RowWithout, RowHasOwner
<1>3. VictimsAreDead'
    BY DEF Terminate, VictimsAreDead, LockTypeOK
<1>4. ~Calm'
    BY DEF Terminate, Calm, LockTypeOK
<1> QED BY <1>1, <1>2, <1>3, <1>4 DEF WorkersHaveTheRow

\* A process dies with its row left behind.
LEMMA ExitKeeps ==
    ASSUME LockInv, NEW p \in Procs, Exit(p)
    PROVE  LockInv'
<1> USE LockAssumption DEF LockInv
<1>1. LockTypeOK'
    BY DEF Exit, LockTypeOK, Phases
<1>2. RowHasOwner' /\ VictimsAreDead'
    BY DEF Exit, RowHasOwner, VictimsAreDead, LockTypeOK
<1>3. WorkersHaveTheRow'
    BY DEF Exit, WorkersHaveTheRow, Has, Calm, LockTypeOK
<1> QED BY <1>1, <1>2, <1>3

\* Time: a fresh row of a live holder lapses only by a stall.
LEMMA TimeKeeps ==
    ASSUME LockInv, GrowOld \/ Lapse
    PROVE  LockInv'
<1> USE LockAssumption, RowsAreRows DEF LockInv
<1>1. row \in Row /\ row' \in Row /\ row'.pid = row.pid /\ row'.host = row.host
    BY DEF GrowOld, Lapse, LockTypeOK, Row
<1>2. LockTypeOK'
    BY <1>1 DEF GrowOld, Lapse, LockTypeOK
<1>3. RowHasOwner' /\ VictimsAreDead'
    BY <1>1 DEF GrowOld, Lapse, RowHasOwner, VictimsAreDead
<1>4. WorkersHaveTheRow'
  <2>1. CASE GrowOld
    <3>1. row'.lapsed = row.lapsed
        BY <1>1, <2>1 DEF GrowOld, Row
    <3> QED BY <1>1, <2>1, <3>1 DEF GrowOld, WorkersHaveTheRow, Has, Calm
  <2>2. CASE Lapse
    <3>1. ASSUME Calm' PROVE Calm /\ ~Refreshed
        BY <2>2, <3>1 DEF Lapse, Calm, LockTypeOK
    <3>2. ASSUME Calm', NEW q \in Procs PROVE phase'[q] # "leaving" /\ phase'[q] # "in"
        BY <2>2, <3>1, <3>2 DEF Lapse, WorkersHaveTheRow, Has, Refreshed
    <3> QED BY <3>2 DEF WorkersHaveTheRow
  <2> QED BY <2>1, <2>2
<1> QED BY <1>2, <1>3, <1>4

\* Reaping the row of a dead holder: nobody works, or it would have that row.
LEMMA ReapKeeps ==
    ASSUME LockInv, NEW p \in Procs, Reap(p)
    PROVE  LockInv'
<1> USE LockAssumption, RowsAreRows DEF LockInv
<1>1. LockTypeOK' /\ RowHasOwner' /\ VictimsAreDead'
    BY DEF Reap, LockTypeOK, RowHasOwner, VictimsAreDead
<1>2. ASSUME Calm', NEW q \in Procs PROVE phase'[q] # "leaving" /\ phase'[q] # "in"
  <2>1. Calm
      BY <1>2 DEF Calm, Reap
  <2>2. phase[q] # "in"
    <3> SUFFICES ASSUME phase[q] = "in" PROVE FALSE
        OBVIOUS
    <3>1. row # NoRow /\ row.pid = PidOf[q]
        BY <2>1 DEF WorkersHaveTheRow, Has
    <3>2. row.host = HostOf[q]
        BY <3>1, UniquePids DEF RowHasOwner
    <3> QED BY <3>1, <3>2 DEF Reap, IsHolderDeadLocally, AliveHere
  <2> QED BY <2>1, <2>2 DEF Reap, WorkersHaveTheRow
<1> QED BY <1>1, <1>2 DEF WorkersHaveTheRow

\* Every step keeps the invariant.
LEMMA LockNextInv == LockInv /\ [LockNext]_lockVars => LockInv'
<1> SUFFICES ASSUME LockInv, [LockNext]_lockVars PROVE LockInv'
    OBVIOUS
<1>1. CASE LockNext
    BY <1>1, AcquireKeeps, FindDeadKeeps, DeleteLockRowKeeps, ReleaseKeeps, RefreshKeeps,
       TerminateKeeps, ExitKeeps, ReapKeeps, TimeKeeps DEF LockNext
<1>2. CASE UNCHANGED lockVars
    BY <1>2 DEF lockVars, LockInv, LockTypeOK, RowHasOwner, VictimsAreDead, WorkersHaveTheRow,
                Has, Calm
<1> QED BY <1>1, <1>2

\* The invariant gives mutual exclusion: two that work would both have the one row.
LEMMA LockInvExcludes == LockInv => OneSyncAtATime
<1> SUFFICES ASSUME LockInv, stalls = 0, signals = 0,
                    NEW p \in Procs, NEW q \in Procs, Working(p), Working(q)
             PROVE  p = q
    BY DEF OneSyncAtATime
<1>1. Has(p) /\ Has(q)
    BY DEF LockInv, WorkersHaveTheRow, Calm, Working
<1> QED BY <1>1, UniquePids DEF Has

\* The lock is well-typed in every reachable state.
THEOREM LockTypeCorrect == LockSpec => []LockTypeOK
<1>1. LockInv => LockTypeOK
    BY DEF LockInv
<1> QED BY <1>1, LockInitInv, LockNextInv, PTL DEF LockSpec

\* performSync's lock (sync.ts:1136) admits one sync at a time: deaths, takeovers of the dead
\* and of lapsed rows, and the reaping of rows never let a second process in, except after a
\* holder's stall or a signal in the middle of its work.
THEOREM LockExcludes == LockSpec => []OneSyncAtATime
    BY LockInitInv, LockNextInv, LockInvExcludes, PTL DEF LockSpec

----------------------------------------------------------------------------
(* The sync is a user of the lock.                                         *)

\* Whatever else a step does, it does to the lock what DbLock has, or nothing.
LEMMA StepTakesTheLock == [Next]_vars => [LockNext]_lockVars
<1> SUFFICES ASSUME [Next]_vars PROVE [LockNext]_lockVars
    OBVIOUS
<1>1. CASE UNCHANGED vars
    BY <1>1 DEF vars
<1>2. CASE Git
    BY <1>2 DEF Git, CommitEdit, CommitRemoval, CommitRename, CommitRevert, Rewrite, Commit
<1>3. CASE LockStep
    BY <1>3 DEF LockStep, LockNext
<1>4. ASSUME NEW p \in Procs, Work(p) \/ Partial(p) \/ BeginBlind(p) \/ BeginFallback(p)
      PROVE  LockNext \/ UNCHANGED lockVars
    BY <1>4 DEF Work, Partial, BeginFull, ListFull, Begin, BeginBlind, BeginFallback, Start,
       SavePin, Gate, Advance, Finish, GateFull, Reconcile, ReleaseRun, DeletePage,
       ImportRenamed, ImportOnePath, ImportFull, MoveSlug, Lock, LockNext
<1>5. ASSUME NEW p \in Procs, ExitRun(p) \/ TerminateRun(p) PROVE LockNext
    BY <1>5 DEF ExitRun, TerminateRun, LockNext
<1> QED BY <1>1, <1>2, <1>3, <1>4, <1>5 DEF Next

\* Every behaviour of the sync is one of the lock (sync.ts:1135-1173 over db-lock.ts).
THEOREM SyncUsesTheLock == Spec => LockSpec
<1>1. Init => LockInit
    BY DEF Init
<1> QED BY <1>1, StepTakesTheLock, PTL DEF Spec, LockSpec

\* So two syncs of one source are never at work together, outside stalls and signals.
THEOREM OneSync == Spec => []OneSyncAtATime
    BY SyncUsesTheLock, LockExcludes, PTL

----------------------------------------------------------------------------
(* The inductive invariant.                                                *)

Before == {"save", "work", "moved", "list", "full", "advance"}

\* Without a rewrite the history is a line, and HEAD its end.
GitInv == /\ tree \in Seq([Paths -> Versions]) /\ Len(tree) \in Commits
          /\ past \in Seq(SUBSET Commits) /\ Len(past) = Len(tree)
          /\ head \in 1..Len(tree) /\ rewrites \in 0..MaxRewrites /\ reverts \in 0..MaxReverts
          /\ bad \subseteq Commits
          /\ \A c \in 1..Len(tree) : past[c] \subseteq 1..c
          /\ rewrites = 0 => head = Len(tree) /\ \A c \in 1..Len(tree) : past[c] = 1..c

StoreTyped == /\ page \in [Paths -> Versions] /\ anchor \in Versions
              /\ fullDone \subseteq Paths /\ ledger \in [Paths -> Failure]
              /\ faults \in 0..MaxFaults /\ missed \subseteq Paths /\ leftover \subseteq Paths

\* A checkpoint's target is an existing commit, not older than the bookmark it belongs to.
CkptInv == /\ ckpt \in [Commits -> [target: Versions, paths: SUBSET Paths]]
           /\ \A c \in Commits : /\ ckpt[c].target <= Len(tree)
                                 /\ rewrites = 0 /\ ckpt[c].target # 0 => c <= ckpt[c].target

\* A run that has still to write the bookmark found it at the run's base, to which it is
\* pinned or to a later commit.
Forward(r) == r.step \in Before /\ rewrites = 0 => r.base <= r.pin
InTime(r) == r.step \in Before /\ rewrites = 0 /\ Calm => anchor = r.base
Sound(r) == r \in Run /\ r.base <= Len(tree) /\ r.pin <= Len(tree) /\ Forward(r) /\ InTime(r)

RunInv == /\ run \in [Procs -> Run]
          /\ \A p \in Procs : Sound(run[p]) /\ (run[p].step # "idle" => Working(p))

SyncInv == GitInv /\ StoreTyped /\ anchor <= Len(tree) /\ CkptInv /\ RunInv
Inv == LockInv /\ SyncInv

\* The type invariant is part of the inductive one.
LEMMA InvTyped == Inv => TypeOK
    BY DEF Inv, LockInv, SyncInv, GitInv, StoreTyped, CkptInv, RunInv, Sound, TypeOK

\* What an idle run and one that is over have in memory.
LEMMA IdleSound ==
    ASSUME SyncInv
    PROVE  /\ Sound(Idle) /\ Sound(Over) /\ Idle \in Run
           /\ Idle.step = "idle" /\ Over.step = "over"
<1>1. Idle \in Run /\ Over \in Run
  <2>1. 0 \in Versions
      BY SyncAssumption DEF Versions
  <2>2. Idle \in Run
      BY <2>1 DEF Idle, Run, Steps
  <2>3. "over" \in Steps
      BY DEF Steps
  <2> QED BY <2>2, <2>3 DEF Over, Run
<1>2. Idle.step = "idle" /\ Idle.base = 0 /\ Idle.pin = 0 /\ Over.step = "over" /\ Over.base = 0 /\ Over.pin = 0
    BY DEF Idle, Over
<1>3. Len(tree) \in Nat
    BY SyncAssumption DEF SyncInv, GitInv, Commits
<1> QED BY <1>1, <1>2, <1>3 DEF Sound, Forward, InTime, Before

\* The initial states satisfy the invariant.
LEMMA InitInv == Init => Inv
<1> SUFFICES ASSUME Init PROVE Inv
    OBVIOUS
<1>1. LockInv
    BY LockInitInv DEF Init
<1> USE SyncAssumption
<1>2. GitInv
  <2>1. tree \in Seq([Paths -> Versions]) /\ Len(tree) = 1
      BY DEF Init, Versions
  <2>2. past \in Seq(SUBSET Commits) /\ Len(past) = 1 /\ past[1] = {1}
      BY DEF Init, Commits
  <2>3. head = 1 /\ rewrites = 0 /\ reverts = 0 /\ bad = {}
      BY DEF Init
  <2>4. 1 \in Commits /\ 1..1 = {1}
      BY DEF Commits
  <2> QED BY <2>1, <2>2, <2>3, <2>4 DEF GitInv
<1>3. StoreTyped /\ anchor = 0
  <2>1. NoFailure \in Failure /\ 0 \in Versions
      BY DEF NoFailure, Failure, Versions
  <2>2. page \in [Paths -> Versions] /\ ledger \in [Paths -> Failure]
      BY <2>1 DEF Init
  <2>3. faults \in 0..MaxFaults
      BY DEF Init
  <2> QED BY <2>1, <2>2, <2>3 DEF Init, StoreTyped
<1>4. CkptInv
  <2>1. NoCheckpoint \in [target: Versions, paths: SUBSET Paths] /\ NoCheckpoint.target = 0
      BY DEF NoCheckpoint, Versions
  <2>2. \A c \in Commits : ckpt[c] = NoCheckpoint
      BY DEF Init
  <2>3. Len(tree) \in Nat
      BY <1>2 DEF GitInv, Commits
  <2> QED BY <2>1, <2>2, <2>3 DEF Init, CkptInv
<1>5. RunInv
  <2>1. Idle \in Run
      BY DEF Idle, Run, Steps, Versions
  <2>2. Idle.step = "idle" /\ Idle.base = 0 /\ Idle.pin = 0
      BY DEF Idle
  <2>3. Len(tree) \in Nat
      BY <1>2 DEF GitInv, Commits
  <2>4. Sound(Idle)
      BY <2>1, <2>2, <2>3 DEF Sound, Forward, InTime, Before
  <2> QED BY <2>1, <2>2, <2>4 DEF Init, RunInv
<1>6. anchor <= Len(tree)
    BY <1>2, <1>3 DEF GitInv, Commits
<1> QED BY <1>1, <1>2, <1>3, <1>4, <1>5, <1>6 DEF Inv, SyncInv

----------------------------------------------------------------------------
(* What the steps of a run have in common.                                 *)

Still == UNCHANGED <<lockVars, gitVars>>

\* A working process replaces what it has in memory by something sound.
LEMMA RunMoves ==
    ASSUME Inv, Still, StoreTyped', CkptInv', anchor' = anchor,
           NEW p \in Procs, NEW r, Set(p, r), Sound(r), Working(p)
    PROVE  Inv'
<1>1. LockInv'
    BY DEF Still, lockVars, Inv, LockInv, LockTypeOK, RowHasOwner, VictimsAreDead,
           WorkersHaveTheRow, Has, Calm
<1>2. GitInv' /\ anchor' <= Len(tree')
    BY DEF Still, gitVars, Inv, SyncInv, GitInv
<1>3. \A o : Sound(o)' = Sound(o)
    BY DEF Still, gitVars, lockVars, Sound, Forward, InTime, Calm
<1>4. run' \in [Procs -> Run] /\ \A q \in Procs : run'[q] = IF q = p THEN r ELSE run[q]
    BY DEF Set, Inv, SyncInv, RunInv, Sound
<1>5. \A q \in Procs : Working(q)' = Working(q)
    BY DEF Still, lockVars, Working
<1>6. RunInv'
    BY <1>3, <1>4, <1>5 DEF RunInv, Inv, SyncInv
<1> QED BY <1>1, <1>2, <1>6 DEF Inv, SyncInv

\* A run before its bookmark stays sound while its base and pin stay.
LEMMA SameSpan ==
    ASSUME Inv, NEW p \in Procs, run[p].step \in Before, NEW r \in Run,
           r.base = run[p].base, r.pin = run[p].pin
    PROVE  Sound(r)
    BY DEF Inv, SyncInv, RunInv, Sound, Forward, InTime

\* A checkpoint keeps its targets or loses them.
LEMMA TargetsKept ==
    ASSUME Inv, Still, ckpt' \in [Commits -> [target: Versions, paths: SUBSET Paths]],
           \A c \in Commits : ckpt'[c].target \in {0, ckpt[c].target}
    PROVE  CkptInv'
<1>1. Len(tree) \in Nat /\ tree' = tree /\ rewrites' = rewrites
    BY SyncAssumption DEF Still, gitVars, Inv, SyncInv, GitInv, Commits
<1> QED BY <1>1 DEF CkptInv, Inv, SyncInv

\* The count of faults stays within its bound.
LEMMA FaultCounted == Inv /\ (Fault \/ UNCHANGED faults) => faults' \in 0..MaxFaults
    BY SyncAssumption DEF Inv, SyncInv, StoreTyped, Fault, MayFault

\* clearOpCheckpoint.
LEMMA ClearKeeps ==
    ASSUME Inv, Still, NEW c \in Versions, Clear(c)
    PROVE  CkptInv' /\ faults' \in 0..MaxFaults
<1>1. faults' \in 0..MaxFaults
    BY FaultCounted DEF Clear
<1>2. 0 \in Versions /\ NoCheckpoint \in [target: Versions, paths: SUBSET Paths] /\ NoCheckpoint.target = 0
    BY SyncAssumption DEF Versions, NoCheckpoint
<1>3. ckpt \in [Commits -> [target: Versions, paths: SUBSET Paths]]
    BY DEF Inv, SyncInv, CkptInv
<1>4. /\ ckpt' \in [Commits -> [target: Versions, paths: SUBSET Paths]]
      /\ \A d \in Commits : ckpt'[d].target \in {0, ckpt[d].target}
  <2>1. CASE ckpt' = [ckpt EXCEPT ![c] = NoCheckpoint]
      BY <1>2, <1>3, <2>1
  <2>2. CASE ckpt' = [ckpt EXCEPT ![c].target = 0]
      BY <1>2, <1>3, <2>2
  <2>3. CASE ckpt' = [ckpt EXCEPT ![c].paths = {}]
      BY <1>2, <1>3, <2>3
  <2> QED BY <2>1, <2>2, <2>3 DEF Clear
<1> QED BY <1>1, <1>4, TargetsKept

\* Paths added to a checkpoint.
LEMMA FlushKeeps ==
    ASSUME Inv, Still, NEW c \in Versions, NEW batch \in SUBSET Paths,
           ckpt' = ckpt \/ ckpt' = [ckpt EXCEPT ![c].paths = @ \cup batch]
    PROVE  CkptInv'
<1>1. ckpt \in [Commits -> [target: Versions, paths: SUBSET Paths]]
    BY DEF Inv, SyncInv, CkptInv
<1>2. /\ ckpt' \in [Commits -> [target: Versions, paths: SUBSET Paths]]
      /\ \A d \in Commits : ckpt'[d].target \in {0, ckpt[d].target}
    BY <1>1
<1> QED BY <1>2, TargetsKept

\* markCompleted changes checkpoint and memory soundly.
LEMMA MarkKeeps ==
    ASSUME Inv, Still, NEW p \in Procs, NEW q \in Paths, NEW r \in Run, Mark(p, q, r)
    PROVE  /\ CkptInv'
           /\ \E s \in Run : Set(p, s) /\ s.step = r.step /\ s.base = r.base /\ s.pin = r.pin
<1> DEFINE batch == r.pending \cup {q}
           s == [r EXCEPT !.left = @ \ {q}, !.pending = batch]
           t == [r EXCEPT !.left = @ \ {q}, !.pending = {}]
<1>1. batch \in SUBSET Paths /\ r.base \in Versions
    BY DEF Run
<1>2. s \in Run /\ s.step = r.step /\ s.base = r.base /\ s.pin = r.pin
    BY <1>1 DEF Run
<1>3. t \in Run /\ t.step = r.step /\ t.base = r.base /\ t.pin = r.pin
    BY DEF Run
<1>4. Set(p, s) \/ Set(p, t)
    BY DEF Mark
<1>5. ckpt' = ckpt \/ ckpt' = [ckpt EXCEPT ![r.base].paths = @ \cup batch]
    BY DEF Mark
<1>6. CkptInv'
    BY <1>1, <1>5, FlushKeeps
<1> QED BY <1>2, <1>3, <1>4, <1>6

----------------------------------------------------------------------------
(* The steps of a run, one lemma each.                                     *)

\* Facts of the state a run's step starts in.
LEMMA RunFacts ==
    ASSUME Inv, NEW p \in Procs
    PROVE  /\ run[p] \in Run /\ Sound(run[p]) /\ (run[p].step # "idle" => Working(p))
           /\ Len(tree) \in Nat /\ Len(tree) \in Commits /\ head \in 1..Len(tree)
           /\ head \in Versions /\ head <= Len(tree) /\ fullDone \subseteq Paths
           /\ anchor \in Versions /\ anchor <= Len(tree)
           /\ ckpt \in [Commits -> [target: Versions, paths: SUBSET Paths]]
           /\ CkptInv /\ StoreTyped /\ LockInv
    BY SyncAssumption DEF Inv, SyncInv, RunInv, GitInv, Commits, Versions, StoreTyped, CkptInv

\* A commit's files have versions, and what a run has to do are paths.
LEMMA TreeTyped == Inv => \A c \in 0..Len(tree) : Tree(c) \in [Paths -> Versions]
<1> SUFFICES ASSUME Inv, NEW c \in 0..Len(tree) PROVE Tree(c) \in [Paths -> Versions]
    OBVIOUS
<1>1. tree \in Seq([Paths -> Versions]) /\ Len(tree) \in Nat /\ 0 \in Versions
    BY SyncAssumption DEF Inv, SyncInv, GitInv, Commits, Versions
<1> QED BY <1>1 DEF Tree

LEMMA RenamesMatch ==
    ASSUME NEW b \in [Paths -> Versions], NEW t \in [Paths -> Versions]
    PROVE  /\ Renames(b, t) \subseteq Gone(b, t) \X New(b, t)
           /\ \A m, n \in Renames(b, t) : m[1] = n[1] <=> m[2] = n[2]
    BY PairedAssumption DEF Renames

LEMMA ManifestTyped ==
    ASSUME NEW b \in [Paths -> Versions], NEW t \in [Paths -> Versions]
    PROVE  Manifest(b, t) \subseteq Paths
    BY RenamesMatch DEF Manifest, Deletes, Gone, New, Imports

\* A full sync pins HEAD, for want of a bookmark.
LEMMA BeginFullKeeps ==
    ASSUME Inv, NEW p \in Procs, BeginFull(p)
    PROVE  Inv'
<1> DEFINE r == [Idle EXCEPT !.step = "list", !.pin = head, !.full = TRUE]
<1>1. Set(p, r) /\ Still /\ anchor' = anchor /\ Working(p)
    BY DEF BeginFull, Lock, Still, storeVars, Working
<1>2. StoreTyped' /\ CkptInv'
    BY RunFacts DEF BeginFull, Lock, auxVars, storeVars, gitVars, StoreTyped, CkptInv
<1>3. r \in Run /\ r.base = 0 /\ r.pin = head /\ r.step = "list"
  <2>1. Idle \in Run /\ Idle.base = 0
      BY IdleSound DEF Inv, Idle
  <2> QED BY <2>1, RunFacts DEF Run, Steps
<1>4. rewrites = 0 => anchor = 0
    BY RunFacts DEF BeginFull, Inv, SyncInv, GitInv, Versions
<1>5. Sound(r)
    BY <1>3, <1>4, RunFacts DEF Sound, Forward, InTime
<1> QED BY <1>1, <1>2, <1>5, RunMoves

\* What the import of a full sync lists.
LEMMA ListFullKeeps ==
    ASSUME Inv, NEW p \in Procs, ListFull(p)
    PROVE  Inv'
<1> DEFINE r == [run[p] EXCEPT !.step = "full", !.done = fullDone,
                               !.left = {q \in Paths : Live[q] # 0} \ fullDone]
<1>1. Set(p, r) /\ Still /\ anchor' = anchor /\ Working(p) /\ run[p].step \in Before
    BY RunFacts DEF ListFull, Lock, Still, storeVars, Before
<1>2. StoreTyped' /\ CkptInv'
    BY RunFacts DEF ListFull, Lock, auxVars, storeVars, gitVars, StoreTyped, CkptInv
<1>3. r \in Run /\ r.base = run[p].base /\ r.pin = run[p].pin
    BY RunFacts DEF Run, Steps
<1>4. Sound(r)
    BY <1>1, <1>3, SameSpan
<1> HIDE DEF r
<1> QED BY <1>1, <1>2, <1>4, RunMoves

\* A run starts from the bookmark, for a pin that is not behind it.
LEMMA StartKeeps ==
    ASSUME Inv, NEW p \in Procs, anchor # 0, NEW pin \in Versions, pin <= Len(tree),
           rewrites = 0 => anchor <= pin, NEW done, Start(p, pin, done),
           StoreTyped', CkptInv'
    PROVE  Inv'
<1> DEFINE todo == Manifest(Tree(anchor), Tree(pin))
           r == [Idle EXCEPT !.base = anchor, !.pin = pin]
           a == [r EXCEPT !.step = "advance"]
           w == [r EXCEPT !.step = "save", !.left = todo \ done]
<1>1. Still /\ anchor' = anchor /\ Working(p)
    BY DEF Start, Still, Working
<1>2. todo \subseteq Paths
  <2>1. anchor \in 0..Len(tree) /\ pin \in 0..Len(tree)
      BY RunFacts DEF Versions
  <2> QED BY <2>1, TreeTyped, ManifestTyped
<1>3. /\ a \in Run /\ a.base = anchor /\ a.pin = pin
      /\ w \in Run /\ w.base = anchor /\ w.pin = pin
  <2> HIDE DEF todo
  <2>1. Idle \in Run
      BY IdleSound DEF Inv
  <2> QED BY <1>2, <2>1, RunFacts DEF Run, Steps
<1>4. Sound(a) /\ Sound(w) /\ Sound(Over)
  <2> HIDE DEF a, w
  <2> QED BY <1>3, RunFacts, IdleSound DEF Sound, Forward, InTime, Inv
<1>5. Set(p, Over) \/ Set(p, a) \/ Set(p, w)
    BY DEF Start
<1> HIDE DEF a, w
<1> QED BY <1>1, <1>4, <1>5, RunMoves

\* The pins there are: HEAD, and the target of the checkpoint.
LEMMA PinsForward ==
    ASSUME Inv, anchor # 0
    PROVE  /\ rewrites = 0 => anchor <= head
           /\ Resumable(anchor) =>
                /\ ckpt[anchor].target \in Versions /\ ckpt[anchor].target <= Len(tree)
                /\ rewrites = 0 => anchor <= ckpt[anchor].target
<1>1. anchor \in Commits
    BY RunFacts DEF Versions, Commits, Inv, SyncInv, StoreTyped
<1>2. rewrites = 0 => anchor <= head
    BY DEF Inv, SyncInv, GitInv
<1> QED BY <1>1, <1>2 DEF Resumable, CkptInv, Inv, SyncInv

\* An incremental sync pins HEAD, or what the checkpoint has pinned before.
LEMMA BeginKeeps ==
    ASSUME Inv, NEW p \in Procs, Begin(p)
    PROVE  Inv'
<1>1. Still /\ anchor # 0 /\ UNCHANGED <<page, anchor, fullDone, ledger, auxVars>>
    BY DEF Begin, Start, Still
<1>2. StoreTyped' /\ CkptInv'
  <2>1. CASE Clear(anchor)
      BY <1>1, <2>1, RunFacts, ClearKeeps DEF auxVars, StoreTyped
  <2>2. CASE UNCHANGED <<ckpt, faults>>
      BY <1>1, <2>2, RunFacts DEF auxVars, StoreTyped, Still, gitVars, CkptInv
  <2> QED BY <2>1, <2>2 DEF Begin
<1>3. CASE Resumable(anchor) /\ Start(p, ckpt[anchor].target, ckpt[anchor].paths)
    BY <1>1, <1>2, <1>3, PinsForward, StartKeeps
<1>4. CASE Start(p, head, {})
    BY <1>1, <1>2, <1>4, PinsForward, RunFacts, StartKeeps
<1> QED BY <1>3, <1>4 DEF Begin

\* So does one that could not read the checkpoint.
LEMMA BeginBlindKeeps ==
    ASSUME Inv, NEW p \in Procs, BeginBlind(p)
    PROVE  Inv'
<1>1. Still /\ anchor # 0 /\ UNCHANGED <<page, anchor, ckpt, fullDone, ledger>>
    BY DEF BeginBlind, Start, Still
<1>2. missed' \subseteq Paths /\ leftover' \subseteq Paths
  <2>1. missed \subseteq Paths /\ leftover \subseteq Paths /\ Unfiled(head) \subseteq Paths
      BY RunFacts DEF StoreTyped, Unfiled
  <2>2. ckpt[anchor].paths \subseteq Paths
    <3>1. anchor \in Commits
        BY <1>1, RunFacts DEF Versions, Commits
    <3> QED BY <3>1, RunFacts
  <2> QED BY <2>1, <2>2 DEF BeginBlind, auxVars
<1>3. StoreTyped' /\ CkptInv'
    BY <1>1, <1>2, RunFacts, FaultCounted DEF BeginBlind, StoreTyped, Still, gitVars, CkptInv
<1>4. CASE Resumable(anchor) /\ Start(p, ckpt[anchor].target, {})
    BY <1>1, <1>3, <1>4, PinsForward, StartKeeps
<1>5. CASE Start(p, head, {})
    BY <1>1, <1>3, <1>5, PinsForward, RunFacts, StartKeeps
<1> QED BY <1>4, <1>5 DEF BeginBlind

\* A sync whose diff has failed is a full one of HEAD.
LEMMA BeginFallbackKeeps ==
    ASSUME Inv, NEW p \in Procs, BeginFallback(p)
    PROVE  Inv'
<1> DEFINE r == [Idle EXCEPT !.step = "list", !.base = anchor, !.pin = head, !.full = TRUE]
<1>1. Set(p, r) /\ Still /\ anchor' = anchor /\ Working(p) /\ anchor # 0
    BY DEF BeginFallback, Still, Working
<1>2. StoreTyped'
    BY RunFacts, FaultCounted DEF BeginFallback, StoreTyped
<1>3. CkptInv'
  <2>1. NoCheckpoint \in [target: Versions, paths: SUBSET Paths] /\ NoCheckpoint.target = 0
      BY SyncAssumption DEF Versions, NoCheckpoint
  <2>2. /\ ckpt' \in [Commits -> [target: Versions, paths: SUBSET Paths]]
        /\ \A c \in Commits : ckpt'[c].target \in {0, ckpt[c].target}
      BY <2>1, RunFacts DEF BeginFallback
  <2> QED BY <1>1, <2>2, TargetsKept
<1>4. r \in Run /\ r.base = anchor /\ r.pin = head /\ r.step = "list"
  <2>1. Idle \in Run
      BY IdleSound DEF Inv
  <2> QED BY <2>1, RunFacts DEF Run, Steps
<1>5. Sound(r)
    BY <1>1, <1>4, PinsForward, RunFacts DEF Sound, Forward, InTime
<1> HIDE DEF r
<1> QED BY <1>1, <1>2, <1>3, <1>5, RunMoves

\* The pin goes to the checkpoint of the run's own base.
LEMMA SavePinKeeps ==
    ASSUME Inv, NEW p \in Procs, SavePin(p)
    PROVE  Inv'
<1> DEFINE r == [run[p] EXCEPT !.step = "work"]
<1>1. Still /\ anchor' = anchor /\ Working(p)
    BY RunFacts DEF SavePin, Lock, Still
<1>2. StoreTyped'
    BY FaultCounted, RunFacts DEF SavePin, Lock, auxVars, StoreTyped
<1>3. CASE /\ ckpt' = [ckpt EXCEPT ![run[p].base].target = run[p].pin]
           /\ Set(p, r)
  <2>1. r \in Run /\ r.base = run[p].base /\ r.pin = run[p].pin
      BY RunFacts DEF Run, Steps
  <2>2. run[p].step \in Before /\ Sound(r)
      BY <2>1, SameSpan DEF SavePin, Before
  <2>3. /\ run[p].pin \in Versions /\ run[p].pin <= Len(tree)
        /\ rewrites = 0 => run[p].base <= run[p].pin
      BY <2>2, RunFacts DEF Sound, Forward, Run
  <2>4. CkptInv'
    <3>1. ckpt' \in [Commits -> [target: Versions, paths: SUBSET Paths]]
        BY <1>3, <2>3, RunFacts
    <3>2. \A c \in Commits : IF c = run[p].base THEN ckpt'[c].target = run[p].pin
                                                ELSE ckpt'[c] = ckpt[c]
        BY <1>3, RunFacts
    <3> QED BY <1>1, <2>3, <3>1, <3>2, RunFacts DEF CkptInv, Still, gitVars
  <2> QED BY <1>1, <1>2, <1>3, <2>2, <2>4, RunMoves
<1>4. CASE Set(p, Over) /\ UNCHANGED ckpt
  <2>1. CkptInv'
      BY <1>1, <1>4, RunFacts DEF CkptInv, Still, gitVars
  <2> QED BY <1>1, <1>2, <1>4, <2>1, IdleSound, RunMoves DEF Inv
<1> QED BY <1>3, <1>4 DEF SavePin

\* A path is done with, and marked or noted as failed.
LEMMA PathDone ==
    ASSUME Inv, Still, StoreTyped', anchor' = anchor, NEW p \in Procs,
           run[p].step \in Before, NEW q \in Paths, NEW r \in Run,
           r.base = run[p].base, r.pin = run[p].pin,
           Mark(p, q, r) \/ (Set(p, r) /\ UNCHANGED ckpt)
    PROVE  Inv'
<1>1. Working(p)
    BY RunFacts DEF Before
<1>2. CASE Mark(p, q, r)
  <2>1. CkptInv'
      BY <1>2, MarkKeeps
  <2>2. PICK s \in Run : Set(p, s) /\ s.step = r.step /\ s.base = r.base /\ s.pin = r.pin
      BY <1>2, MarkKeeps
  <2>3. Sound(s)
      BY <2>2, SameSpan
  <2> QED BY <1>1, <2>1, <2>2, <2>3, RunMoves
<1>3. CASE Set(p, r) /\ UNCHANGED ckpt
  <2>1. CkptInv'
      BY <1>3, RunFacts DEF CkptInv, Still, gitVars
  <2>2. Sound(r)
      BY SameSpan
  <2> QED BY <1>1, <1>3, <2>1, <2>2, RunMoves
<1> QED BY <1>2, <1>3

\* Deleting a page of no file.
LEMMA DeletePageKeeps ==
    ASSUME Inv, NEW p \in Procs, NEW q \in Paths, DeletePage(p, q)
    PROVE  Inv'
<1> DEFINE r == [run[p] EXCEPT !.left = @ \ {q}, !.failed = @ \cup {q}]
<1>1. Still /\ anchor' = anchor /\ run[p].step \in Before /\ run[p] \in Run
    BY RunFacts DEF DeletePage, Still, Before
<1>2. r \in Run /\ r.step = run[p].step /\ r.base = run[p].base /\ r.pin = run[p].pin
    BY <1>1 DEF Run
<1>3. StoreTyped'
  <2>1. page' \in [Paths -> Versions]
      BY RunFacts, SyncAssumption DEF DeletePage, StoreTyped, Versions
  <2>2. leftover' \subseteq Paths
      BY RunFacts DEF DeletePage, StoreTyped
  <2> QED BY <2>1, <2>2, RunFacts, FaultCounted DEF DeletePage, StoreTyped
<1>4. Mark(p, q, run[p]) \/ (Set(p, r) /\ UNCHANGED ckpt)
    BY DEF DeletePage
<1> HIDE DEF r
<1> QED BY <1>1, <1>2, <1>3, <1>4, PathDone

\* The first half of a rename.
LEMMA MoveSlugKeeps ==
    ASSUME Inv, NEW p \in Procs, NEW m \in Paths \X Paths, MoveSlug(p, m)
    PROVE  Inv'
<1> DEFINE r == [run[p] EXCEPT !.step = "moved", !.at = {m[2]}]
<1>1. Still /\ anchor' = anchor /\ run[p].step \in Before /\ run[p] \in Run /\ Working(p)
    BY RunFacts DEF MoveSlug, Still, Before
<1>2. r \in Run /\ r.base = run[p].base /\ r.pin = run[p].pin
    BY <1>1 DEF Run, Steps
<1>3. StoreTyped' /\ CkptInv'
  <2>1. page' \in [Paths -> Versions]
      BY RunFacts, SyncAssumption DEF MoveSlug, StoreTyped, Versions
  <2>2. leftover' \subseteq Paths
      BY RunFacts DEF MoveSlug, StoreTyped
  <2> QED BY <2>1, <2>2, RunFacts, FaultCounted DEF MoveSlug, StoreTyped, CkptInv, gitVars
<1>4. Set(p, r) /\ Sound(r)
    BY <1>1, <1>2, SameSpan DEF MoveSlug
<1> HIDE DEF r
<1> QED BY <1>1, <1>3, <1>4, RunMoves

\* The versions of files are those of commits.
LEMMA LiveTyped == Inv => \A q \in Paths : Live[q] \in Versions
<1> SUFFICES ASSUME Inv, NEW q \in Paths PROVE Live[q] \in Versions
    OBVIOUS
<1>1. head \in 1..Len(tree) /\ tree \in Seq([Paths -> Versions])
    BY DEF Inv, SyncInv, GitInv
<1>2. tree[head] \in [Paths -> Versions]
    BY <1>1
<1> QED BY <1>1, <1>2 DEF Live, Tree

\* The second half of a rename.
LEMMA ImportRenamedKeeps ==
    ASSUME Inv, NEW p \in Procs, NEW q \in Paths, ImportRenamed(p, q)
    PROVE  Inv'
<1> DEFINE r == [run[p] EXCEPT !.step = "work", !.at = {}]
<1>1. Still /\ anchor' = anchor /\ run[p].step \in Before /\ run[p] \in Run /\ Working(p)
    BY RunFacts DEF ImportRenamed, Still, Before
<1>2. r \in Run /\ r.base = run[p].base /\ r.pin = run[p].pin /\ r.step \in Before
    BY <1>1 DEF Run, Steps, Before
<1>3. StoreTyped'
  <2>1. page' \in [Paths -> Versions]
      BY RunFacts, LiveTyped DEF ImportRenamed, StoreTyped
  <2>2. missed' \subseteq Paths
      BY RunFacts DEF ImportRenamed, StoreTyped
  <2> QED BY <2>1, <2>2, RunFacts, FaultCounted DEF ImportRenamed, StoreTyped
<1>4. CASE Mark(p, q, r)
  <2> HIDE DEF r
  <2> QED BY <1>1, <1>2, <1>3, <1>4, PathDone
<1>5. CASE Set(p, Over) /\ UNCHANGED ckpt
  <2>1. CkptInv'
      BY <1>1, <1>5, RunFacts DEF CkptInv, Still, gitVars
  <2> QED BY <1>1, <1>3, <1>5, <2>1, IdleSound, RunMoves DEF Inv
<1> QED BY <1>4, <1>5 DEF ImportRenamed

\* Importing a path.
LEMMA ImportOnePathKeeps ==
    ASSUME Inv, NEW p \in Procs, NEW q \in Paths, ImportOnePath(p, q)
    PROVE  Inv'
<1> DEFINE ok == [run[p] EXCEPT !.ok = @ \cup {q}]
           r == [run[p] EXCEPT !.left = @ \ {q}, !.failed = @ \cup {q}]
<1>1. Still /\ anchor' = anchor /\ run[p].step \in Before /\ run[p] \in Run
    BY RunFacts DEF ImportOnePath, Still, Before
<1>2. /\ ok \in Run /\ ok.step = run[p].step /\ ok.base = run[p].base /\ ok.pin = run[p].pin
      /\ r \in Run /\ r.step = run[p].step /\ r.base = run[p].base /\ r.pin = run[p].pin
    BY <1>1 DEF Run
<1>3. StoreTyped'
  <2>1. page' \in [Paths -> Versions]
      BY RunFacts, LiveTyped DEF ImportOnePath, StoreTyped
  <2>2. faults' \in 0..MaxFaults
      BY RunFacts, SyncAssumption DEF ImportOnePath, StoreTyped, MayFault
  <2>3. missed' \subseteq Paths
      BY RunFacts DEF ImportOnePath, StoreTyped
  <2> QED BY <2>1, <2>2, <2>3, RunFacts DEF ImportOnePath, StoreTyped
<1>4. Mark(p, q, ok) \/ Mark(p, q, run[p]) \/ (Set(p, r) /\ UNCHANGED ckpt)
    BY DEF ImportOnePath
<1> HIDE DEF ok, r
<1> QED BY <1>1, <1>2, <1>3, <1>4, PathDone

\* A run that ends before its bookmark.
LEMMA PartialKeeps ==
    ASSUME Inv, NEW p \in Procs, Partial(p)
    PROVE  Inv'
<1>1. Still /\ anchor' = anchor /\ run[p] \in Run /\ Working(p) /\ Set(p, Over)
    BY RunFacts DEF Partial, Lock, Still
<1>2. StoreTyped'
    BY RunFacts, FaultCounted DEF Partial, Lock, auxVars, StoreTyped
<1>3. CkptInv'
    BY <1>1, FlushKeeps DEF Partial, FlushOrNot, Run
<1> QED BY <1>1, <1>2, <1>3, IdleSound, RunMoves DEF Inv

\* Importing a file in a full sync.
LEMMA ImportFullKeeps ==
    ASSUME Inv, NEW p \in Procs, NEW q \in Paths, ImportFull(p, q)
    PROVE  Inv'
<1> DEFINE finished == [run[p] EXCEPT !.left = @ \ {q}, !.done = @ \cup {q}]
           r == [run[p] EXCEPT !.left = @ \ {q}, !.failed = @ \cup {q}]
           t == [run[p] EXCEPT !.left = @ \ {q}, !.failed = @ \cup {q}, !.threw = TRUE]
<1>1. Still /\ anchor' = anchor /\ run[p].step \in Before /\ run[p] \in Run /\ UNCHANGED ckpt
    BY RunFacts DEF ImportFull, Still, Before
<1>2. /\ finished \in Run /\ finished.step = run[p].step /\ finished.base = run[p].base
      /\ finished.pin = run[p].pin /\ finished.done \subseteq Paths
      /\ r \in Run /\ r.step = run[p].step /\ r.base = run[p].base /\ r.pin = run[p].pin
      /\ t \in Run /\ t.step = run[p].step /\ t.base = run[p].base /\ t.pin = run[p].pin
    BY <1>1 DEF Run
<1>3. StoreTyped'
  <2>1. page' \in [Paths -> Versions]
      BY RunFacts, LiveTyped DEF ImportFull, StoreTyped
  <2>2. faults' \in 0..MaxFaults
      BY RunFacts, SyncAssumption DEF ImportFull, StoreTyped, MayFault
  <2>3. fullDone' \subseteq Paths
      BY <1>2, RunFacts DEF ImportFull
  <2>4. missed' \subseteq Paths
      BY RunFacts DEF ImportFull, StoreTyped
  <2> QED BY <2>1, <2>2, <2>3, <2>4, RunFacts DEF ImportFull, StoreTyped
<1>4. Set(p, finished) \/ Set(p, r) \/ Set(p, t)
    BY DEF ImportFull
<1> HIDE DEF finished, r, t
<1> QED BY <1>1, <1>2, <1>3, <1>4, PathDone

\* The gate records and decides, and keeps base and pin of a run that goes on.
LEMMA GateApplied ==
    ASSUME Inv, NEW p \in Procs, run[p].step \in Before,
           NEW resolved \in SUBSET Paths, NEW reachable, ApplyGate(p, resolved, reachable)
    PROVE  /\ ledger' \in [Paths -> Failure]
           /\ \E r : Set(p, r) /\ Sound(r)
<1> DEFINE failed == run[p].failed
           l == AfterRun(resolved, failed)
<1>1. l \in [Paths -> Failure]
    BY RunFacts, SyncAssumption DEF StoreTyped, AfterRun, Failure, NoFailure
<1>2. ledger' = l
    BY DEF ApplyGate
<1>3. CASE Set(p, Over)
    BY <1>1, <1>2, <1>3, IdleSound DEF Inv
<1>4. CASE ~Set(p, Over)
  <2> DEFINE skip == IF SkipFailed THEN {q \in Paths : l[q].state = "open"} ELSE failed
             r == [Idle EXCEPT !.step = "advance", !.base = run[p].base, !.pin = run[p].pin,
                               !.full = run[p].full, !.skip = skip]
  <2>1. Set(p, r)
      BY <1>4 DEF ApplyGate
  <2>2. skip \subseteq Paths /\ run[p] \in Run /\ Idle \in Run
      BY RunFacts, IdleSound DEF Run, Inv
  <2>3. r \in Run /\ r.base = run[p].base /\ r.pin = run[p].pin
    <3> HIDE DEF skip
    <3> QED BY <2>2 DEF Run, Steps
  <2>4. Sound(r)
    <3> HIDE DEF r
    <3> QED BY <2>3, SameSpan
  <2> QED BY <1>1, <1>2, <2>1, <2>4
<1> QED BY <1>3, <1>4

\* The gate of an incremental sync.
LEMMA GateKeeps ==
    ASSUME Inv, NEW p \in Procs, Gate(p)
    PROVE  Inv'
<1>1. Still /\ anchor' = anchor /\ run[p].step \in Before /\ run[p] \in Run /\ Working(p)
    BY RunFacts DEF Gate, Lock, Still, Before
<1>2. run[p].ok \cup Gone(From(p), To(p)) \in SUBSET Paths
    BY <1>1 DEF Run, Gone
<1>3. ledger' \in [Paths -> Failure] /\ \E r : Set(p, r) /\ Sound(r)
    BY <1>1, <1>2, GateApplied DEF Gate
<1>4. StoreTyped'
    BY <1>3, RunFacts DEF Gate, Lock, auxVars, StoreTyped
<1>5. CkptInv'
    BY <1>1, FlushKeeps DEF Gate, FlushOrNot, Run
<1> QED BY <1>1, <1>3, <1>4, <1>5, RunMoves

\* The gate of a full sync.
LEMMA GateFullKeeps ==
    ASSUME Inv, NEW p \in Procs, GateFull(p)
    PROVE  Inv'
<1>1. Still /\ anchor' = anchor /\ run[p].step \in Before /\ run[p] \in Run /\ Working(p)
    BY RunFacts DEF GateFull, Lock, Still, Before
<1>2. ledger' \in [Paths -> Failure] /\ \E r : Set(p, r) /\ Sound(r)
    BY <1>1, GateApplied DEF GateFull
<1>3. StoreTyped'
    BY <1>2, RunFacts DEF GateFull, Lock, auxVars, StoreTyped
<1>4. CkptInv'
    BY <1>1, RunFacts DEF GateFull, CkptInv, Still, gitVars
<1> QED BY <1>1, <1>2, <1>3, <1>4, RunMoves

\* After the bookmark: the checkpoint is cleared, the ledger settled.
LEMMA FinishKeeps ==
    ASSUME Inv, NEW p \in Procs, Finish(p)
    PROVE  Inv'
<1> DEFINE r == [run[p] EXCEPT !.step = "reconcile"]
<1>1. Still /\ anchor' = anchor /\ run[p] \in Run /\ Sound(run[p]) /\ Working(p)
    BY RunFacts DEF Finish, Lock, Still
<1>2. CkptInv' /\ faults' \in 0..MaxFaults
    BY <1>1, ClearKeeps, RunFacts DEF Finish, Run, CkptInv, Still, gitVars, StoreTyped
<1>3. ledger' \in [Paths -> Failure]
    BY RunFacts DEF Finish, StoreTyped, Failure
<1>4. StoreTyped'
    BY <1>2, <1>3, RunFacts DEF Finish, Lock, auxVars, StoreTyped
<1>5. Sound(r)
    BY <1>1 DEF Run, Steps, Sound, Forward, InTime, Before
<1>6. Set(p, r) \/ Set(p, Over)
    BY DEF Finish
<1> HIDE DEF r
<1> QED BY <1>1, <1>2, <1>4, <1>5, <1>6, IdleSound, RunMoves DEF Inv

\* The deletes after a full sync.
LEMMA ReconcileKeeps ==
    ASSUME Inv, NEW p \in Procs, Reconcile(p)
    PROVE  Inv'
<1>1. Still /\ anchor' = anchor /\ Working(p) /\ Set(p, Over)
    BY RunFacts DEF Reconcile, Still
<1>2. page' \in [Paths -> Versions]
    BY RunFacts, SyncAssumption DEF Reconcile, StoreTyped, Versions
<1>3. StoreTyped'
    BY <1>2, RunFacts, FaultCounted DEF Reconcile, StoreTyped
<1>4. CkptInv'
    BY <1>1, RunFacts DEF Reconcile, CkptInv, Still, gitVars
<1> QED BY <1>1, <1>3, <1>4, IdleSound, RunMoves DEF Inv

\* The bookmark moves: in calm no other run is before its own, by the lock.
LEMMA AdvanceKeeps ==
    ASSUME Inv, NEW p \in Procs, Advance(p)
    PROVE  Inv'
<1> DEFINE r == [run[p] EXCEPT !.step = "finish"]
<1>1. Still /\ anchor' = run[p].pin /\ run[p] \in Run /\ Sound(run[p]) /\ Working(p)
    BY RunFacts DEF Advance, Lock, Still
<1>2. r \in Run /\ r.base = run[p].base /\ r.pin = run[p].pin /\ r.step = "finish"
    BY <1>1 DEF Run, Steps
<1>3. StoreTyped' /\ anchor' <= Len(tree') /\ CkptInv' /\ GitInv'
    BY <1>1, RunFacts DEF Advance, Lock, auxVars, StoreTyped, Sound, Run, CkptInv, Still, gitVars,
                          Inv, SyncInv, GitInv
<1>4. LockInv'
    BY <1>1 DEF Still, lockVars, Inv, LockInv, LockTypeOK, RowHasOwner, VictimsAreDead,
                WorkersHaveTheRow, Has, Calm
<1>5. run' \in [Procs -> Run] /\ \A q \in Procs : run'[q] = IF q = p THEN r ELSE run[q]
    BY <1>2 DEF Advance, Set, Inv, SyncInv, RunInv
<1>6. ASSUME NEW q \in Procs
      PROVE  Sound(run[q])' /\ (run'[q].step # "idle" => Working(q)')
  <2>1. CASE q = p
      BY <1>1, <1>2, <1>5, <2>1
         DEF Sound, Forward, InTime, Before, Still, gitVars, lockVars, Working
  <2>2. CASE q # p
    <3>1. run'[q] = run[q] /\ Sound(run[q]) /\ (run[q].step # "idle" => Working(q))
        BY <1>5, <2>2, RunFacts
    <3>2. ~(run[q].step \in Before /\ Calm)
        BY <1>1, <2>2, <3>1, LockInvExcludes DEF Inv, OneSyncAtATime, Before, Calm
    <3>3. InTime(run[q])'
        BY <1>1, <3>1, <3>2 DEF InTime, Still, lockVars, Calm
    <3> QED BY <1>1, <3>1, <3>3 DEF Sound, Forward, Still, gitVars, lockVars, Working
  <2> QED BY <2>1, <2>2
<1> QED BY <1>3, <1>4, <1>5, <1>6 DEF Inv, SyncInv, RunInv

\* Steps about the lock leave runs as they are or forget them.
LEMMA LockMoves ==
    ASSUME Inv, UNCHANGED gitVars, StoreTyped', CkptInv', anchor' = anchor, Calm' => Calm,
           run' \in [Procs -> Run],
           \A q \in Procs : /\ run'[q] \in {run[q], Idle}
                            /\ run'[q].step # "idle" => Working(q)'
    PROVE  SyncInv'
<1>1. GitInv' /\ anchor' <= Len(tree')
    BY DEF gitVars, Inv, SyncInv, GitInv
<1>2. ASSUME NEW o, Sound(o) PROVE Sound(o)'
    BY <1>2 DEF gitVars, Sound, Forward, InTime
<1>3. \A q \in Procs : Sound(run[q])'
    BY <1>2, IdleSound, RunFacts DEF Inv
<1> QED BY <1>1, <1>3 DEF SyncInv, RunInv

\* A run that is over gives the lock back.
LEMMA ReleaseRunKeeps ==
    ASSUME Inv, NEW p \in Procs, ReleaseRun(p)
    PROVE  SyncInv'
<1>1. UNCHANGED gitVars /\ anchor' = anchor /\ (Calm' => Calm)
    BY DEF ReleaseRun, Release, storeVars, Calm
<1>2. StoreTyped' /\ CkptInv'
    BY RunFacts, FaultCounted DEF ReleaseRun, auxVars, storeVars, gitVars, StoreTyped, CkptInv
<1>3. run' \in [Procs -> Run] /\ \A q \in Procs : run'[q] = IF q = p THEN Idle ELSE run[q]
    BY IdleSound DEF ReleaseRun, Set, Inv, SyncInv, RunInv
<1>4. \A q \in Procs : q # p => Working(q)' = Working(q)
    BY DEF ReleaseRun, Release, Working, Inv, LockInv, LockTypeOK
<1>5. \A q \in Procs : run'[q] \in {run[q], Idle} /\ (run'[q].step # "idle" => Working(q)')
    BY <1>3, <1>4, RunFacts, IdleSound DEF Inv
<1> QED BY <1>1, <1>2, <1>3, <1>5, LockMoves

\* A process dies, its run with it.
LEMMA ExitRunKeeps ==
    ASSUME Inv, NEW p \in Procs, ExitRun(p)
    PROVE  SyncInv'
<1>1. UNCHANGED gitVars /\ anchor' = anchor /\ (Calm' => Calm)
    BY DEF ExitRun, Exit, storeVars, Calm
<1>2. StoreTyped' /\ CkptInv'
    BY RunFacts DEF ExitRun, Unfiled, storeVars, gitVars, StoreTyped, CkptInv
<1>3. run' \in [Procs -> Run] /\ \A q \in Procs : run'[q] = IF q = p THEN Idle ELSE run[q]
    BY IdleSound DEF ExitRun, Set, Inv, SyncInv, RunInv
<1>4. \A q \in Procs : q # p => Working(q)' = Working(q)
    BY DEF ExitRun, Exit, Working, Inv, LockInv, LockTypeOK
<1>5. \A q \in Procs : run'[q] \in {run[q], Idle} /\ (run'[q].step # "idle" => Working(q)')
    BY <1>3, <1>4, RunFacts, IdleSound DEF Inv
<1> QED BY <1>1, <1>2, <1>3, <1>5, LockMoves

\* A signal flushes what is pending into the checkpoint.
LEMMA TerminateRunKeeps ==
    ASSUME Inv, NEW p \in Procs, TerminateRun(p)
    PROVE  SyncInv'
<1>1. UNCHANGED gitVars /\ anchor' = anchor /\ UNCHANGED run /\ run[p] \in Run
    BY RunFacts DEF TerminateRun
<1>2. Calm' => Calm
    BY RunFacts, LockAssumption DEF TerminateRun, Terminate, Calm, LockInv, LockTypeOK
<1>3. StoreTyped'
    BY RunFacts DEF TerminateRun, auxVars, StoreTyped
<1>4. CkptInv'
  <2>1. ckpt' \in [Commits -> [target: Versions, paths: SUBSET Paths]]
      BY <1>1, RunFacts DEF TerminateRun, FlushOrNot, Run
  <2>2. \A c \in Commits : ckpt'[c].target = ckpt[c].target
      BY <1>1, RunFacts DEF TerminateRun, FlushOrNot, Run
  <2> QED BY <1>1, <2>1, <2>2, RunFacts DEF CkptInv, gitVars
<1>5. \A q \in Procs : Working(q) => Working(q)'
    BY DEF TerminateRun, Terminate, Working, Inv, LockInv, LockTypeOK
<1> QED BY <1>1, <1>2, <1>3, <1>4, <1>5, LockMoves, RunFacts DEF Inv, SyncInv, RunInv

\* Taking, breaking and ageing of the lock start no run.
LEMMA LockStepKeeps ==
    ASSUME Inv, LockStep, Keep
    PROVE  SyncInv'
<1>1. UNCHANGED gitVars /\ anchor' = anchor /\ UNCHANGED run
    BY DEF Keep, syncVars, storeVars
<1>2. StoreTyped' /\ CkptInv'
    BY RunFacts DEF Keep, syncVars, auxVars, storeVars, gitVars, StoreTyped, CkptInv, Inv, SyncInv
<1>3. Calm' => Calm
    BY LockAssumption DEF LockStep, Acquire, FindDead, DeleteLockRow, Refresh, Reap, GrowOld,
                          Lapse, Calm, Inv, LockInv, LockTypeOK
<1>4. \A q \in Procs : Working(q) => Working(q)'
    BY DEF LockStep, Acquire, FindDead, DeleteLockRow, Refresh, Reap, GrowOld, Lapse, Working,
           Inv, LockInv, LockTypeOK
<1> QED BY <1>1, <1>2, <1>3, <1>4, LockMoves, RunFacts DEF Inv, SyncInv, RunInv

----------------------------------------------------------------------------
(* The repository.                                                         *)

\* A commit extends the history of HEAD, and the line if it is one.
LEMMA CommitKeeps ==
    ASSUME Inv, NEW t \in [Paths -> Versions], Commit(t), bad' \subseteq Commits,
           reverts' \in 0..MaxReverts
    PROVE  Inv' /\ \A c \in 1..Len(tree) : past'[c] = past[c]
<1> DEFINE n == NextCommit
<1>1. /\ n = Len(tree) + 1 /\ n \in Commits /\ Len(tree) \in Nat /\ Len(past) = Len(tree)
      /\ head \in 1..Len(tree) /\ past[head] \subseteq 1..head
    BY SyncAssumption DEF Commit, NextCommit, Inv, SyncInv, GitInv, Commits
<1>2. /\ tree' \in Seq([Paths -> Versions]) /\ Len(tree') = n
    BY <1>1, AppendProperties DEF Commit, Inv, SyncInv, GitInv
<1>3. past[head] \cup {n} \subseteq 1..n /\ 1..n \subseteq Commits
    BY <1>1, SyncAssumption DEF Commits
<1>4. /\ past' \in Seq(SUBSET Commits) /\ Len(past') = n
      /\ \A c \in 1..Len(tree) : past'[c] = past[c]
      /\ past'[n] = past[head] \cup {n}
  <2>1. past \in Seq(SUBSET Commits) /\ past[head] \cup {n} \in SUBSET Commits
      BY <1>1, <1>3 DEF Inv, SyncInv, GitInv
  <2>2. past' = Append(past, past[head] \cup {n})
      BY DEF Commit
  <2> DEFINE e == past[head] \cup {n}
  <2>3. /\ Append(past, e) \in Seq(SUBSET Commits) /\ Len(Append(past, e)) = Len(past) + 1
        /\ \A i \in 1..Len(past) : Append(past, e)[i] = past[i]
        /\ Append(past, e)[Len(past) + 1] = e
      BY <2>1, AppendProperties
  <2> QED BY <1>1, <2>2, <2>3
<1>5. ASSUME NEW c \in 1..n PROVE past'[c] \subseteq 1..c
  <2>1. CASE c = n
      BY <1>3, <1>4, <2>1
  <2>2. CASE c # n
    <3>1. c \in 1..Len(tree)
        BY <1>1, <2>2
    <3>2. past[c] \subseteq 1..c
        BY <3>1 DEF Inv, SyncInv, GitInv
    <3> QED BY <1>4, <3>1, <3>2
  <2> QED BY <2>1, <2>2
<1>6. rewrites = 0 => \A c \in 1..n : past'[c] = 1..c
  <2>1. rewrites = 0 => past[head] = 1..Len(tree)
      BY <1>1 DEF Inv, SyncInv, GitInv
  <2>2. (1..Len(tree)) \cup {n} = 1..n
      BY <1>1
  <2>3. ASSUME rewrites = 0, NEW c \in 1..n PROVE past'[c] = 1..c
    <3>1. CASE c = n
        BY <1>4, <2>1, <2>2, <2>3, <3>1
    <3>2. CASE c # n
      <4>1. c \in 1..Len(tree)
          BY <1>1, <3>2
      <4>2. past[c] = 1..c
          BY <2>3, <4>1 DEF Inv, SyncInv, GitInv
      <4> QED BY <1>4, <4>1, <4>2
    <3> QED BY <3>1, <3>2
  <2> QED BY <2>3
<1>7. GitInv'
  <2>1. head' = n /\ rewrites' = rewrites /\ rewrites \in 0..MaxRewrites /\ n \in 1..n
      BY <1>1 DEF Commit, GitInv, Inv, SyncInv
  <2> HIDE DEF n
  <2> QED BY <1>1, <1>2, <1>4, <1>5, <1>6, <2>1 DEF GitInv
<1>8. LockInv'
    BY DEF Commit, lockVars, Inv, LockInv, LockTypeOK, RowHasOwner, VictimsAreDead,
           WorkersHaveTheRow, Has, Calm
<1>9. StoreTyped' /\ anchor' = anchor /\ anchor' <= Len(tree') /\ UNCHANGED <<run, rewrites>>
    BY <1>1, <1>2, RunFacts DEF Commit, auxVars, storeVars, StoreTyped, Versions, Inv, SyncInv
<1>10. CkptInv'
    BY <1>1, <1>2, RunFacts DEF Commit, storeVars, CkptInv, Versions, Inv, SyncInv
<1>11. ASSUME NEW q \in Procs PROVE Sound(run[q])' /\ Working(q)' = Working(q)
  <2> DEFINE r == run[q]
  <2>1. Sound(r) /\ r \in Run /\ r.base \in Nat /\ r.pin \in Nat /\ run'[q] = r
      BY <1>9, RunFacts DEF Run, Versions
  <2>2. Len(tree') = Len(tree) + 1 /\ UNCHANGED <<lockVars, anchor, rewrites>>
      BY <1>1, <1>2, <1>9 DEF Commit
  <2>3. Forward(r)' /\ InTime(r)'
      BY <1>9, <2>1, <2>2 DEF Sound, Forward, InTime, Calm, lockVars
  <2>4. r.base <= Len(tree') /\ r.pin <= Len(tree')
      BY <1>1, <2>1, <2>2 DEF Sound
  <2>5. Working(q)' = Working(q)
      BY <2>2 DEF Working, lockVars
  <2> QED BY <1>9, <2>1, <2>3, <2>4, <2>5 DEF Sound
<1>12. RunInv'
    BY <1>9, <1>11 DEF RunInv, Inv, SyncInv
<1> QED BY <1>4, <1>7, <1>8, <1>9, <1>10, <1>12 DEF Inv, SyncInv

\* After a rewrite of the history the invariant asks for its shape no more.
LEMMA RewriteKeeps ==
    ASSUME Inv, NEW c \in Commits, Rewrite(c)
    PROVE  Inv' /\ past' = past
<1>1. /\ head \in 1..Len(tree) /\ c \in past[head] /\ past[head] \subseteq 1..head
      /\ Len(tree) \in Nat
    BY SyncAssumption DEF Rewrite, Inv, SyncInv, GitInv, Commits
<1>2. c \in 1..Len(tree) /\ rewrites' \in 0..MaxRewrites /\ rewrites' # 0
    BY <1>1, SyncAssumption DEF Rewrite, Inv, SyncInv, GitInv
<1>3. GitInv'
    BY <1>2 DEF Rewrite, GitInv, Inv, SyncInv
<1>4. LockInv'
    BY DEF Rewrite, lockVars, Inv, LockInv, LockTypeOK, RowHasOwner, VictimsAreDead,
           WorkersHaveTheRow, Has, Calm
<1>5. StoreTyped' /\ anchor' <= Len(tree') /\ CkptInv' /\ UNCHANGED run
    BY <1>2 DEF Rewrite, auxVars, storeVars, StoreTyped, CkptInv, Inv, SyncInv
<1>6. \A q \in Procs : Sound(run[q])' /\ Working(q)' = Working(q)
    BY <1>2, RunFacts DEF Rewrite, lockVars, Sound, Forward, InTime, Working
<1>7. RunInv'
    BY <1>5, <1>6 DEF RunInv, Inv, SyncInv
<1> QED BY <1>3, <1>4, <1>5, <1>7 DEF Inv, SyncInv, Rewrite

\* What is done to the repository, commit by commit.
LEMMA GitKeeps ==
    ASSUME Inv, Git
    PROVE  Inv' /\ \A c \in 1..Len(tree) : past'[c] = past[c]
<1>1. Live \in [Paths -> Versions]
  <2>1. head \in 1..Len(tree) /\ tree \in Seq([Paths -> Versions])
      BY DEF Inv, SyncInv, GitInv
  <2>2. tree[head] \in [Paths -> Versions]
      BY <2>1
  <2> QED BY <2>1, <2>2 DEF Live, Tree
<1>2. 0 \in Versions /\ Commits \subseteq Versions /\ reverts \in 0..MaxReverts
      /\ bad \subseteq Commits
    BY SyncAssumption DEF Versions, Commits, Inv, SyncInv, GitInv
<1>3. ASSUME NEW q \in Paths, CommitEdit(q)
      PROVE  Inv' /\ \A c \in 1..Len(tree) : past'[c] = past[c]
  <2>1. NextCommit \in Commits /\ [Live EXCEPT ![q] = NextCommit] \in [Paths -> Versions]
      BY <1>1, <1>2, <1>3 DEF CommitEdit, Commit
  <2> QED BY <1>2, <1>3, <2>1, CommitKeeps DEF CommitEdit
<1>4. ASSUME NEW q \in Paths, CommitRemoval(q)
      PROVE  Inv' /\ \A c \in 1..Len(tree) : past'[c] = past[c]
    BY <1>1, <1>2, <1>4, CommitKeeps DEF CommitRemoval
<1>5. ASSUME NEW q \in Paths, NEW t \in Paths, CommitRename(q, t)
      PROVE  Inv' /\ \A c \in 1..Len(tree) : past'[c] = past[c]
    BY <1>1, <1>2, <1>5, CommitKeeps DEF CommitRename
<1>6. ASSUME NEW q \in Paths, NEW v \in Commits, CommitRevert(q, v)
      PROVE  Inv' /\ \A c \in 1..Len(tree) : past'[c] = past[c]
  <2>1. reverts' \in 0..MaxReverts
      BY <1>2, <1>6, SyncAssumption DEF CommitRevert
  <2> QED BY <1>1, <1>2, <1>6, <2>1, CommitKeeps DEF CommitRevert
<1>7. ASSUME NEW v \in Commits, Rewrite(v)
      PROVE  Inv' /\ \A c \in 1..Len(tree) : past'[c] = past[c]
    BY <1>7, RewriteKeeps
<1> QED BY <1>3, <1>4, <1>5, <1>6, <1>7 DEF Git

----------------------------------------------------------------------------
(* The theorems.                                                           *)

\* A run's step keeps the invariant.
LEMMA WorkKeeps ==
    ASSUME Inv, NEW p \in Procs, Work(p), LockInv'
    PROVE  Inv'
<1>1. ASSUME ReleaseRun(p) PROVE Inv'
    BY <1>1, ReleaseRunKeeps DEF Inv
<1> QED BY <1>1, BeginFullKeeps, ListFullKeeps, BeginKeeps, SavePinKeeps, GateKeeps, AdvanceKeeps, FinishKeeps,
           GateFullKeeps, ReconcileKeeps, DeletePageKeeps, ImportRenamedKeeps,
           ImportOnePathKeeps, ImportFullKeeps, MoveSlugKeeps DEF Work

\* Every step keeps the invariant.
LEMMA NextInv == Inv /\ [Next]_vars => Inv'
<1> SUFFICES ASSUME Inv, [Next]_vars PROVE Inv'
    OBVIOUS
<1>1. LockInv'
    BY StepTakesTheLock, LockNextInv DEF Inv
<1>2. CASE UNCHANGED vars
  <2>1. UNCHANGED <<lockVars, gitVars, storeVars, run, faults, missed, leftover>>
      BY <1>2 DEF vars, syncVars, auxVars
  <2>2. SyncInv'
      BY <2>1 DEF Inv, SyncInv, GitInv, StoreTyped, CkptInv, RunInv, Sound, Forward, InTime,
                  Working, Calm, lockVars, gitVars, storeVars
  <2> QED BY <1>1, <2>2 DEF Inv
<1>3. CASE Git
    BY <1>3, GitKeeps
<1>4. CASE LockStep /\ Keep
    BY <1>1, <1>4, LockStepKeeps DEF Inv
<1>5. ASSUME NEW p \in Procs, Work(p) \/ Partial(p) \/ ExitRun(p) \/ TerminateRun(p)
      PROVE  Inv'
    BY <1>1, <1>5, WorkKeeps, PartialKeeps, ExitRunKeeps, TerminateRunKeeps DEF Inv
<1>6. ASSUME NEW p \in Procs, BeginBlind(p) \/ BeginFallback(p) PROVE Inv'
    BY <1>6, BeginBlindKeeps, BeginFallbackKeeps
<1> QED BY <1>2, <1>3, <1>4, <1>5, <1>6 DEF Next

\* The sync's state is well-typed in every reachable state, and only processes under the lock
\* have a run in memory.
THEOREM SyncTypeCorrect == Spec => []TypeOK
    BY InitInv, NextInv, InvTyped, PTL DEF Spec

\* Only Advance writes the bookmark.
LEMMA BookmarkMoves ==
    ASSUME Inv, Next
    PROVE  \/ anchor' = anchor
           \/ \E p \in Procs : Advance(p)
<1>1. CASE Git
    BY <1>1 DEF Git, CommitEdit, CommitRemoval, CommitRename, CommitRevert, Rewrite, Commit,
                storeVars
<1>2. CASE LockStep /\ Keep
    BY <1>2 DEF Keep, syncVars, storeVars
<1>3. ASSUME NEW p \in Procs, Work(p), ~Advance(p) PROVE anchor' = anchor
    BY <1>3 DEF Work, BeginFull, ListFull, Begin, Start, SavePin, Gate, Finish, GateFull,
       Reconcile, ReleaseRun, DeletePage, ImportRenamed, ImportOnePath, ImportFull, MoveSlug,
       storeVars
<1>4. ASSUME NEW p \in Procs, \/ Partial(p) \/ ExitRun(p) \/ TerminateRun(p)
                              \/ BeginBlind(p) \/ BeginFallback(p)
      PROVE  anchor' = anchor
    BY <1>4 DEF Partial, ExitRun, TerminateRun, BeginBlind, BeginFallback, Start, storeVars
<1> QED BY <1>1, <1>2, <1>3, <1>4 DEF Next

\* Of the history of existing commits no step changes anything.
LEMMA HistoryStays ==
    ASSUME Inv, Next
    PROVE  \A c \in 1..Len(tree) : past'[c] = past[c]
<1>1. CASE Git
    BY <1>1, GitKeeps
<1>2. CASE ~Git
  <2>1. ASSUME NEW p \in Procs, Work(p) PROVE UNCHANGED gitVars
      BY <2>1 DEF Work, BeginFull, ListFull, Begin, Start, SavePin, Gate, Advance, Finish,
         GateFull, Reconcile, ReleaseRun, DeletePage, ImportRenamed, ImportOnePath, ImportFull,
         MoveSlug
  <2>2. ASSUME NEW p \in Procs, \/ Partial(p) \/ ExitRun(p) \/ TerminateRun(p)
                                \/ BeginBlind(p) \/ BeginFallback(p)
        PROVE  UNCHANGED gitVars
      BY <2>2 DEF Partial, ExitRun, TerminateRun, BeginBlind, BeginFallback, Start
  <2>3. Keep => UNCHANGED gitVars
      BY DEF Keep, syncVars
  <2> QED BY <1>2, <2>1, <2>2, <2>3 DEF Next, gitVars
<1> QED BY <1>1, <1>2

\* performSync, sync.ts:1136: no sync takes the bookmark back behind a commit that another
\* has reached, as far as nobody stalls, is signalled, or rewrites or reverts the history.
THEOREM BookmarkForward == Spec => BookmarkNeverRegresses
<1>1. ASSUME Inv, [Next]_vars
      PROVE  [Orderly /\ anchor # 0 => anchor \in past'[anchor']]_vars
  <2> SUFFICES ASSUME Next, stalls = 0, signals = 0, rewrites = 0, anchor # 0
               PROVE  anchor \in past'[anchor']
      BY <1>1 DEF Orderly, InTurn
  <2>1. /\ anchor \in 1..Len(tree) /\ Len(tree) \in Nat
        /\ \A c \in 1..Len(tree) : past'[c] = 1..c
      BY <1>1, HistoryStays, SyncAssumption
         DEF Inv, SyncInv, GitInv, StoreTyped, Versions, Commits
  <2>2. CASE anchor' = anchor
      BY <2>1, <2>2
  <2>3. ASSUME NEW p \in Procs, Advance(p) PROVE anchor \in past'[anchor']
    <3>1. run[p] \in Run /\ Sound(run[p]) /\ run[p].step \in Before /\ anchor' = run[p].pin
        BY <1>1, <2>3, RunFacts DEF Advance, Before
    <3>2. anchor = run[p].base /\ run[p].base <= run[p].pin /\ run[p].pin <= Len(tree)
        BY <3>1 DEF Sound, Forward, InTime, Calm
    <3>3. anchor' \in 1..Len(tree) /\ anchor <= anchor'
        BY <2>1, <3>1, <3>2, SyncAssumption DEF Run, Versions
    <3> QED BY <2>1, <3>3
  <2> QED BY <1>1, <2>2, <2>3, BookmarkMoves
<1> QED BY <1>1, InitInv, NextInv, PTL DEF Spec, BookmarkNeverRegresses

----------------------------------------------------------------------------
(* The second invariant: what the bookmark, the checkpoint and a run stand *)
(* for while nobody stalls, nothing is rewritten and no content comes      *)
(* back, for runs that save no import checkpoint.                          *)

\* A version of a file is not older than its commit and does not come back to a path it has
\* left.
Known == 1..Len(tree)
NotOlder == \A c \in Known : \A q \in Paths : tree[c][q] <= c
Unreturned == \A c, d, e \in Known : \A q \in Paths :
                  c <= d /\ d <= e /\ tree[c][q] = tree[e][q] /\ tree[c][q] # 0 =>
                      tree[d][q] = tree[c][q]
History == NotOlder /\ Unreturned

\* A path is settled for commit t if it is indexed as t has it or the work tree has moved on;
\* of a renamed one the old page is gone as well.
Changed(b, t, q) == Tree(b)[q] # Tree(t)[q]
Settled(t, q) == IF Tree(t)[q] = 0 THEN page[q] = 0 \/ q \in leftover
                 ELSE page[q] = Tree(t)[q] \/ Live[q] # Tree(t)[q] \/ q \in missed
Targets(b, t) == {m[2] : m \in Renames(Tree(b), Tree(t))}
SourceGone(b, t, q) ==
    \A m \in Renames(Tree(b), Tree(t)) : m[2] = q => page[m[1]] = 0 \/ m[1] \in leftover
Done(b, t, q) == Settled(t, q) /\ SourceGone(b, t, q)

\* What a bookmark at t stands for, and the pages that only commit u has a file of.
HonestAt(t) == \A q \in Paths : Tree(t)[q] # 0 =>
                   page[q] = Tree(t)[q] \/ Live[q] # Tree(t)[q] \/ Recorded(q) \/ q \in missed
NoGhostsAt(t, u) == \A q \in Paths : Tree(t)[q] = 0 /\ page[q] # 0 =>
                        q \in leftover \/ Tree(u)[q] # 0 \/ Recorded(q)

\* The bookmark's checkpoint lists what is done; no later commit has one.
CkptHonest ==
    \A c \in Commits :
        /\ anchor < c => ckpt[c] = NoCheckpoint
        /\ c = anchor => /\ ckpt[c].target = 0 => ckpt[c].paths = {}
                         /\ ckpt[c].target # 0 =>
                              /\ c < ckpt[c].target
                              /\ \A q \in ckpt[c].paths : Done(c, ckpt[c].target, q)

\* An incremental run: what it has not left to do is done or has failed; what it finds in the
\* checkpoint is done for its own pin, whatever target it replaces.
Pinning(r) == /\ NoGhostsAt(r.base, r.pin)
              /\ \A q \in ckpt[r.base].paths : Done(r.base, r.pin, q)
Importing(r) ==
    /\ r.base # 0
    /\ IF r.step = "save" THEN Pinning(r) ELSE ckpt[r.base].target = r.pin
    /\ r.left \subseteq Manifest(Tree(r.base), Tree(r.pin))
    /\ \A q \in Manifest(Tree(r.base), Tree(r.pin)) \ r.left :
         (q \in r.failed /\ q \notin Targets(r.base, r.pin)) \/ Done(r.base, r.pin, q)
    /\ \A q \in r.pending : Done(r.base, r.pin, q)
    /\ \A q \in r.ok : Changed(r.base, r.pin, q)
    /\ r.step = "moved" => /\ r.at \subseteq Targets(r.base, r.pin)
                           /\ \A q \in r.at : SourceGone(r.base, r.pin, q)

\* A full run: a file of commit t is left to do, has failed, or is indexed.
Covers(r, t) == \A q \in Paths : Tree(t)[q] # 0 =>
                    \/ q \in r.left \cup r.failed
                    \/ page[q] = Tree(t)[q] \/ Live[q] # Tree(t)[q]

RunHonest(r) ==
    /\ r.step \notin {"idle", "over"} => r.base < r.pin
    /\ r.step \in {"save", "work", "moved"} => Importing(r) /\ ~r.full
    /\ r.step \in {"list", "full"} => r.full /\ (r.base = 0 \/ Paths \subseteq leftover)
    /\ r.step = "full" => Covers(r, r.base) /\ Covers(r, r.pin)
    /\ r.step = "advance" => HonestAt(r.pin) /\ (r.full \/ NoGhostsAt(r.pin, 0))
    /\ r.step \in {"finish", "reconcile"} =>
         anchor = r.pin /\ (r.full => ckpt[r.pin] = NoCheckpoint)
    /\ r.step = "reconcile" => r.full

BookmarkHonest == anchor # 0 => HonestAt(anchor)
AtReconcile(r) == r.full /\ r.step \in {"finish", "reconcile"}
Unghosted == anchor # 0 /\ (\A p \in Procs : ~AtReconcile(run[p])) =>
                 NoGhostsAt(anchor, ckpt[anchor].target)

Honesty == /\ History /\ fullDone = {}
           /\ BookmarkHonest /\ Unghosted /\ CkptHonest
           /\ \A p \in Procs : RunHonest(run[p])

HInv == ~FullSaves /\ Inv /\ (Orderly => Honesty)

\* The commits there are, in a history that is a line.
LEMMA LineFacts ==
    ASSUME Inv
    PROVE  /\ Len(tree) \in Nat /\ Len(tree) \in Commits /\ Known \subseteq Commits
           /\ tree \in Seq([Paths -> Versions]) /\ head \in Known /\ 0 \notin Known
           /\ \A c \in Known : c \in Nat /\ tree[c] \in [Paths -> Versions] /\ Tree(c) = tree[c]
           /\ Orderly => head = Len(tree) /\ \A c \in Known : past[c] = 1..c
           /\ Live = tree[head] /\ Live \in [Paths -> Versions]
           /\ bad \subseteq Commits /\ 0 \notin Commits /\ Commits \subseteq Versions
           /\ 0 \in Versions /\ Versions \subseteq Nat /\ MaxCommits \in Nat
           /\ Tree(0) = [q \in Paths |-> 0]
<1>1. /\ tree \in Seq([Paths -> Versions]) /\ Len(tree) \in Commits
      /\ head \in 1..Len(tree) /\ bad \subseteq Commits
      /\ Orderly => head = Len(tree) /\ \A c \in 1..Len(tree) : past[c] = 1..c
    BY DEF Inv, SyncInv, GitInv, Orderly, InTurn
<1>2. /\ Len(tree) \in Nat /\ Known \subseteq Commits /\ 0 \notin Known /\ 0 \notin Commits
      /\ Commits \subseteq Versions /\ 0 \in Versions /\ Versions \subseteq Nat /\ MaxCommits \in Nat
    BY <1>1, SyncAssumption DEF Known, Commits, Versions
<1>3. \A c \in Known : c \in Nat /\ tree[c] \in [Paths -> Versions] /\ Tree(c) = tree[c]
    BY <1>1, <1>2 DEF Known, Tree
<1>4. head \in Known /\ Live = tree[head] /\ Live \in [Paths -> Versions]
    BY <1>1, <1>3 DEF Known, Live
<1> QED BY <1>1, <1>2, <1>3, <1>4 DEF Known, Tree

\* What a commit adds to the history.
LEMMA CommitFacts ==
    ASSUME Inv, NEW t \in [Paths -> Versions], Commit(t)
    PROVE  /\ NextCommit = Len(tree) + 1 /\ Len(tree') = NextCommit
           /\ Known' = Known \cup {NextCommit} /\ NextCommit \notin Known
           /\ NextCommit \in Nat /\ \A c \in Known : c < NextCommit
           /\ tree'[NextCommit] = t /\ head' = NextCommit /\ Live' = t
           /\ \A c \in Known : tree'[c] = tree[c]
           /\ \A c \in Known \cup {0} : Tree(c)' = Tree(c)
<1>1. /\ Len(tree) \in Nat /\ tree \in Seq([Paths -> Versions]) /\ 0 \notin Known
    BY LineFacts
<1>2. tree' = Append(tree, t) /\ NextCommit = Len(tree) + 1 /\ head' = NextCommit
    BY DEF Commit, NextCommit
<1>3. /\ Len(tree') = Len(tree) + 1 /\ tree'[Len(tree) + 1] = t
      /\ \A c \in 1..Len(tree) : tree'[c] = tree[c]
    BY <1>1, <1>2, AppendProperties
<1>4. Known' = Known \cup {NextCommit} /\ NextCommit \notin Known /\ NextCommit \in Nat
      /\ \A c \in Known : c < NextCommit
    BY <1>1, <1>2, <1>3 DEF Known
<1>5. Live' = t
    BY <1>1, <1>2, <1>3 DEF Live, Tree
<1>6. \A c \in Known \cup {0} : Tree(c)' = Tree(c)
    BY <1>1, <1>3 DEF Tree, Known
<1> QED BY <1>2, <1>3, <1>4, <1>5, <1>6 DEF Known

\* What a commit that brings nothing back may have at a path: what was there, nothing, a version
\* of its own, or one of another path that was never there.
Fresh(t, q) == \/ t[q] \in {Live[q], 0, NextCommit}
               \/ (\A c \in Known : tree[c][q] # t[q]) /\ \E f \in Paths : t[q] = Live[f]

LEMMA HistoryGrows ==
    ASSUME Inv, Orderly, History, NEW t \in [Paths -> Versions], Commit(t),
           \A q \in Paths : Fresh(t, q)
    PROVE  History'
<1> DEFINE n == NextCommit
<1>1. /\ Known' = Known \cup {n} /\ n \notin Known /\ n \in Nat /\ \A c \in Known : c < n
      /\ tree'[n] = t /\ \A c \in Known : tree'[c] = tree[c]
    BY CommitFacts
<1>2. /\ head \in Known /\ Live = tree[head] /\ \A c \in Known : c \in Nat /\ c <= head
      /\ \A c \in Known, q \in Paths : tree[c][q] \in Nat /\ tree[c][q] <= c
      /\ \A q \in Paths : t[q] \in Nat
      /\ \A c \in Known \cup {n} : c \in Nat
  <2>1. head = Len(tree) /\ head \in Known /\ Live = tree[head] /\ Len(tree) \in Nat
      BY LineFacts
  <2>2. \A c \in Known, q \in Paths : tree[c][q] \in Nat /\ tree[c][q] <= c
      BY LineFacts DEF History, NotOlder
  <2> QED BY <1>1, <2>1, <2>2, LineFacts DEF Known
<1> HIDE DEF n
<1>3. ASSUME NEW c \in Known, NEW q \in Paths PROVE tree[c][q] < n
    BY <1>1, <1>2
<1>4. NotOlder'
  <2> SUFFICES ASSUME NEW c \in Known \cup {n}, NEW q \in Paths PROVE tree'[c][q] <= c
      BY <1>1 DEF NotOlder
  <2>1. CASE c \in Known
      BY <1>1, <1>2, <2>1
  <2>2. CASE c = n
    <3>1. t[q] \in {0, n} \/ \E f \in Paths : t[q] = Live[f]
        BY DEF Fresh, n
    <3> QED BY <1>1, <1>2, <1>3, <2>2, <3>1
  <2> QED BY <2>1, <2>2
<1>5. Unreturned'
  <2> SUFFICES ASSUME NEW c \in Known \cup {n}, NEW d \in Known \cup {n},
                      NEW e \in Known \cup {n}, NEW q \in Paths, c <= d, d <= e,
                      tree'[c][q] = tree'[e][q], tree'[c][q] # 0
               PROVE  tree'[d][q] = tree'[c][q]
      BY <1>1 DEF Unreturned
  <2>1. CASE e \in Known
    <3>1. c \in Known /\ d \in Known
        BY <1>1, <1>2, <2>1
    <3> QED BY <1>1, <2>1, <3>1 DEF History, Unreturned
  <2>2. CASE e = n /\ c \in Known
    <3>1. tree[c][q] = t[q] /\ t[q] # 0 /\ t[q] # n
        BY <1>1, <1>3, <2>2
    <3>2. t[q] = Live[q]
        BY <2>2, <3>1 DEF Fresh, n
    <3>3. d \in Known => tree[d][q] = tree[c][q]
        BY <1>2, <2>2, <3>1, <3>2 DEF History, Unreturned
    <3> QED BY <1>1, <2>2, <3>1, <3>3
  <2>3. CASE e = n /\ c = n
      BY <1>1, <1>2, <2>3
  <2> QED BY <2>1, <2>2, <2>3
<1> QED BY <1>4, <1>5 DEF History

\* Where the second invariant says something.
Clean == ~FullSaves /\ Inv /\ Orderly /\ Honesty

\* A revert counts.
LEMMA RevertCounts == \A q \in Paths, v \in Commits : CommitRevert(q, v) => reverts' = reverts + 1
    BY DEF CommitRevert

\* What has gone out of order stays so.
LEMMA OrderBefore ==
    ASSUME Inv, [Next]_vars, Orderly'
    PROVE  Orderly
<1>1. stalls \in Nat /\ signals \in Nat /\ rewrites \in Nat /\ reverts \in Nat
    BY LockAssumption, SyncAssumption DEF Inv, LockInv, LockTypeOK, SyncInv, GitInv
<1>2. Calm
  <2>1. [LockNext]_lockVars /\ Calm'
      BY StepTakesTheLock DEF Orderly, InTurn, Calm
  <2>2. CASE UNCHANGED lockVars
      BY <2>1, <2>2 DEF lockVars, Calm
  <2>3. CASE LockNext
      BY <1>1, <2>1, <2>3 DEF LockNext, Acquire, FindDead, DeleteLockRow, Release, Refresh,
         Terminate, Exit, GrowOld, Lapse, Reap, Calm
  <2> QED BY <2>1, <2>2, <2>3
<1>3. rewrites = 0 /\ reverts = 0
  <2>1. CASE UNCHANGED gitVars
      BY <2>1 DEF gitVars, Orderly, InTurn
  <2>2. CASE Git
    <3>1. ASSUME NEW q \in Paths, NEW v \in Commits, CommitRevert(q, v) PROVE FALSE
        BY <1>1, <3>1, RevertCounts DEF Orderly
    <3>2. ASSUME NEW v \in Commits, Rewrite(v) PROVE FALSE
        BY <1>1, <3>2 DEF Rewrite, Orderly, InTurn
    <3>3. ASSUME NEW q \in Paths, CommitEdit(q) \/ CommitRemoval(q)
                                 \/ \E t \in Paths : CommitRename(q, t)
          PROVE  UNCHANGED <<rewrites, reverts>>
        BY <3>3 DEF CommitEdit, CommitRemoval, CommitRename, Commit
    <3>4. UNCHANGED <<rewrites, reverts>>
        BY <2>2, <3>1, <3>2, <3>3 DEF Git
    <3> QED BY <3>4 DEF Orderly, InTurn
  <2>3. ASSUME NEW p \in Procs, Work(p) PROVE UNCHANGED gitVars
      BY <2>3 DEF Work, BeginFull, ListFull, Begin, Start, SavePin, Gate, Advance, Finish, GateFull,
         Reconcile, ReleaseRun, DeletePage, ImportRenamed, ImportOnePath, ImportFull, MoveSlug
  <2>4. ASSUME NEW p \in Procs, BeginBlind(p) \/ BeginFallback(p) \/ Partial(p)
                              \/ ExitRun(p) \/ TerminateRun(p)
        PROVE  UNCHANGED gitVars
      BY <2>4 DEF BeginBlind, Start, BeginFallback, Partial, ExitRun, TerminateRun
  <2>5. Keep \/ UNCHANGED vars => UNCHANGED gitVars
      BY DEF Keep, vars, syncVars
  <2> QED BY <2>1, <2>2, <2>3, <2>4, <2>5 DEF Next
<1> QED BY <1>2, <1>3 DEF Orderly, InTurn, Calm

----------------------------------------------------------------------------
(* The repository moves on.                                                *)

\* What a commit is while nothing is rewritten or brought back.
LEMMA OrderlyCommit ==
    ASSUME Clean, Git, Orderly'
    PROVE  \E t \in [Paths -> Versions] : Commit(t) /\ \A q \in Paths : Fresh(t, q)
<1>1. /\ Live \in [Paths -> Versions] /\ 0 \in Versions /\ Commits \subseteq Versions
      /\ Len(tree) \in Nat /\ head = Len(tree) /\ past[head] = 1..head
      /\ rewrites \in Nat /\ reverts \in Nat
    BY LineFacts, SyncAssumption DEF Clean, Inv, SyncInv, GitInv, Known
<1>2. ASSUME NEW q \in Paths, CommitEdit(q)
      PROVE  \E t \in [Paths -> Versions] : Commit(t) /\ \A o \in Paths : Fresh(t, o)
  <2> PICK t : t = [Live EXCEPT ![q] = NextCommit]
      OBVIOUS
  <2>1. t \in [Paths -> Versions] /\ Commit(t)
      BY <1>1, <1>2 DEF CommitEdit, Commit
  <2>2. \A o \in Paths : t[o] = IF o = q THEN NextCommit ELSE Live[o]
      BY <1>1
  <2> QED BY <2>1, <2>2 DEF Fresh
<1>3. ASSUME NEW q \in Paths, CommitRemoval(q)
      PROVE  \E t \in [Paths -> Versions] : Commit(t) /\ \A o \in Paths : Fresh(t, o)
  <2> PICK t : t = [Live EXCEPT ![q] = 0]
      OBVIOUS
  <2>1. t \in [Paths -> Versions] /\ Commit(t)
      BY <1>1, <1>3 DEF CommitRemoval, Commit
  <2>2. \A o \in Paths : t[o] = IF o = q THEN 0 ELSE Live[o]
      BY <1>1
  <2> QED BY <2>1, <2>2 DEF Fresh
<1>4. ASSUME NEW f \in Paths, NEW g \in Paths, CommitRename(f, g)
      PROVE  \E t \in [Paths -> Versions] : Commit(t) /\ \A o \in Paths : Fresh(t, o)
  <2> PICK t : t = [Live EXCEPT ![f] = 0, ![g] = Live[f]]
      OBVIOUS
  <2>1. t \in [Paths -> Versions] /\ Commit(t)
      BY <1>1, <1>4 DEF CommitRename, Commit
  <2>2. Live[f] # 0 /\ Live[g] = 0 /\ f # g /\ ~Returns(g, Live[f])
      BY <1>4 DEF CommitRename
  <2>3. \A o \in Paths : t[o] = IF o = g THEN Live[f] ELSE IF o = f THEN 0 ELSE Live[o]
      BY <1>1, <2>2
  <2>4. \A c \in Known : tree[c][g] # Live[f]
      BY <1>1, <2>2 DEF Returns, Known
  <2> QED BY <2>1, <2>3, <2>4 DEF Fresh
<1>5. ~\E q \in Paths, v \in Commits : CommitRevert(q, v)
    BY <1>1, RevertCounts DEF Orderly
<1>6. ~\E v \in Commits : Rewrite(v)
    BY <1>1 DEF Rewrite, Orderly, InTurn
<1> QED BY <1>2, <1>3, <1>4, <1>5, <1>6 DEF Git

\* A path is no longer missed or left over only when it is settled.
Settling == /\ \A q \in leftover \ leftover' : page'[q] = 0
            /\ \A q \in missed \ missed' : page'[q] = Live'[q]

\* A step after which what is settled for a commit is still so.
Onward(t) == \A q \in Paths : Settled(t, q) => Settled(t, q)'

LEMMA DoneStays ==
    ASSUME NEW b, NEW t, Tree(b) \in [Paths -> Versions], Tree(t) \in [Paths -> Versions],
           Onward(t), Settling, Tree(b)' = Tree(b), Tree(t)' = Tree(t)
    PROVE  /\ Renames(Tree(b), Tree(t))' = Renames(Tree(b), Tree(t))
           /\ \A q \in Paths : SourceGone(b, t, q) => SourceGone(b, t, q)'
           /\ \A q \in Paths : Done(b, t, q) => Done(b, t, q)'
<1>1. Renames(Tree(b), Tree(t))' = Renames(Tree(b), Tree(t))
    BY DEF Renames
<1>2. ASSUME NEW q \in Paths, SourceGone(b, t, q) PROVE SourceGone(b, t, q)'
  <2> SUFFICES ASSUME NEW m \in Renames(Tree(b), Tree(t)), m[2] = q, m[1] \notin leftover'
               PROVE  page'[m[1]] = 0
      BY <1>1 DEF SourceGone
  <2>1. m[1] \in Paths /\ Tree(t)[m[1]] = 0
      BY RenamesMatch DEF Gone
  <2>2. page[m[1]] = 0 \/ m[1] \in leftover
      BY <1>2 DEF SourceGone
  <2> QED BY <2>1, <2>2 DEF Onward, Settled, Settling
<1> QED BY <1>1, <1>2 DEF Done, Onward

\* A commit keeps the others, and no path goes back to a version it has left.
LEMMA GitMovesOn ==
    ASSUME Clean, Git, Orderly'
    PROVE  /\ History' /\ UNCHANGED <<storeVars, run, auxVars>>
           /\ \A c \in Known \cup {0} : Tree(c)' = Tree(c) /\ Onward(c)
           /\ \A c \in Known \cup {0} : \A q \in Paths :
                Tree(c)[q] # 0 /\ Live[q] # Tree(c)[q] => Live'[q] # Tree(c)[q]
<1>1. PICK t \in [Paths -> Versions] : Commit(t) /\ \A q \in Paths : Fresh(t, q)
    BY OrderlyCommit
<1>2. History'
    BY <1>1, HistoryGrows DEF Clean, Honesty
<1>3. UNCHANGED <<storeVars, run, auxVars>>
    BY <1>1 DEF Commit
<1> DEFINE n == NextCommit
<1>4. /\ Known' = Known \cup {n} /\ tree'[n] = t /\ Live' = t /\ n \in Nat
      /\ \A c \in Known : tree'[c] = tree[c] /\ c < n
      /\ \A c \in Known \cup {0} : Tree(c)' = Tree(c)
    BY <1>1, CommitFacts DEF Clean
<1>5. /\ head \in Known /\ Live = tree[head] /\ 0 \notin Known
      /\ \A c \in Known : c \in Nat /\ c <= head /\ Tree(c) = tree[c]
      /\ Tree(0) = [q \in Paths |-> 0]
    BY LineFacts DEF Clean, Known
<1>6. ASSUME NEW c \in Known \cup {0}, NEW q \in Paths, Tree(c)[q] # 0, Live[q] # Tree(c)[q]
      PROVE  Live'[q] # Tree(c)[q]
  <2>1. c \in Known
      BY <1>5, <1>6
  <2>2. head <= n /\ c <= head /\ c \in Known' /\ head \in Known' /\ n \in Known'
      BY <1>4, <1>5, <2>1
  <2>3. tree'[c] = tree[c] /\ tree'[head] = tree[head] /\ tree'[n] = t
      BY <1>4, <1>5, <2>1
  <2> HIDE DEF n
  <2> SUFFICES ASSUME t[q] = tree[c][q] PROVE FALSE
      BY <1>4, <1>5, <2>1
  <2>4. tree'[c][q] = tree'[n][q] /\ tree'[c][q] # 0
      BY <1>5, <1>6, <2>1, <2>3
  <2>5. tree'[head][q] = tree'[c][q]
      BY <1>2, <2>2, <2>4 DEF History, Unreturned
  <2> QED BY <1>5, <1>6, <2>1, <2>3, <2>5
<1>7. page' = page /\ leftover' = leftover /\ missed' = missed
    BY <1>3 DEF storeVars, auxVars
<1>8. \A c \in Known \cup {0} : Onward(c)
    BY <1>4, <1>6, <1>7 DEF Onward, Settled
<1> QED BY <1>2, <1>3, <1>4, <1>6, <1>8

\* A commit's files have versions, and while the two commits do not change neither does what
\* a run between them has to do.
LEMMA KnownTyped == Clean => \A c \in Known \cup {0} : Tree(c) \in [Paths -> Versions]
    BY LineFacts DEF Clean

LEMMA ManifestStays ==
    ASSUME NEW b, NEW t, Tree(b)' = Tree(b), Tree(t)' = Tree(t)
    PROVE  /\ Renames(Tree(b), Tree(t))' = Renames(Tree(b), Tree(t))
           /\ Manifest(Tree(b), Tree(t))' = Manifest(Tree(b), Tree(t))
           /\ Targets(b, t)' = Targets(b, t)
           /\ \A q : Changed(b, t, q)' = Changed(b, t, q)
    BY DEF Manifest, Deletes, Imports, Targets, Renames, Gone, New, Changed

\* So what a run has in memory keeps its meaning.
LEMMA GitKeepsRunHonest ==
    ASSUME Clean, Git, Orderly', NEW r \in Run, r.base <= Len(tree), r.pin <= Len(tree),
           RunHonest(r)
    PROVE  RunHonest(r)'
<1> DEFINE b == r.base  t == r.pin
<1>1. b \in Known \cup {0} /\ t \in Known \cup {0}
    BY SyncAssumption DEF Run, Versions, Known
<1>2. /\ UNCHANGED <<page, anchor, ckpt, ledger, leftover, missed>> /\ Settling
      /\ Tree(b)' = Tree(b) /\ Tree(t)' = Tree(t) /\ Tree(0)' = Tree(0) /\ Onward(t)
      /\ \A c \in {b, t} : \A q \in Paths :
            Tree(c)[q] # 0 /\ Live[q] # Tree(c)[q] => Live'[q] # Tree(c)[q]
    BY <1>1, GitMovesOn DEF storeVars, auxVars, Settling
<1>3. /\ \A q \in Paths : SourceGone(b, t, q) => SourceGone(b, t, q)'
      /\ \A q \in Paths : Done(b, t, q) => Done(b, t, q)'
    BY <1>1, <1>2, DoneStays, KnownTyped
<1>4. /\ Manifest(Tree(b), Tree(t))' = Manifest(Tree(b), Tree(t))
      /\ Targets(b, t)' = Targets(b, t)
      /\ \A q : Changed(b, t, q)' = Changed(b, t, q)
    BY <1>2, ManifestStays
<1>5. /\ Manifest(Tree(b), Tree(t)) \subseteq Paths /\ Targets(b, t) \subseteq Paths
      /\ b \in Commits \/ b = 0
  <2>1. Tree(b) \in [Paths -> Versions] /\ Tree(t) \in [Paths -> Versions]
      BY <1>1, KnownTyped
  <2>2. Known \subseteq Commits
      BY LineFacts DEF Clean
  <2> HIDE DEF b, t
  <2>3. Targets(b, t) \subseteq Paths
      BY <2>1, RenamesMatch DEF Targets, New
  <2> QED BY <1>1, <2>1, <2>2, <2>3, ManifestTyped
<1>6. Importing(r) => Importing(r)'
  <2> SUFFICES ASSUME Importing(r) PROVE Importing(r)'
      OBVIOUS
  <2>1. IF r.step = "save" THEN Pinning(r)' ELSE ckpt'[b].target = t
    <3>1. NoGhostsAt(b, t) => NoGhostsAt(b, t)'
        BY <1>2 DEF NoGhostsAt, Recorded
    <3>2. b \in Commits /\ ckpt[b].paths \subseteq Paths
        BY <1>5 DEF Importing, Clean, Inv, SyncInv, CkptInv
    <3>3. (\A q \in ckpt[b].paths : Done(b, t, q)) => \A q \in ckpt'[b].paths : Done(b, t, q)'
        BY <1>2, <1>3, <3>2
    <3> QED BY <1>2, <3>1, <3>3 DEF Importing, Pinning
  <2>2. r.left \subseteq Manifest(Tree(b), Tree(t))'
      BY <1>4 DEF Importing
  <2>3. \A q \in Manifest(Tree(b), Tree(t))' \ r.left :
          (q \in r.failed /\ q \notin Targets(b, t)') \/ Done(b, t, q)'
      BY <1>3, <1>4, <1>5 DEF Importing
  <2>4. (\A q \in r.pending : Done(b, t, q)') /\ (\A q \in r.ok : Changed(b, t, q)')
      BY <1>3, <1>4 DEF Importing, Run
  <2>5. r.step = "moved" => /\ r.at \subseteq Targets(b, t)'
                            /\ \A q \in r.at : SourceGone(b, t, q)'
      BY <1>3, <1>4, <1>5 DEF Importing
  <2> HIDE DEF b, t
  <2>6. r.base # 0
      BY DEF Importing
  <2> QED BY <2>1, <2>2, <2>3, <2>4, <2>5, <2>6 DEF Importing, b, t
<1>7. HonestAt(t) => HonestAt(t)'
    BY <1>2 DEF HonestAt, Recorded
<1>8. NoGhostsAt(t, 0) => NoGhostsAt(t, 0)'
    BY <1>2 DEF NoGhostsAt, Recorded
<1>9. (Covers(r, b) => Covers(r, b)') /\ (Covers(r, t) => Covers(r, t)')
    BY <1>2 DEF Covers
<1> QED BY <1>2, <1>6, <1>7, <1>8, <1>9 DEF RunHonest

\* A commit breaks nothing of what bookmark, checkpoint and runs stand for.
LEMMA GitHonest ==
    ASSUME Clean, Git, Orderly'
    PROVE  Honesty'
<1>1. /\ History' /\ UNCHANGED <<page, anchor, ckpt, fullDone, ledger, run, leftover, missed>>
      /\ Settling
      /\ \A c \in Known \cup {0} : Tree(c)' = Tree(c) /\ Onward(c)
      /\ \A c \in Known \cup {0} : \A q \in Paths :
           Tree(c)[q] # 0 /\ Live[q] # Tree(c)[q] => Live'[q] # Tree(c)[q]
    BY GitMovesOn DEF storeVars, auxVars, Settling
<1>2. /\ \A c \in Commits : ckpt[c].target \in Known \cup {0}
      /\ anchor \in Known \cup {0} /\ 0 \in Known \cup {0} /\ \A c \in Known \cup {0} : c \in Nat
  <2>1. \A c \in Commits : ckpt[c].target \in Versions /\ ckpt[c].target <= Len(tree)
      BY DEF Clean, Inv, SyncInv, CkptInv
  <2> QED BY <2>1, LineFacts DEF Clean, Inv, SyncInv, StoreTyped, Versions, Known
<1>3. \A c \in Known \cup {0} : HonestAt(c) => HonestAt(c)'
    BY <1>1 DEF HonestAt, Recorded
<1>4. \A c, d \in Known \cup {0} : NoGhostsAt(c, d) => NoGhostsAt(c, d)'
    BY <1>1 DEF NoGhostsAt, Recorded
<1>5. BookmarkHonest'
  <2> PICK a : a = anchor
      OBVIOUS
  <2>1. a # 0 => HonestAt(a)'
      BY <1>2, <1>3 DEF Clean, Honesty, BookmarkHonest
  <2> QED BY <1>1, <2>1 DEF BookmarkHonest, HonestAt, Recorded
<1>6. Unghosted'
  <2> PICK a, u : a = anchor /\ u = ckpt[anchor].target
      OBVIOUS
  <2>1. a # 0 => a \in Commits
      BY <1>2, LineFacts DEF Clean
  <2>2. a # 0 /\ (\A p \in Procs : ~AtReconcile(run[p])) => NoGhostsAt(a, u)'
      BY <1>2, <1>4, <2>1 DEF Clean, Honesty, Unghosted
  <2> QED BY <1>1, <2>2 DEF Unghosted, NoGhostsAt, Recorded, AtReconcile
<1>7. CkptHonest'
  <2> SUFFICES ASSUME NEW c \in Commits, c = anchor, ckpt[c].target # 0,
                      NEW q \in ckpt[c].paths
               PROVE  Done(c, ckpt[c].target, q)'
      BY <1>1 DEF CkptHonest, Clean, Honesty
  <2> PICK u : u = ckpt[c].target
      OBVIOUS
  <2>1. q \in Paths /\ Done(c, u, q)
      BY DEF CkptHonest, Clean, Honesty, Inv, SyncInv, CkptInv
  <2>2. c \in Known \cup {0} /\ u \in Known \cup {0}
      BY <1>2
  <2>3. Done(c, u, q)'
      BY <1>1, <2>1, <2>2, DoneStays, KnownTyped
  <2>4. ckpt'[c].target = u
      BY <1>1
  <2> QED BY <2>3, <2>4 DEF Done, Settled, SourceGone
<1>8. ASSUME NEW p \in Procs PROVE RunHonest(run[p])'
  <2> PICK r : r = run[p]
      OBVIOUS
  <2>1. r \in Run /\ r.base <= Len(tree) /\ r.pin <= Len(tree) /\ RunHonest(r)
      BY RunFacts DEF Clean, Honesty, Sound
  <2>2. RunHonest(r)'
      BY <2>1, GitKeepsRunHonest
  <2>3. run'[p] = r
      BY <1>1
  <2> QED BY <2>2, <2>3 DEF RunHonest, Importing, Pinning, Covers, HonestAt, NoGhostsAt, Done,
                           Settled, SourceGone, Recorded, Targets, Changed
<1> QED BY <1>1, <1>5, <1>6, <1>7, <1>8 DEF Clean, Honesty

----------------------------------------------------------------------------
(* The steps of a run: what they have in common.                           *)

\* While one run is at work every other process has none.
LEMMA OthersIdle ==
    ASSUME Clean, NEW p \in Procs, Working(p)
    PROVE  \A o \in Procs : o # p => run[o].step = "idle"
    BY LockInvExcludes, RunFacts DEF Clean, Inv, OneSyncAtATime, Orderly, InTurn

\* A run on its way to the bookmark.
LEMMA SpanFacts ==
    ASSUME Clean, NEW p \in Procs, run[p].step \in Before
    PROVE  /\ run[p] \in Run /\ Working(p) /\ RunHonest(run[p])
           /\ anchor = run[p].base /\ run[p].base < run[p].pin /\ run[p].pin \in Known
           /\ run[p].base \in Known \cup {0} /\ run[p].pin \in Commits
           /\ run[p].base \in Nat /\ run[p].pin \in Nat
<1>1. /\ run[p] \in Run /\ Working(p) /\ Sound(run[p]) /\ RunHonest(run[p])
    BY RunFacts DEF Clean, Honesty, Before
<1>2. anchor = run[p].base
    BY <1>1 DEF Sound, InTime, Clean, Orderly, InTurn, Calm
<1>3. run[p].base < run[p].pin
    BY <1>1 DEF RunHonest, Before
<1>4. run[p].base \in Nat /\ run[p].pin \in Nat /\ run[p].pin <= Len(tree) /\ Len(tree) \in Nat
    BY <1>1, LineFacts DEF Run, Sound, Versions, Clean
<1> QED BY <1>1, <1>2, <1>3, <1>4, LineFacts DEF Known, Clean

\* What the bookmark, its checkpoint and a run with r in memory leave behind.
UnghostedBy(r) == anchor # 0 /\ ~AtReconcile(r) => NoGhostsAt(anchor, ckpt[anchor].target)

LEMMA NotGhosted ==
    ASSUME Clean, NEW p \in Procs, Working(p)
    PROVE  UnghostedBy(run[p])
    BY OthersIdle DEF UnghostedBy, Clean, Honesty, Unghosted, AtReconcile

\* A run's step keeps the second invariant if it leaves bookmark, checkpoint and run so.
LEMMA RunStepHonest ==
    ASSUME Clean, Still, NEW p \in Procs, Working(p), NEW r, Set(p, r), fullDone' = {},
           BookmarkHonest', UnghostedBy(r)', CkptHonest', RunHonest(r)'
    PROVE  Honesty'
<1>1. History'
    BY DEF Still, gitVars, Clean, Honesty, History, NotOlder, Unreturned, Known
<1>2. \A o \in Procs : run'[o] = IF o = p THEN r ELSE run[o]
    BY DEF Set, Clean, Inv, SyncInv, RunInv
<1>3. ASSUME NEW o \in Procs PROVE RunHonest(run[o])'
  <2> PICK s : s = run'[o]
      OBVIOUS
  <2>1. RunHonest(s)'
    <3>1. CASE o = p
        BY <1>2, <3>1
    <3>2. CASE o # p
      <4>1. s.step = "idle"
          BY <1>2, <3>2, OthersIdle
      <4> QED BY <4>1 DEF RunHonest
    <3> QED BY <3>1, <3>2
  <2> QED BY <2>1 DEF RunHonest, Importing, Pinning, Covers, HonestAt, NoGhostsAt, Done, Settled,
                      SourceGone, Recorded, Targets, Changed
<1>4. Unghosted'
    BY <1>2 DEF Unghosted, UnghostedBy, AtReconcile
<1> QED BY <1>1, <1>3, <1>4 DEF Honesty

\* A run that has come to its end.
LEMMA OverHonest == RunHonest(Over) /\ RunHonest(Idle) /\ RunHonest(Over)' /\ RunHonest(Idle)'
                    /\ Over.step = "over" /\ ~AtReconcile(Over)
    BY DEF RunHonest, Over, Idle, AtReconcile

\* A file that differs between two commits has moved on from the earlier of them.
LEMMA Apart ==
    ASSUME Clean, NEW b \in Known, NEW t \in Known, b < t, NEW q \in Paths,
           Changed(b, t, q), Tree(b)[q] # 0
    PROVE  Live[q] # Tree(b)[q]
<1>1. /\ head = Len(tree) /\ head \in Known /\ Live = tree[head] /\ t <= head /\ b <= t
      /\ Tree(b) = tree[b] /\ Tree(t) = tree[t]
    BY LineFacts DEF Clean, Known
<1>2. SUFFICES ASSUME tree[b][q] = tree[head][q] PROVE FALSE
    BY <1>1
<1>3. tree[t][q] = tree[b][q]
    BY <1>1, <1>2 DEF Clean, Honesty, History, Unreturned
<1> QED BY <1>1, <1>3 DEF Changed

\* What the manifest names has changed, and what has changed it names, but for the old paths
\* of renames.
LEMMA ManifestFacts ==
    ASSUME NEW b, NEW t, Tree(b) \in [Paths -> Versions], Tree(t) \in [Paths -> Versions]
    PROVE  /\ Manifest(Tree(b), Tree(t)) \subseteq Paths
           /\ \A q \in Manifest(Tree(b), Tree(t)) : Changed(b, t, q)
           /\ Targets(b, t) \subseteq Manifest(Tree(b), Tree(t))
           /\ \A q \in Targets(b, t) : Tree(b)[q] = 0 /\ Tree(t)[q] # 0
           /\ \A q \in Gone(Tree(b), Tree(t)) : Changed(b, t, q)
           /\ \A q \in Paths : Changed(b, t, q) =>
                \/ q \in Manifest(Tree(b), Tree(t))
                \/ Tree(t)[q] = 0 /\ \E m \in Renames(Tree(b), Tree(t)) : m[1] = q
<1>1. \A m \in Renames(Tree(b), Tree(t)) : m[1] \in Gone(Tree(b), Tree(t)) /\ m[2] \in New(Tree(b), Tree(t))
    BY RenamesMatch
<1> QED BY <1>1 DEF Manifest, Deletes, Imports, Targets, Gone, New, Changed

\* What a run from b to t does to the pages: of what has changed it indexes the file as it is
\* now, deletes the page of no file, and moves a page to where none is.
PageMoves(b, t) ==
    \A q \in Paths : \/ page'[q] = page[q]
                     \/ /\ Changed(b, t, q)
                        /\ IF Tree(t)[q] = 0 THEN page'[q] = 0
                           ELSE page'[q] = Live[q] \/ page[q] = 0

LEMMA PagesMove ==
    ASSUME Clean, Still, NEW b \in Known, NEW t \in Known, b < t, UNCHANGED ledger,
           Settling, PageMoves(b, t)
    PROVE  /\ Tree(b)' = Tree(b) /\ Tree(t)' = Tree(t) /\ Onward(t)
           /\ HonestAt(b) => HonestAt(b)'
           /\ NoGhostsAt(b, t) => NoGhostsAt(b, t)'
<1>1. /\ \A c : Tree(c)' = Tree(c)
      /\ Live' = Live /\ \A q : Recorded(q)' = Recorded(q)
    BY DEF Still, gitVars, Tree, Live, Recorded
<1>2. Onward(t)
    BY <1>1 DEF Onward, Settled, PageMoves, Settling
<1>3. HonestAt(b) => HonestAt(b)'
    BY <1>1, Apart DEF HonestAt, PageMoves, Settling
<1>4. NoGhostsAt(b, t) => NoGhostsAt(b, t)'
    BY <1>1 DEF NoGhostsAt, PageMoves, Settling, Changed
<1> QED BY <1>1, <1>2, <1>3, <1>4

\* A checkpoint to which what is done is added.
LEMMA MarksHonest ==
    ASSUME Clean, Still, UNCHANGED anchor, NEW b \in Known, NEW t \in Known, anchor = b, b < t,
           ckpt[b].target = t, Onward(t), Settling, NEW batch \in SUBSET Paths,
           ckpt' = ckpt \/ ckpt' = [ckpt EXCEPT ![b].paths = @ \cup batch],
           \A q \in batch : Done(b, t, q)'
    PROVE  CkptHonest' /\ ckpt'[b].target = t
<1>1. ckpt \in [Commits -> [target: Versions, paths: SUBSET Paths]] /\ b \in Commits
    BY LineFacts DEF Clean, Inv, SyncInv, CkptInv
<1>2. /\ ckpt'[b].target = t /\ ckpt'[b].paths \subseteq ckpt[b].paths \cup batch
      /\ \A c \in Commits : c # b => ckpt'[c] = ckpt[c]
    BY <1>1
<1>3. Tree(b)' = Tree(b) /\ Tree(t)' = Tree(t) /\ t # 0
    BY LineFacts DEF Still, gitVars, Tree, Clean
<1>4. \A q \in ckpt[b].paths : q \in Paths /\ Done(b, t, q)
    BY <1>1, <1>3 DEF Clean, Honesty, CkptHonest
<1>5. \A q \in ckpt'[b].paths : Done(b, t, q)'
    BY <1>2, <1>3, <1>4, DoneStays, KnownTyped
<1>6. ASSUME NEW c \in Commits, b < c PROVE ckpt'[c] = NoCheckpoint
  <2>1. c # b /\ ckpt[c] = NoCheckpoint
      BY <1>6, LineFacts DEF Clean, Honesty, CkptHonest
  <2> QED BY <1>2, <2>1
<1>7. ASSUME NEW c \in Commits, c = b, ckpt'[c].target # 0, NEW q \in ckpt'[c].paths
      PROVE  Done(c, ckpt[c].target, q)'
  <2>1. Done(b, t, q)'
      BY <1>5, <1>7
  <2> QED BY <1>2, <1>7, <2>1 DEF Done, Settled, SourceGone
<1> QED BY <1>2, <1>3, <1>6, <1>7 DEF CkptHonest

\* What a step of the imports makes of the memory s of its run.
Furthers(s, r) ==
    /\ r.base = s.base /\ r.pin = s.pin /\ r.step \in {"work", "moved"} /\ r.full = s.full
    /\ r.left \subseteq s.left /\ s.failed \subseteq r.failed
    /\ \A q \in s.left \ r.left : \/ q \in r.failed /\ q \notin Targets(s.base, s.pin)
                                  \/ Done(s.base, s.pin, q)'
    /\ \A q \in r.pending \ s.pending : Done(s.base, s.pin, q)'
    /\ \A q \in r.ok \ s.ok : Changed(s.base, s.pin, q)
    /\ r.step = "moved" => /\ r.at \subseteq Targets(s.base, s.pin)
                           /\ \A q \in r.at : SourceGone(s.base, s.pin, q)'

LEMMA ImportStepHonest ==
    ASSUME Clean, Still, NEW p \in Procs, run[p].step \in {"work", "moved"},
           NEW s, s = run[p], NEW b, NEW t, b = s.base, t = s.pin,
           UNCHANGED <<anchor, ledger, fullDone>>, Settling,
           PageMoves(b, t), NEW batch \in SUBSET Paths,
           ckpt' = ckpt \/ ckpt' = [ckpt EXCEPT ![b].paths = @ \cup batch],
           \A q \in batch : Done(b, t, q)',
           NEW r, Set(p, r), r = Over \/ Furthers(s, r)
    PROVE  Honesty'
<1>1. /\ s \in Run /\ Working(p) /\ Importing(s) /\ anchor = b /\ b < t
      /\ b \in Known /\ t \in Known /\ b # 0 /\ ckpt[b].target = t /\ b \in Nat /\ t \in Nat
      /\ ~s.full
  <2>1. run[p].step \in Before
      BY DEF Before
  <2>2. s \in Run /\ Working(p) /\ Importing(s) /\ ~s.full /\ anchor = b /\ b < t
      BY <2>1, SpanFacts DEF RunHonest
  <2>3. b # 0 /\ ckpt[b].target = t
      BY <2>2 DEF Importing
  <2> QED BY <2>1, <2>2, <2>3, SpanFacts
<1>2. /\ Tree(b)' = Tree(b) /\ Tree(t)' = Tree(t) /\ Onward(t)
      /\ HonestAt(b) => HonestAt(b)'
      /\ NoGhostsAt(b, t) => NoGhostsAt(b, t)'
    BY <1>1, PagesMove
<1>4. CkptHonest' /\ ckpt'[b].target = t
    BY <1>1, <1>2, MarksHonest
<1>5. BookmarkHonest'
  <2>1. HonestAt(b)'
      BY <1>1, <1>2 DEF Clean, Honesty, BookmarkHonest
  <2> QED BY <1>1, <2>1 DEF BookmarkHonest, HonestAt, Recorded
<1>6. UnghostedBy(r)'
  <2>1. UnghostedBy(s) /\ ~AtReconcile(s)
      BY <1>1, NotGhosted DEF AtReconcile
  <2>2. NoGhostsAt(b, t)'
      BY <1>1, <1>2, <2>1 DEF UnghostedBy
  <2> QED BY <1>1, <1>4, <2>2 DEF UnghostedBy, NoGhostsAt, Recorded
<1>7. CASE Furthers(s, r)
  <2>1. Manifest(Tree(b), Tree(t))' = Manifest(Tree(b), Tree(t)) /\ Targets(b, t)' = Targets(b, t)
        /\ \A q : Changed(b, t, q)' = Changed(b, t, q)
      BY <1>2, ManifestStays
  <2>2. \A q \in Paths : Done(b, t, q) => Done(b, t, q)'
      BY <1>1, <1>2, DoneStays, KnownTyped
  <2>3. r.base = b /\ r.pin = t /\ r.left \subseteq s.left /\ s.failed \subseteq r.failed
        /\ r.step \in {"work", "moved"} /\ ~r.full
      BY <1>1, <1>7 DEF Furthers
  <2>4. r.left \subseteq Manifest(Tree(b), Tree(t))'
      BY <1>1, <2>1, <2>3 DEF Importing
  <2>5. ASSUME NEW q \in Manifest(Tree(b), Tree(t)), q \notin r.left
        PROVE  (q \in r.failed /\ q \notin Targets(b, t)') \/ Done(b, t, q)'
    <3>1. q \in Paths
        BY <1>1, ManifestFacts, KnownTyped
    <3>2. CASE q \in s.left
        BY <1>7, <2>1, <2>5, <3>2 DEF Furthers
    <3>3. CASE q \notin s.left
        BY <1>1, <2>1, <2>2, <2>3, <3>1, <3>3 DEF Importing
    <3> QED BY <3>2, <3>3
  <2>6. \A q \in r.pending : Done(b, t, q)'
      BY <1>1, <1>7, <2>2 DEF Importing, Furthers, Run
  <2>7. \A q \in r.ok : Changed(b, t, q)'
      BY <1>1, <1>7, <2>1 DEF Importing, Furthers
  <2>8. r.step = "moved" => /\ r.at \subseteq Targets(b, t)'
                            /\ \A q \in r.at : SourceGone(b, t, q)'
      BY <1>7, <2>1 DEF Furthers
  <2>9. Importing(r)'
      BY <1>1, <1>4, <2>1, <2>3, <2>4, <2>5, <2>6, <2>7, <2>8 DEF Importing
  <2>10. RunHonest(r)'
      BY <1>1, <2>3, <2>9 DEF RunHonest
  <2> QED BY <1>1, <1>4, <1>5, <1>6, <2>10, RunStepHonest DEF Clean, Honesty
<1>8. CASE r = Over
  <2>1. RunHonest(r)'
      BY <1>8, OverHonest DEF RunHonest
  <2> QED BY <1>1, <1>4, <1>5, <1>6, <2>1, RunStepHonest DEF Clean, Honesty
<1> QED BY <1>7, <1>8

\* What is done when a run marks it completed stays done.
LEMMA PendingDone ==
    ASSUME Clean, Still, NEW p \in Procs, run[p].step \in {"work", "moved"},
           NEW s, s = run[p], NEW b, NEW t, b = s.base, t = s.pin,
           UNCHANGED ledger, Settling, PageMoves(b, t)
    PROVE  /\ s \in Run /\ Importing(s) /\ b \in Known /\ t \in Known /\ b < t
           /\ anchor = b /\ ckpt[b].target = t /\ Working(p)
           /\ \A q \in Paths : Done(b, t, q) => Done(b, t, q)'
           /\ \A q \in s.pending : q \in Paths /\ Done(b, t, q)'
<1>1. run[p].step \in Before
    BY DEF Before
<1>2. s \in Run /\ Importing(s) /\ t \in Known /\ b < t /\ anchor = b /\ Working(p)
      /\ b \in Known \cup {0}
    BY <1>1, SpanFacts DEF RunHonest
<1>3. b \in Known /\ ckpt[b].target = t
    BY <1>2 DEF Importing
<1>4. Tree(b)' = Tree(b) /\ Tree(t)' = Tree(t) /\ Onward(t)
    BY <1>2, <1>3, PagesMove
<1>5. \A q \in Paths : Done(b, t, q) => Done(b, t, q)'
    BY <1>2, <1>3, <1>4, DoneStays, KnownTyped
<1>6. \A q \in s.pending : q \in Paths /\ Done(b, t, q)
    BY <1>2 DEF Run, Importing
<1> QED BY <1>2, <1>3, <1>5, <1>6

\* A path done and marked.
LEMMA PathMarkedHonest ==
    ASSUME Clean, Still, NEW p \in Procs, run[p].step \in {"work", "moved"},
           NEW s, s = run[p], NEW b, NEW t, b = s.base, t = s.pin,
           UNCHANGED <<anchor, ledger, fullDone>>, Settling, PageMoves(b, t),
           NEW q \in Paths, Done(b, t, q)', NEW r \in Run, r.base = b, r.pin = t,
           r.full = s.full,
           r.step = "work", r.left = s.left, r.pending = s.pending, r.failed = s.failed,
           \A o \in r.ok \ s.ok : Changed(b, t, o), Mark(p, q, r)
    PROVE  Honesty'
<1> PICK batch : batch = r.pending \cup {q}
    OBVIOUS
<1>1. batch \in SUBSET Paths /\ \A o \in batch : Done(b, t, o)'
    BY PendingDone
<1>2. CASE /\ Set(p, [r EXCEPT !.left = @ \ {q}, !.pending = batch])
           /\ UNCHANGED ckpt
  <2> PICK o : o = [r EXCEPT !.left = @ \ {q}, !.pending = batch]
      OBVIOUS
  <2>1. /\ o.base = b /\ o.pin = t /\ o.step = "work" /\ o.left = s.left \ {q}
        /\ o.failed = s.failed /\ o.ok = r.ok /\ o.pending = batch /\ o.full = s.full
      BY DEF Run
  <2>2. Furthers(s, o)
      BY <1>1, <2>1 DEF Furthers
  <2>3. {} \in SUBSET Paths /\ \A x \in {} : Done(b, t, x)'
      OBVIOUS
  <2> QED BY <1>2, <2>2, <2>3, ImportStepHonest
<1>3. CASE /\ Set(p, [r EXCEPT !.left = @ \ {q}, !.pending = {}])
           /\ ckpt' = [ckpt EXCEPT ![b].paths = @ \cup batch]
  <2> PICK o : o = [r EXCEPT !.left = @ \ {q}, !.pending = {}]
      OBVIOUS
  <2>1. /\ o.base = b /\ o.pin = t /\ o.step = "work" /\ o.left = s.left \ {q}
        /\ o.failed = s.failed /\ o.ok = r.ok /\ o.pending = {} /\ o.full = s.full
      BY DEF Run
  <2>2. Furthers(s, o)
      BY <1>1, <2>1 DEF Furthers
  <2> QED BY <1>1, <1>3, <2>2, ImportStepHonest
<1> QED BY <1>2, <1>3 DEF Mark

\* A path that fails is no new path of a rename.
LEMMA PathFailedHonest ==
    ASSUME Clean, Still, NEW p \in Procs, run[p].step = "work",
           UNCHANGED <<anchor, ledger, fullDone, auxVars, page, ckpt>>,
           NEW q \in Paths, q \notin Targets(run[p].base, run[p].pin),
           Set(p, [run[p] EXCEPT !.left = @ \ {q}, !.failed = @ \cup {q}])
    PROVE  Honesty'
<1> PICK s : s = run[p]
    OBVIOUS
<1> PICK b, t : b = s.base /\ t = s.pin
    OBVIOUS
<1> PICK o : o = [s EXCEPT !.left = @ \ {q}, !.failed = @ \cup {q}]
    OBVIOUS
<1>1. s \in Run
    BY RunFacts DEF Clean
<1>2. /\ o.base = b /\ o.pin = t /\ o.step = "work" /\ o.left = s.left \ {q}
      /\ o.failed = s.failed \cup {q} /\ o.ok = s.ok /\ o.pending = s.pending
      /\ o.full = s.full
    BY <1>1 DEF Run
<1>3. Furthers(s, o)
    BY <1>2 DEF Furthers
<1>4. PageMoves(b, t) /\ Settling
    BY DEF PageMoves, Settling, auxVars
<1>5. {} \in SUBSET Paths /\ \A x \in {} : Done(b, t, x)'
    OBVIOUS
<1>6. Set(p, o)
    OBVIOUS
<1> QED BY <1>3, <1>4, <1>5, <1>6, ImportStepHonest

----------------------------------------------------------------------------
(* The steps of a run, one lemma each.                                     *)

\* Deleting a page of no file.
LEMMA DeletePageHonest ==
    ASSUME Clean, NEW p \in Procs, NEW q \in Paths, DeletePage(p, q)
    PROVE  Honesty'
<1> PICK s : s = run[p]
    OBVIOUS
<1> PICK b, t : b = s.base /\ t = s.pin
    OBVIOUS
<1>1. /\ Still /\ UNCHANGED <<anchor, ledger, fullDone>> /\ run[p].step = "work"
      /\ q \in Deletes(Tree(b), Tree(t)) /\ s \in Run /\ missed' = missed
      /\ leftover' = IF page'[q] = 0 THEN leftover \ {q} ELSE leftover
    BY RunFacts DEF DeletePage, Still, DeletesLeft, From, To, Clean
<1>2. /\ q \in Paths /\ Tree(t)[q] = 0 /\ q \notin Targets(b, t) /\ Changed(b, t, q)
      /\ Settling /\ page \in [Paths -> Versions]
  <2>1. run[p].step \in Before
      BY <1>1 DEF Before
  <2>2. Tree(b) \in [Paths -> Versions] /\ Tree(t) \in [Paths -> Versions]
      BY <2>1, SpanFacts, KnownTyped
  <2>3. Tree(t)[q] = 0 /\ Changed(b, t, q)
      BY <1>1 DEF Deletes, Gone, Changed
  <2>4. q \notin Targets(b, t)
      BY <2>2, <2>3, ManifestFacts
  <2>5. page \in [Paths -> Versions]
      BY DEF Clean, Inv, SyncInv, StoreTyped
  <2> QED BY <1>1, <2>3, <2>4, <2>5 DEF Settling
<1>3. CASE page' = [page EXCEPT ![q] = 0] /\ Mark(p, q, run[p])
  <2>1. page \in [Paths -> Versions]
      BY DEF Clean, Inv, SyncInv, StoreTyped
  <2>2. PageMoves(b, t)
      BY <1>2, <1>3, <2>1 DEF PageMoves
  <2>3. Done(b, t, q)'
    <3>1. Tree(b)' = Tree(b) /\ Tree(t)' = Tree(t)
        BY <1>1 DEF Still, gitVars, Tree
    <3>2. q \notin Targets(b, t)'
        BY <1>2, <3>1, ManifestStays
    <3>3. page'[q] = 0
        BY <1>3, <2>1
    <3> QED BY <1>2, <3>1, <3>2, <3>3 DEF Done, Settled, SourceGone, Targets
  <2>4. Mark(p, q, s)
      BY <1>3
  <2> QED BY <1>1, <1>2, <2>2, <2>3, <2>4, PathMarkedHonest
<1>4. CASE /\ Set(p, [run[p] EXCEPT !.left = @ \ {q}, !.failed = @ \cup {q}])
           /\ UNCHANGED <<page, ckpt>>
  <2> PICK o : o = [s EXCEPT !.left = @ \ {q}, !.failed = @ \cup {q}]
      OBVIOUS
  <2>1. /\ o.base = b /\ o.pin = t /\ o.step = "work" /\ o.left = s.left \ {q}
        /\ o.failed = s.failed \cup {q} /\ o.ok = s.ok /\ o.pending = s.pending
        /\ o.full = s.full
      BY <1>1 DEF Run
  <2>2. Furthers(s, o) /\ PageMoves(b, t)
      BY <1>2, <1>4, <2>1 DEF Furthers, PageMoves
  <2>3. {} \in SUBSET Paths /\ \A x \in {} : Done(b, t, x)'
      OBVIOUS
  <2> QED BY <1>1, <1>2, <1>4, <2>2, <2>3, ImportStepHonest
<1> QED BY <1>3, <1>4 DEF DeletePage

\* The old page of a rename is gone with the move, or counted as left over.
LEMMA MoveSlugHonest ==
    ASSUME Clean, NEW p \in Procs, NEW m \in Paths \X Paths, MoveSlug(p, m)
    PROVE  Honesty'
<1> PICK s : s = run[p]
    OBVIOUS
<1> PICK b, t : b = s.base /\ t = s.pin
    OBVIOUS
<1> PICK o : o = [s EXCEPT !.step = "moved", !.at = {m[2]}]
    OBVIOUS
<1>1. /\ Still /\ UNCHANGED <<anchor, ledger, fullDone, ckpt>> /\ run[p].step = "work"
      /\ m \in Renames(Tree(b), Tree(t)) /\ s \in Run /\ Set(p, o)
      /\ missed' = missed
      /\ leftover' = IF page'[m[1]] = 0 THEN leftover \ {m[1]} ELSE leftover \cup {m[1]}
    BY RunFacts DEF MoveSlug, Still, RenamesLeft, From, To, Clean
<1>2. /\ m[1] \in Paths /\ m[2] \in Paths /\ m[1] # m[2]
      /\ Tree(t)[m[1]] = 0 /\ Tree(b)[m[2]] = 0 /\ Tree(t)[m[2]] # 0 /\ Tree(b)[m[1]] # 0
      /\ m[2] \in Targets(b, t) /\ \A n \in Renames(Tree(b), Tree(t)) : n[2] = m[2] => n[1] = m[1]
  <2>1. run[p].step \in Before
      BY <1>1 DEF Before
  <2>2. Tree(b) \in [Paths -> Versions] /\ Tree(t) \in [Paths -> Versions]
      BY <2>1, SpanFacts, KnownTyped
  <2>3. m \in Gone(Tree(b), Tree(t)) \X New(Tree(b), Tree(t))
      BY <1>1, <2>2, RenamesMatch
  <2>4. \A n \in Renames(Tree(b), Tree(t)) : n[2] = m[2] => n[1] = m[1]
      BY <1>1, <2>2, RenamesMatch
  <2> QED BY <1>1, <2>3, <2>4 DEF Gone, New, Targets
<1>3. PageMoves(b, t)
  <2>1. page \in [Paths -> Versions]
      BY DEF Clean, Inv, SyncInv, StoreTyped
  <2>2. \/ page' = page
        \/ page[m[2]] = 0 /\ page' = [page EXCEPT ![m[1]] = 0, ![m[2]] = page[m[1]]]
      BY DEF MoveSlug
  <2> QED BY <1>2, <2>1, <2>2 DEF PageMoves, Changed
<1>5. SourceGone(b, t, m[2])'
  <2>1. Tree(b)' = Tree(b) /\ Tree(t)' = Tree(t)
      BY <1>1 DEF Still, gitVars, Tree
  <2>2. Renames(Tree(b), Tree(t))' = Renames(Tree(b), Tree(t))
      BY <2>1, ManifestStays
  <2> QED BY <1>1, <1>2, <2>2 DEF SourceGone
<1>6. /\ o.base = b /\ o.pin = t /\ o.step = "moved" /\ o.left = s.left /\ o.at = {m[2]}
      /\ o.failed = s.failed /\ o.ok = s.ok /\ o.pending = s.pending /\ o.full = s.full
    BY <1>1 DEF Run
<1>7. Furthers(s, o)
  <2> PICK x : x = m[2]
      OBVIOUS
  <2>1. SourceGone(b, t, x)'
      BY <1>5
  <2>2. \A y \in {x} : SourceGone(b, t, y)'
      BY <2>1
  <2> QED BY <1>2, <1>6, <2>2 DEF Furthers
<1>8. {} \in SUBSET Paths /\ \A x \in {} : Done(b, t, x)'
    OBVIOUS
<1>9. Settling /\ run[p].step \in {"work", "moved"}
    BY <1>1 DEF Settling
<1> QED BY <1>1, <1>3, <1>7, <1>8, <1>9, ImportStepHonest

\* The new path of a rename is indexed or missed, unless the work tree has moved on.
LEMMA ImportRenamedHonest ==
    ASSUME Clean, NEW p \in Procs, NEW q \in Paths, ImportRenamed(p, q)
    PROVE  Honesty'
<1> PICK s : s = run[p]
    OBVIOUS
<1> PICK b, t : b = s.base /\ t = s.pin
    OBVIOUS
<1> PICK r : r = [s EXCEPT !.step = "work", !.at = {}]
    OBVIOUS
<1>1. /\ Still /\ UNCHANGED <<anchor, ledger, fullDone, leftover>> /\ s.step = "moved"
      /\ s \in Run /\ q \in s.at
    BY RunFacts DEF ImportRenamed, Still, Clean
<1>2. Importing(s) /\ b \in Known /\ t \in Known
  <2>1. run[p].step \in Before
      BY <1>1 DEF Before
  <2> QED BY <1>1, <2>1, SpanFacts DEF RunHonest, Importing
<1>3. q \in Targets(b, t) /\ SourceGone(b, t, q)
    BY <1>1, <1>2 DEF Importing
<1>5. /\ Tree(b)[q] = 0 /\ Tree(t)[q] # 0 /\ Changed(b, t, q)
      /\ \A n \in Renames(Tree(b), Tree(t)) : n[1] \in Paths /\ n[1] # q
  <2>1. Tree(b) \in [Paths -> Versions] /\ Tree(t) \in [Paths -> Versions]
      BY <1>2, KnownTyped
  <2>2. Tree(b)[q] = 0 /\ Tree(t)[q] # 0
      BY <1>3, <2>1, ManifestFacts
  <2> QED BY <2>1, <2>2, RenamesMatch DEF Gone, Changed
<1>7. CASE /\ IF Live[q] # 0 /\ Live[q] \notin bad
              THEN page' = [page EXCEPT ![q] = Live[q]] /\ missed' = missed \ {q}
              ELSE page' = page /\ missed' = IF Live[q] = 0 THEN missed ELSE missed \cup {q}
           /\ Mark(p, q, r)
  <2>1. page \in [Paths -> Versions]
      BY DEF Clean, Inv, SyncInv, StoreTyped
  <2>2. PageMoves(b, t)
      BY <1>5, <1>7, <2>1 DEF PageMoves
  <2>3. Tree(b)' = Tree(b) /\ Tree(t)' = Tree(t) /\ Live' = Live
      BY <1>1 DEF Still, gitVars, Tree, Live
  <2>4. Settled(t, q)'
      BY <1>5, <1>7, <2>1, <2>3 DEF Settled
  <2>5. SourceGone(b, t, q)'
    <3>1. Renames(Tree(b), Tree(t))' = Renames(Tree(b), Tree(t))
        BY <2>3, ManifestStays
    <3>3. \A n \in Renames(Tree(b), Tree(t)) : page'[n[1]] = page[n[1]]
        BY <1>5, <1>7, <2>1
    <3> QED BY <1>1, <1>3, <3>1, <3>3 DEF SourceGone
  <2>6. Done(b, t, q)'
      BY <2>4, <2>5 DEF Done
  <2>7. /\ r \in Run /\ r.base = b /\ r.pin = t /\ r.step = "work" /\ r.left = s.left
        /\ r.pending = s.pending /\ r.failed = s.failed /\ r.ok = s.ok /\ r.full = s.full
      BY <1>1 DEF Run, Steps
  <2>8. \A o \in r.ok \ s.ok : Changed(b, t, o)
      BY <2>7
  <2>9. Settling
      BY <1>1, <1>7, <2>1, <2>3 DEF Settling
  <2> QED BY <1>1, <1>7, <2>2, <2>6, <2>7, <2>8, <2>9, PathMarkedHonest
<1>8. CASE Set(p, Over) /\ UNCHANGED <<page, ckpt, missed>>
  <2>1. PageMoves(b, t) /\ Settling
      BY <1>1, <1>8 DEF PageMoves, Settling
  <2>2. {} \in SUBSET Paths /\ \A x \in {} : Done(b, t, x)'
      OBVIOUS
  <2> QED BY <1>1, <1>8, <2>1, <2>2, ImportStepHonest
<1> QED BY <1>7, <1>8 DEF ImportRenamed

\* An imported path is indexed as the file is now; one that cannot be is noted as failed.
LEMMA ImportOnePathHonest ==
    ASSUME Clean, NEW p \in Procs, NEW q \in Paths, ImportOnePath(p, q)
    PROVE  Honesty'
<1> PICK s : s = run[p]
    OBVIOUS
<1> PICK b, t : b = s.base /\ t = s.pin
    OBVIOUS
<1> PICK r : r = [s EXCEPT !.ok = @ \cup {q}]
    OBVIOUS
<1>1. /\ Still /\ UNCHANGED <<anchor, ledger, fullDone, leftover>> /\ s.step = "work"
      /\ s \in Run /\ q \in s.left
    BY RunFacts DEF ImportOnePath, Still, Clean
<1>2. q \in Manifest(Tree(b), Tree(t))
  <2>1. run[p].step \in Before
      BY <1>1 DEF Before
  <2> QED BY <1>1, <2>1, SpanFacts DEF RunHonest, Importing
<1>3. q \notin Targets(b, t) /\ Tree(t)[q] # 0 /\ Changed(b, t, q)
  <2>1. q \notin Deletes(Tree(b), Tree(t))
      BY <1>1 DEF ImportOnePath, DeletesLeft, From, To
  <2>2. q \notin Targets(b, t)
      BY <1>1 DEF ImportOnePath, RenamesLeft, From, To, Targets
  <2> QED BY <1>2, <2>1, <2>2 DEF Manifest, Targets, Imports, Gone, Changed
<1>4. Tree(b)' = Tree(b) /\ Tree(t)' = Tree(t) /\ Live' = Live
    BY <1>1 DEF Still, gitVars, Tree, Live
<1>5. SourceGone(b, t, q)'
    BY <1>3, <1>4, ManifestStays DEF SourceGone, Targets
<1>6. /\ r \in Run /\ r.base = b /\ r.pin = t /\ r.step = "work" /\ r.left = s.left
      /\ r.pending = s.pending /\ r.failed = s.failed /\ r.ok = s.ok \cup {q}
      /\ r.full = s.full
    BY <1>1 DEF Run
<1>7. \A o \in (r.ok \ s.ok) \cup (s.ok \ s.ok) : Changed(b, t, o)
    BY <1>3, <1>6
<1>8. CASE Live[q] = 0 /\ Mark(p, q, r) /\ page' = page /\ missed' = missed
  <2>1. PageMoves(b, t) /\ Settling
      BY <1>1, <1>8 DEF PageMoves, Settling
  <2>2. Done(b, t, q)'
      BY <1>3, <1>4, <1>5, <1>8 DEF Done, Settled
  <2> QED BY <1>1, <1>6, <1>7, <1>8, <2>1, <2>2, PathMarkedHonest
<1>9. CASE /\ page' = [page EXCEPT ![q] = Live[q]] /\ missed' = missed \ {q}
           /\ Mark(p, q, r) \/ Mark(p, q, s)
  <2>1. page \in [Paths -> Versions]
      BY DEF Clean, Inv, SyncInv, StoreTyped
  <2>2. PageMoves(b, t) /\ Settling
      BY <1>1, <1>3, <1>4, <1>9, <2>1 DEF PageMoves, Settling
  <2>3. Done(b, t, q)'
      BY <1>3, <1>4, <1>5, <1>9, <2>1 DEF Done, Settled
  <2>4. CASE Mark(p, q, r)
      BY <1>1, <1>6, <1>7, <2>2, <2>3, <2>4, PathMarkedHonest
  <2>5. CASE Mark(p, q, s)
      BY <1>1, <1>7, <2>2, <2>3, <2>5, PathMarkedHonest
  <2> QED BY <1>9, <2>4, <2>5
<1>10. CASE /\ Set(p, [s EXCEPT !.left = @ \ {q}, !.failed = @ \cup {q}])
            /\ UNCHANGED <<page, missed, ckpt>>
    BY <1>1, <1>3, <1>10, PathFailedHonest DEF auxVars
<1> QED BY <1>8, <1>9, <1>10 DEF ImportOnePath

\* A run that stops early flushes what is done.
LEMMA PartialHonest ==
    ASSUME Clean, NEW p \in Procs, Partial(p)
    PROVE  Honesty'
<1> PICK s : s = run[p]
    OBVIOUS
<1> PICK b, t : b = s.base /\ t = s.pin
    OBVIOUS
<1>1. /\ Still /\ UNCHANGED <<page, anchor, ledger, fullDone, auxVars>> /\ s.step = "work"
      /\ Set(p, Over)
    BY DEF Partial, Lock, Still
<1>2. PageMoves(b, t) /\ Settling
    BY <1>1 DEF PageMoves, Settling, auxVars
<1>3. s \in Run /\ \A q \in s.pending : Done(b, t, q)'
    BY <1>1, <1>2, PendingDone
<1>4. s.pending \in SUBSET Paths
    BY <1>3 DEF Run
<1>5. ckpt' = ckpt \/ ckpt' = [ckpt EXCEPT ![b].paths = @ \cup s.pending]
    BY DEF Partial, FlushOrNot
<1>6. run[p].step \in {"work", "moved"}
    BY <1>1
<1> PICK batch : batch = s.pending
    OBVIOUS
<1>7. batch \in SUBSET Paths /\ \A q \in batch : Done(b, t, q)'
    BY <1>3, <1>4
<1>8. ckpt' = ckpt \/ ckpt' = [ckpt EXCEPT ![b].paths = @ \cup batch]
    BY <1>5
<1>9. CASE ckpt' = ckpt
    BY <1>1, <1>2, <1>6, <1>7, <1>9, ImportStepHonest
<1>10. CASE ckpt' = [ckpt EXCEPT ![b].paths = @ \cup batch]
    BY <1>1, <1>2, <1>6, <1>7, <1>10, ImportStepHonest
<1> QED BY <1>8, <1>9, <1>10

\* In a history that is a line a bookmark is reached, and so is a checkpoint's target.
LEMMA Reached ==
    ASSUME Clean
    PROVE  /\ anchor # 0 => anchor \in Known /\ anchor \in past[head] /\ anchor \in Commits
           /\ \A c \in Commits : ckpt[c].target # 0 => Resumable(c) /\ ckpt[c].target \in Known
           /\ head = Len(tree) /\ past[head] = Known /\ head \in Known /\ head # 0
<1>1. /\ head = Len(tree) /\ past[head] = Known /\ head \in Known /\ Known \subseteq Commits
      /\ 0 \notin Known
    BY LineFacts DEF Clean, Known
<1>2. anchor # 0 => anchor \in Known
    BY LineFacts DEF Clean, Inv, SyncInv, StoreTyped, Versions, Known
<1>3. \A c \in Commits : ckpt[c].target \in Versions /\ ckpt[c].target <= Len(tree)
    BY DEF Clean, Inv, SyncInv, CkptInv
<1>4. \A c \in Commits : ckpt[c].target # 0 => ckpt[c].target \in Known
    BY <1>3, LineFacts DEF Clean, Versions, Known
<1> QED BY <1>1, <1>2, <1>4 DEF Resumable

\* Steps that leave pages, ledger and bookmark keep what they stand for.
Excusing == leftover \subseteq leftover' /\ missed \subseteq missed'

LEMMA SameBookmark ==
    ASSUME Clean, Still, UNCHANGED <<page, anchor, ledger>>, Excusing
    PROVE  /\ BookmarkHonest'
           /\ \A t : Tree(t)' = Tree(t)
           /\ \A t : HonestAt(t) => HonestAt(t)'
           /\ \A t, u : NoGhostsAt(t, u) => NoGhostsAt(t, u)'
           /\ \A b, t, q : Done(b, t, q) => Done(b, t, q)'
           /\ \A b, t : Manifest(Tree(b), Tree(t))' = Manifest(Tree(b), Tree(t))
           /\ \A b, t : Targets(b, t)' = Targets(b, t)
           /\ \A b, t, q : Changed(b, t, q)' = Changed(b, t, q)
<1>1. (\A t : Tree(t)' = Tree(t)) /\ Live' = Live
    BY DEF Still, gitVars, Tree, Live
<1>2. \A q : Recorded(q)' = Recorded(q)
    BY DEF Recorded
<1>3. \A t : HonestAt(t) => HonestAt(t)'
    BY <1>1, <1>2 DEF HonestAt, Excusing
<1>4. \A t, u : NoGhostsAt(t, u) => NoGhostsAt(t, u)'
    BY <1>1, <1>2 DEF NoGhostsAt, Excusing
<1>5. \A b, t, q : Done(b, t, q) => Done(b, t, q)'
    BY <1>1 DEF Done, Settled, SourceGone, Renames, Excusing
<1>6. BookmarkHonest'
    BY <1>1, <1>2 DEF BookmarkHonest, HonestAt, Clean, Honesty, Excusing
<1>7. /\ \A b, t : Manifest(Tree(b), Tree(t))' = Manifest(Tree(b), Tree(t))
      /\ \A b, t : Targets(b, t)' = Targets(b, t)
      /\ \A b, t, q : Changed(b, t, q)' = Changed(b, t, q)
    BY <1>1, ManifestStays
<1> QED BY <1>1, <1>3, <1>4, <1>5, <1>6, <1>7

\* The same for the checkpoints.
LEMMA SameCheckpoint ==
    ASSUME Clean, Still, UNCHANGED <<page, anchor, ledger, ckpt>>, Excusing
    PROVE  CkptHonest'
<1>1. ASSUME NEW c \in Commits, NEW q, Done(c, ckpt[c].target, q)
      PROVE  Done(c, ckpt[c].target, q)'
  <2> PICK u : u = ckpt[c].target
      OBVIOUS
  <2>1. Done(c, u, q)'
      BY <1>1, SameBookmark
  <2> QED BY <2>1 DEF Done, Settled, SourceGone
<1> QED BY <1>1 DEF CkptHonest, Clean, Honesty

LEMMA SameGhosts ==
    ASSUME Clean, Still, UNCHANGED <<page, anchor, ledger, ckpt>>, Excusing, NEW p \in Procs,
           Working(p), ~AtReconcile(run[p]), NEW r
    PROVE  UnghostedBy(r)'
<1> PICK a, u : a = anchor /\ u = ckpt[anchor].target
    OBVIOUS
<1>1. a # 0 => NoGhostsAt(a, u)'
    BY NotGhosted, SameBookmark DEF UnghostedBy
<1> QED BY <1>1 DEF UnghostedBy, NoGhostsAt, Recorded

\* A full sync is for the first bookmark here, as no bookmark goes out of reach.
LEMMA BeginFullHonest ==
    ASSUME Clean, NEW p \in Procs, BeginFull(p)
    PROVE  Honesty'
<1> PICK r : r = [Idle EXCEPT !.step = "list", !.pin = head, !.full = TRUE]
    OBVIOUS
<1>1. /\ Still /\ UNCHANGED <<page, anchor, ckpt, fullDone, ledger>> /\ Excusing /\ Working(p)
      /\ Set(p, r) /\ run[p].step = "idle"
    BY DEF BeginFull, Lock, Still, storeVars, auxVars, Excusing, Working
<1>2. anchor = 0 /\ fullDone = {}
    BY Reached DEF BeginFull, Clean, Honesty
<1>3. /\ r.step = "list" /\ r.base = 0 /\ r.pin = head /\ r.full
    BY DEF Idle
<1>4. RunHonest(r)'
  <2>1. head \in Nat /\ head # 0 /\ head > 0
      BY LineFacts DEF Clean
  <2> QED BY <1>3, <2>1 DEF RunHonest
<1>5. BookmarkHonest' /\ CkptHonest' /\ UnghostedBy(r)'
    BY <1>1, SameBookmark, SameCheckpoint, SameGhosts DEF AtReconcile
<1> QED BY <1>1, <1>2, <1>4, <1>5, RunStepHonest

\* It lists the files there are by then: those of its base and its pin that it does not list
\* are of commits the work tree has moved on from.
LEMMA ListFullHonest ==
    ASSUME Clean, NEW p \in Procs, ListFull(p)
    PROVE  Honesty'
<1> PICK s : s = run[p]
    OBVIOUS
<1> PICK r : r = [s EXCEPT !.step = "full", !.done = fullDone,
                           !.left = {q \in Paths : Live[q] # 0} \ fullDone]
    OBVIOUS
<1>1. /\ Still /\ UNCHANGED <<page, anchor, ckpt, fullDone, ledger>> /\ Excusing /\ Set(p, r)
      /\ s.step = "list" /\ UNCHANGED leftover
    BY DEF ListFull, Lock, Still, storeVars, auxVars, Excusing
<1>2. s \in Run /\ Working(p) /\ RunHonest(s) /\ fullDone = {}
    BY <1>1, RunFacts DEF Clean, Honesty
<1>3. /\ r.step = "full" /\ r.base = s.base /\ r.pin = s.pin /\ r.full = s.full
      /\ r.left = {q \in Paths : Live[q] # 0}
    BY <1>2 DEF Run
<1>4. RunHonest(r)'
  <2>1. r.base < r.pin /\ r.full /\ (r.base = 0 \/ Paths \subseteq leftover')
      BY <1>1, <1>2, <1>3 DEF RunHonest
  <2>2. Live' = Live
      BY <1>1 DEF Still, gitVars, Tree, Live
  <2>3. Covers(r, r.base)' /\ Covers(r, r.pin)'
      BY <1>3, <2>2 DEF Covers
  <2> QED BY <1>3, <2>1, <2>3 DEF RunHonest
<1>5. BookmarkHonest' /\ CkptHonest' /\ UnghostedBy(r)'
    BY <1>1, <1>2, SameBookmark, SameCheckpoint, SameGhosts DEF AtReconcile
<1> QED BY <1>1, <1>2, <1>4, <1>5, RunStepHonest

\* An incremental sync to commit t for which what the checkpoint lists is done; if nothing
\* differs the bookmark may move at once.
LEMMA StartHonest ==
    ASSUME Clean, NEW p \in Procs, NEW b, NEW t, NEW done, Start(p, t, done), b = anchor, b # 0,
           UNCHANGED ckpt, Excusing, done \subseteq ckpt[b].paths,
           b # head => /\ t \in Known /\ b < t /\ NoGhostsAt(b, t)'
                       /\ \A q \in ckpt[b].paths : Done(b, t, q)'
    PROVE  Honesty'
<1> PICK todo : todo = Manifest(Tree(b), Tree(t))
    OBVIOUS
<1> PICK a : a = [Idle EXCEPT !.base = b, !.pin = t, !.step = "advance"]
    OBVIOUS
<1> PICK w : w = [Idle EXCEPT !.base = b, !.pin = t, !.step = "save", !.left = todo \ done]
    OBVIOUS
<1>1. /\ Still /\ UNCHANGED <<page, anchor, fullDone, ledger>> /\ Working(p)
      /\ b # 0 /\ run[p].step = "idle" /\ fullDone = {}
    BY DEF Start, Still, Working, Clean, Honesty
<1>2. b \in Known /\ b \in Commits
    BY <1>1, Reached
<1>3. /\ BookmarkHonest' /\ CkptHonest' /\ (\A r : UnghostedBy(r)')
    BY <1>1, SameBookmark, SameCheckpoint, SameGhosts DEF AtReconcile
<1>4. CASE anchor = head /\ Set(p, Over)
    BY <1>1, <1>3, <1>4, OverHonest, RunStepHonest
<1>5. CASE anchor # head /\ todo = {} /\ Set(p, a)
  <2>1. a.base = b /\ a.pin = t /\ a.step = "advance" /\ ~a.full
      BY DEF Idle
  <2>2. Tree(b) \in [Paths -> Versions] /\ Tree(t) \in [Paths -> Versions]
      BY <1>2, <1>5, KnownTyped
  <2>3. ASSUME NEW q \in Paths PROVE Tree(b)[q] = Tree(t)[q]
    <3>1. CASE Changed(b, t, q)
      <4>1. PICK m \in Renames(Tree(b), Tree(t)) : TRUE
          BY <1>5, <2>2, <3>1, ManifestFacts
      <4>2. m[2] \in Targets(b, t)
          BY <4>1 DEF Targets
      <4> QED BY <1>5, <2>2, <4>2, ManifestFacts
    <3> QED BY <3>1 DEF Changed
  <2>4. HonestAt(t)'
    <3>1. HonestAt(b)
        BY <1>1 DEF Clean, Honesty, BookmarkHonest
    <3>2. HonestAt(t)
        BY <2>3, <3>1 DEF HonestAt
    <3> QED BY <1>1, <3>2, SameBookmark
  <2>5. NoGhostsAt(t, 0)'
    <3>1. Tree(b)' = Tree(b) /\ Tree(t)' = Tree(t)
        BY <1>1, SameBookmark
    <3>2. NoGhostsAt(b, t)'
        BY <1>5
    <3> QED BY <2>3, <3>1, <3>2 DEF NoGhostsAt
  <2>6. RunHonest(a)'
      BY <1>5, <2>1, <2>4, <2>5 DEF RunHonest
  <2> QED BY <1>1, <1>3, <1>5, <2>6, RunStepHonest
<1>6. CASE anchor # head /\ Set(p, w)
  <2>1. /\ w.base = b /\ w.pin = t /\ w.step = "save" /\ w.left = todo \ done
        /\ w.pending = {} /\ w.ok = {} /\ w.at = {} /\ w.failed = {} /\ ~w.full
      BY DEF Idle
  <2>2. \A q \in ckpt'[b].paths : Done(b, t, q)'
      BY <1>6
  <2>3. \A q \in done : Done(b, t, q)'
      BY <1>6
  <2>4. Manifest(Tree(b), Tree(t))' = todo
      BY <1>1, SameBookmark
  <2>5. NoGhostsAt(b, t)'
      BY <1>6
  <2>6. Pinning(w)'
      BY <2>1, <2>2, <2>5 DEF Pinning
  <2>7. Importing(w)'
      BY <1>1, <2>1, <2>3, <2>4, <2>6 DEF Importing
  <2>8. RunHonest(w)'
      BY <1>6, <2>1, <2>7 DEF RunHonest
  <2> QED BY <1>1, <1>3, <1>6, <2>8, RunStepHonest
<1>7. \/ anchor = head /\ Set(p, Over)
      \/ anchor # head /\ todo = {} /\ Set(p, a)
      \/ anchor # head /\ Set(p, w)
    BY DEF Start
<1> QED BY <1>4, <1>5, <1>6, <1>7

\* The checkpoint's target stands for what its paths stand for.
LEMMA TargetFacts ==
    ASSUME Clean, anchor # 0, ckpt[anchor].target # 0, NEW t, t = ckpt[anchor].target,
           \A p \in Procs : ~AtReconcile(run[p])
    PROVE  /\ t \in Known /\ anchor < t /\ NoGhostsAt(anchor, t)
           /\ \A q \in ckpt[anchor].paths : Done(anchor, t, q)
<1>1. anchor \in Commits /\ t \in Known
    BY Reached
<1>2. NoGhostsAt(anchor, t)
    BY DEF Clean, Honesty, Unghosted
<1> QED BY <1>1, <1>2 DEF Clean, Honesty, CkptHonest

\* While p has not begun nobody is at the reconcile.
LEMMA NobodyReconciles ==
    ASSUME Clean, NEW p \in Procs, Working(p), run[p].step = "idle"
    PROVE  \A o \in Procs : ~AtReconcile(run[o])
    BY OthersIdle DEF AtReconcile

\* It takes up what the checkpoint has, or HEAD with nothing listed.
LEMMA BeginHonest ==
    ASSUME Clean, NEW p \in Procs, Begin(p)
    PROVE  Honesty'
<1> PICK b, u : b = anchor /\ u = ckpt[anchor].target
    OBVIOUS
<1>1. b # 0 /\ b \in Commits /\ b \in Known /\ ~Abandoned(b) /\ UNCHANGED ckpt /\ Excusing
    BY Reached DEF Begin, Abandoned, auxVars, Excusing
<1>2. Still /\ UNCHANGED <<page, anchor, ledger>> /\ Working(p) /\ run[p].step = "idle"
    BY <1>1 DEF Begin, Start, Still, Working
<1>3. \A o \in Procs : ~AtReconcile(run[o])
    BY <1>2, NobodyReconciles
<1>4. CASE u # 0
  <2>1. Start(p, u, ckpt[b].paths)
      BY <1>1, <1>4, Reached DEF Begin
  <2>2. /\ u \in Known /\ b < u /\ NoGhostsAt(b, u) /\ \A q \in ckpt[b].paths : Done(b, u, q)
      BY <1>1, <1>3, <1>4, TargetFacts
  <2>3. NoGhostsAt(b, u)' /\ \A q \in ckpt[b].paths : Done(b, u, q)'
      BY <1>1, <1>2, <2>2, SameBookmark
  <2> QED BY <1>1, <2>1, <2>2, <2>3, StartHonest
<1>5. CASE u = 0
  <2>1. Start(p, head, {})
      BY <1>1, <1>5 DEF Begin, Resumable
  <2>2. ckpt[b].paths = {}
      BY <1>1, <1>5 DEF Clean, Honesty, CkptHonest
  <2>3. NoGhostsAt(b, head)
    <3>1. \A q \in Paths : Tree(0)[q] = 0
        BY LineFacts DEF Clean
    <3>2. NoGhostsAt(b, 0)
        BY <1>1, <1>3, <1>5 DEF Clean, Honesty, Unghosted
    <3> QED BY <3>1, <3>2 DEF NoGhostsAt
  <2> PICK h : h = head
      OBVIOUS
  <2>4. NoGhostsAt(b, h)'
      BY <1>1, <1>2, <2>3, SameBookmark
  <2>5. h \in Known /\ (b # h => b < h)
      BY <1>1, Reached, LineFacts DEF Known, Clean
  <2> QED BY <1>1, <2>1, <2>2, <2>4, <2>5, StartHonest
<1> QED BY <1>4, <1>5

\* Without the paths it does everything again; without the target the paths that are not done
\* for HEAD are missed, and the pages of no file of HEAD are left over.
LEMMA BeginBlindHonest ==
    ASSUME Clean, NEW p \in Procs, BeginBlind(p)
    PROVE  Honesty'
<1> PICK b, u : b = anchor /\ u = ckpt[anchor].target
    OBVIOUS
<1> PICK h : h = head
    OBVIOUS
<1>1. b # 0 /\ b \in Commits /\ b \in Known /\ UNCHANGED ckpt /\ Excusing /\ u # 0
    BY Reached DEF BeginBlind, auxVars, Excusing, Resumable
<1>2. Still /\ UNCHANGED <<page, anchor, ledger>> /\ Working(p) /\ run[p].step = "idle"
    BY <1>1 DEF BeginBlind, Start, Still, Working
<1>3. \A o \in Procs : ~AtReconcile(run[o])
    BY <1>2, NobodyReconciles
<1>4. /\ u \in Known /\ b < u /\ NoGhostsAt(b, u) /\ \A q \in ckpt[b].paths : Done(b, u, q)
    BY <1>1, <1>3, TargetFacts
<1>5. CASE Start(p, u, {})
  <2>1. NoGhostsAt(b, u)' /\ \A q \in ckpt[b].paths : Done(b, u, q)'
      BY <1>1, <1>2, <1>4, SameBookmark
  <2> QED BY <1>1, <1>4, <1>5, <2>1, StartHonest
<1>6. CASE /\ Start(p, h, {})
           /\ missed' = missed \cup {q \in ckpt[b].paths : page[q] # Live[q] /\ Live[q] # 0}
           /\ leftover' = leftover \cup Unfiled(h)
  <2>1. h \in Known /\ b < h /\ ckpt[b].paths \subseteq Paths
      BY <1>1, <1>4, Reached, LineFacts DEF Known, Clean, Inv, SyncInv, CkptInv
  <2>2. \A q \in Paths : Tree(h)[q] = 0 /\ page[q] # 0 => q \in leftover'
      BY <1>6 DEF Unfiled
  <2>3. (\A c : Tree(c)' = Tree(c)) /\ Live' = Live /\ Live = Tree(h)
      BY <1>2 DEF Still, gitVars, Tree, Live
  <2>4. NoGhostsAt(b, h)'
      BY <1>2, <2>2, <2>3 DEF NoGhostsAt
  <2>5. ASSUME NEW q \in ckpt[b].paths PROVE Done(b, h, q)'
    <3>1. Settled(h, q)'
        BY <1>2, <1>6, <2>1, <2>2, <2>3 DEF Settled
    <3>2. SourceGone(b, h, q)'
      <4>1. Renames(Tree(b), Tree(h))' = Renames(Tree(b), Tree(h))
          BY <2>3, ManifestStays
      <4>2. Tree(b) \in [Paths -> Versions] /\ Tree(h) \in [Paths -> Versions]
          BY <1>1, <2>1, KnownTyped
      <4>3. \A m \in Renames(Tree(b), Tree(h)) : m[1] \in Paths /\ Tree(h)[m[1]] = 0
          BY <4>2, RenamesMatch DEF Gone
      <4> QED BY <1>2, <2>2, <4>1, <4>3 DEF SourceGone
    <3> QED BY <3>1, <3>2 DEF Done
  <2> QED BY <1>1, <1>6, <2>1, <2>4, <2>5, StartHonest
<1> QED BY <1>5, <1>6 DEF BeginBlind

\* The full sync for want of a diff: every page counts as left over until it has reconciled.
LEMMA BeginFallbackHonest ==
    ASSUME Clean, NEW p \in Procs, BeginFallback(p)
    PROVE  Honesty'
<1> PICK r : r = [Idle EXCEPT !.step = "list", !.base = anchor, !.pin = head, !.full = TRUE]
    OBVIOUS
<1>1. /\ Still /\ UNCHANGED <<page, anchor, fullDone, ledger>> /\ Working(p)
      /\ Set(p, r) /\ run[p].step = "idle" /\ anchor # 0 /\ anchor # head /\ leftover' = Paths
    BY DEF BeginFallback, Still, Working
<1>2. Excusing
    BY DEF BeginFallback, Excusing, Clean, Inv, SyncInv, StoreTyped
<1>3. UNCHANGED ckpt
    BY <1>1, Reached DEF BeginFallback, Abandoned
<1>4. /\ r.step = "list" /\ r.base = anchor /\ r.pin = head /\ r.full
    BY DEF Idle
<1>5. RunHonest(r)'
  <2>1. anchor < head
      BY <1>1, Reached, LineFacts DEF Known, Clean
  <2> QED BY <1>1, <1>4, <2>1 DEF RunHonest
<1>6. BookmarkHonest' /\ CkptHonest' /\ UnghostedBy(r)'
    BY <1>1, <1>2, <1>3, SameBookmark, SameCheckpoint, SameGhosts DEF AtReconcile
<1> QED BY <1>1, <1>5, <1>6, RunStepHonest DEF Clean, Honesty

\* The pin saved: what is listed under it is done for it.
LEMMA SavePinHonest ==
    ASSUME Clean, NEW p \in Procs, SavePin(p)
    PROVE  Honesty'
<1> PICK s : s = run[p]
    OBVIOUS
<1> PICK b, t : b = s.base /\ t = s.pin
    OBVIOUS
<1> PICK r : r = [s EXCEPT !.step = "work"]
    OBVIOUS
<1>1. /\ Still /\ UNCHANGED <<page, anchor, fullDone, ledger>> /\ Excusing
      /\ s.step = "save"
    BY DEF SavePin, Lock, Still, auxVars, Excusing
<1>2. /\ s \in Run /\ Working(p) /\ Importing(s) /\ ~s.full /\ anchor = b /\ b < t
      /\ t \in Known /\ b \in Known /\ b \in Commits /\ b # 0 /\ b \in Nat /\ t \in Nat
  <2>1. run[p].step \in Before
      BY <1>1 DEF Before
  <2>2. Importing(s) /\ ~s.full
      BY <1>1, <2>1, SpanFacts DEF RunHonest
  <2>3. b # 0
      BY <2>2 DEF Importing
  <2>4. b \in Known
      BY <2>1, <2>3, SpanFacts
  <2> QED BY <1>1, <2>1, <2>2, <2>3, <2>4, SpanFacts, LineFacts DEF Clean
<1>3. NoGhostsAt(b, t)' /\ \A q \in ckpt[b].paths : Done(b, t, q)'
    BY <1>1, <1>2, SameBookmark DEF Importing, Pinning
<1>4. CASE ckpt' = [ckpt EXCEPT ![b].target = t] /\ Set(p, r)
  <2>1. ckpt \in [Commits -> [target: Versions, paths: SUBSET Paths]]
      BY DEF Clean, Inv, SyncInv, CkptInv
  <2>2. /\ ckpt'[b].target = t /\ ckpt'[b].paths = ckpt[b].paths
        /\ \A c \in Commits : c # b => ckpt'[c] = ckpt[c]
      BY <1>2, <1>4, <2>1
  <2>5. CkptHonest'
    <3>1. ASSUME NEW c \in Commits, b < c PROVE ckpt'[c] = NoCheckpoint
      <4>1. c # b /\ ckpt[c] = NoCheckpoint
          BY <1>2, <3>1 DEF Clean, Honesty, CkptHonest
      <4> QED BY <2>2, <4>1
    <3>2. ASSUME NEW c \in Commits, c = b, NEW q \in ckpt'[c].paths
          PROVE  Done(c, ckpt[c].target, q)'
      <4>1. Done(b, t, q)'
          BY <1>3, <2>2, <3>2
      <4> QED BY <2>2, <3>2, <4>1 DEF Done, Settled, SourceGone
    <3>3. t # 0
        BY <1>2
    <3> QED BY <1>1, <1>2, <2>2, <3>1, <3>2, <3>3 DEF CkptHonest
  <2>6. UnghostedBy(r)'
      BY <1>1, <1>2, <1>3, <2>2 DEF UnghostedBy, NoGhostsAt, Recorded
  <2>7. /\ r.base = b /\ r.pin = t /\ r.step = "work" /\ r.left = s.left
        /\ r.pending = s.pending /\ r.ok = s.ok /\ r.failed = s.failed /\ r.full = s.full
      BY <1>2 DEF Run
  <2>8. Importing(r)'
    <3>1. \A q \in Manifest(Tree(b), Tree(t)) \ s.left :
            (q \in s.failed /\ q \notin Targets(b, t)) \/ Done(b, t, q)'
        BY <1>1, <1>2, SameBookmark DEF Importing
    <3>2. (\A q \in s.pending : Done(b, t, q)') /\ \A q \in s.ok : Changed(b, t, q)'
        BY <1>1, <1>2, SameBookmark DEF Importing
    <3>3. /\ Manifest(Tree(b), Tree(t))' = Manifest(Tree(b), Tree(t))
          /\ Targets(b, t)' = Targets(b, t)
        BY <1>1, SameBookmark
    <3> QED BY <1>2, <2>2, <2>7, <3>1, <3>2, <3>3 DEF Importing
  <2>9. RunHonest(r)'
      BY <1>2, <2>7, <2>8 DEF RunHonest
  <2> QED BY <1>1, <1>2, <1>4, <2>5, <2>6, <2>9, SameBookmark, RunStepHonest DEF Clean, Honesty
<1>5. CASE Set(p, Over) /\ UNCHANGED ckpt
  <2>1. UnghostedBy(Over)'
      BY <1>1, <1>2, <1>5, SameGhosts DEF AtReconcile
  <2> QED BY <1>1, <1>2, <1>5, <2>1, OverHonest, SameBookmark, SameCheckpoint, RunStepHonest
          DEF Clean, Honesty
<1> QED BY <1>4, <1>5 DEF SavePin

\* The bookmark moves to where the gate has found it honest.
LEMMA AdvanceHonest ==
    ASSUME Clean, NEW p \in Procs, Advance(p)
    PROVE  Honesty'
<1> PICK s : s = run[p]
    OBVIOUS
<1> PICK b, t : b = s.base /\ t = s.pin
    OBVIOUS
<1> PICK r : r = [s EXCEPT !.step = "finish"]
    OBVIOUS
<1>1. /\ Still /\ UNCHANGED <<page, ckpt, fullDone, ledger, leftover, missed>>
      /\ s.step = "advance" /\ anchor' = t /\ Set(p, r)
    BY DEF Advance, Lock, Still, auxVars
<1>2. /\ s \in Run /\ Working(p) /\ anchor = b /\ b < t /\ t \in Known /\ t \in Commits
      /\ b \in Nat /\ t \in Nat /\ HonestAt(t) /\ (s.full \/ NoGhostsAt(t, 0))
  <2>1. run[p].step \in Before
      BY <1>1 DEF Before
  <2> QED BY <1>1, <2>1, SpanFacts DEF RunHonest
<1>3. (\A c : Tree(c)' = Tree(c)) /\ Live' = Live /\ \A q : Recorded(q)' = Recorded(q)
    BY <1>1 DEF Still, gitVars, Tree, Live, Recorded
<1>4. r.step = "finish" /\ r.base = b /\ r.pin = t /\ r.full = s.full
    BY <1>2 DEF Run
<1>5. \A c \in Commits : b < c => ckpt[c] = NoCheckpoint
    BY <1>2 DEF Clean, Honesty, CkptHonest
<1>6. NoCheckpoint.target = 0 /\ NoCheckpoint.paths = {}
    BY DEF NoCheckpoint
<1>7. CkptHonest'
  <2>1. ASSUME NEW c \in Commits, t <= c PROVE ckpt'[c] = NoCheckpoint
    <3>1. b < c
        BY <1>2, <2>1, LineFacts DEF Commits
    <3> QED BY <1>1, <1>5, <3>1
  <2> QED BY <1>1, <1>2, <1>6, <2>1 DEF CkptHonest, Commits
<1>8. BookmarkHonest'
    BY <1>1, <1>2, <1>3 DEF BookmarkHonest, HonestAt
<1>9. UnghostedBy(r)'
  <2>1. ckpt'[t].target = 0
      BY <1>1, <1>2, <1>5, <1>6
  <2>2. s.full \/ NoGhostsAt(t, 0)'
      BY <1>1, <1>2, <1>3 DEF NoGhostsAt
  <2>3. ~AtReconcile(r) => ~s.full
      BY <1>4 DEF AtReconcile
  <2> QED BY <1>1, <2>1, <2>2, <2>3 DEF UnghostedBy, NoGhostsAt, Recorded
<1>10. RunHonest(r)'
    BY <1>1, <1>2, <1>4, <1>5 DEF RunHonest
<1> QED BY <1>1, <1>2, <1>7, <1>8, <1>9, <1>10, RunStepHonest DEF Clean, Honesty

\* What is cleared is of the old bookmark, and the rows stay in the ledger.
LEMMA FinishHonest ==
    ASSUME Clean, NEW p \in Procs, Finish(p)
    PROVE  Honesty'
<1> PICK s : s = run[p]
    OBVIOUS
<1> PICK b, t : b = s.base /\ t = s.pin
    OBVIOUS
<1> PICK r : r = IF s.full THEN [s EXCEPT !.step = "reconcile"] ELSE Over
    OBVIOUS
<1>1. /\ Still /\ UNCHANGED <<page, anchor, fullDone, leftover, missed>> /\ s.step = "finish"
      /\ Set(p, r) /\ s \in Run /\ Working(p) /\ RunHonest(s)
    BY RunFacts DEF Finish, Lock, Still, auxVars, Clean, Honesty
<1>2. anchor = t /\ b < t /\ t \in Commits /\ b \in Nat /\ t \in Nat
  <2>1. anchor = t /\ b < t
      BY <1>1 DEF RunHonest
  <2>2. b \in Nat /\ t \in Nat
      BY <1>1, LineFacts DEF Run, Clean
  <2> QED BY <2>1, <2>2, Reached
<1>3. (\A c : Tree(c)' = Tree(c)) /\ Live' = Live
    BY <1>1 DEF Still, gitVars, Tree, Live
<1>4. \A q \in Paths : Recorded(q)' = Recorded(q)
  <2>1. ledger \in [Paths -> Failure]
      BY DEF Clean, Inv, SyncInv, StoreTyped
  <2>2. ASSUME NEW q \in Paths
        PROVE  \/ ledger'[q] = ledger[q]
               \/ /\ ledger[q].state = "open"
                  /\ ledger'[q].state \in {"acknowledged", "auto_skipped"}
    <3>1. ledger[q] \in Failure
        BY <2>1
    <3> QED BY <3>1 DEF Finish, Failure
  <2> QED BY <2>2 DEF Recorded
<1>5. \A c \in Commits : t <= c => ckpt'[c] = ckpt[c]
  <2>1. ckpt \in [Commits -> [target: Versions, paths: SUBSET Paths]]
      BY DEF Clean, Inv, SyncInv, CkptInv
  <2>2. ASSUME NEW c \in Commits, t <= c PROVE c # b
      BY <1>2, <2>2 DEF Commits
  <2>3. CASE s.full
      BY <2>3 DEF Finish
  <2>4. CASE ~s.full
    <3>1. Clear(b)
        BY <2>4 DEF Finish
    <3>2. \/ ckpt' = [ckpt EXCEPT ![b] = NoCheckpoint]
          \/ ckpt' = [ckpt EXCEPT ![b].target = 0]
          \/ ckpt' = [ckpt EXCEPT ![b].paths = {}]
        BY <3>1 DEF Clear
    <3>3. \A c \in Commits : c # b => ckpt'[c] = ckpt[c]
        BY <2>1, <3>2
    <3> QED BY <2>2, <3>3
  <2> QED BY <2>3, <2>4
<1>6. BookmarkHonest'
    BY <1>1, <1>3, <1>4 DEF BookmarkHonest, HonestAt, Clean, Honesty
<1>7. ASSUME NEW c, NEW u, NEW q, Done(c, u, q) PROVE Done(c, u, q)'
    BY <1>1, <1>3, <1>7 DEF Done, Settled, SourceGone, Renames
<1>8. CkptHonest'
  <2>1. ASSUME NEW c \in Commits, anchor < c PROVE ckpt'[c] = NoCheckpoint
    <3>1. t <= c
        BY <1>2, <2>1 DEF Commits
    <3>2. ckpt[c] = NoCheckpoint
        BY <2>1 DEF Clean, Honesty, CkptHonest
    <3> QED BY <1>5, <3>1, <3>2
  <2>2. ckpt'[t] = ckpt[t]
      BY <1>2, <1>5
  <2>3. ASSUME ckpt[t].target # 0, NEW q \in ckpt[t].paths PROVE Done(t, ckpt[t].target, q)'
    <3> PICK u : u = ckpt[t].target
        OBVIOUS
    <3>1. Done(t, u, q)
        BY <1>2, <2>3 DEF Clean, Honesty, CkptHonest
    <3>2. Done(t, u, q)'
        BY <1>7, <3>1
    <3> QED BY <2>2, <3>2 DEF Done, Settled, SourceGone
  <2>4. /\ ckpt[t].target = 0 => ckpt[t].paths = {}
        /\ ckpt[t].target # 0 => t < ckpt[t].target
      BY <1>2 DEF Clean, Honesty, CkptHonest
  <2> QED BY <1>1, <1>2, <2>1, <2>2, <2>3, <2>4 DEF CkptHonest
<1>9. UnghostedBy(r)'
  <2>1. CASE s.full
    <3>1. AtReconcile(r)
        BY <1>1, <2>1 DEF AtReconcile, Run
    <3> QED BY <3>1 DEF UnghostedBy
  <2>2. CASE ~s.full
    <3> PICK u : u = ckpt[t].target
        OBVIOUS
    <3>1. NoGhostsAt(t, u)
        BY <1>1, <1>2, <2>2, NotGhosted DEF UnghostedBy, AtReconcile
    <3>2. NoGhostsAt(t, u)'
        BY <1>1, <1>3, <1>4, <3>1 DEF NoGhostsAt
    <3>3. ckpt'[t].target = u
        BY <1>2, <1>5
    <3> QED BY <1>1, <1>2, <3>2, <3>3 DEF UnghostedBy, NoGhostsAt, Recorded
  <2> QED BY <2>1, <2>2
<1>10. RunHonest(r)'
  <2>1. CASE s.full
    <3>1. r.step = "reconcile" /\ r.base = b /\ r.pin = t /\ r.full
        BY <1>1, <2>1 DEF Run
    <3>2. ckpt'[t] = NoCheckpoint
        BY <1>1, <1>2, <1>5, <2>1 DEF RunHonest
    <3> QED BY <1>1, <1>2, <3>1, <3>2 DEF RunHonest
  <2>2. CASE ~s.full
    <3>1. r.step = "over"
        BY <2>2, OverHonest
    <3> QED BY <3>1 DEF RunHonest
  <2> QED BY <2>1, <2>2
<1> QED BY <1>1, <1>6, <1>8, <1>9, <1>10, RunStepHonest DEF Clean, Honesty

\* The gate: what is not indexed as the pin has it is in the ledger, and only what has changed
\* leaves it.
LEMMA GateHonest ==
    ASSUME Clean, NEW p \in Procs, Gate(p)
    PROVE  Honesty'
<1> PICK s : s = run[p]
    OBVIOUS
<1> PICK b, t : b = s.base /\ t = s.pin
    OBVIOUS
<1> PICK failed : failed = s.failed
    OBVIOUS
<1> PICK resolved : resolved = s.ok \cup Gone(Tree(b), Tree(t))
    OBVIOUS
<1> PICK batch : batch = s.pending
    OBVIOUS
<1>1. /\ Still /\ UNCHANGED <<page, anchor, fullDone, leftover, missed>> /\ s.step = "work"
      /\ s.left = {} /\ ledger' = AfterRun(resolved, failed) /\ run[p].step = "work"
    BY DEF Gate, ApplyGate, Lock, Still, auxVars, From, To
<1>2. /\ s \in Run /\ Working(p) /\ Importing(s) /\ anchor = b /\ b < t /\ t \in Known
      /\ b \in Known /\ b # 0 /\ ckpt[b].target = t /\ b \in Nat /\ t \in Nat
  <2>1. run[p].step \in Before
      BY <1>1 DEF Before
  <2>2. Importing(s)
      BY <1>1, <2>1, SpanFacts DEF RunHonest
  <2>3. b # 0 /\ ckpt[b].target = t
      BY <1>1, <2>2 DEF Importing
  <2>4. b \in Known
      BY <2>1, <2>3, SpanFacts
  <2> QED BY <1>1, <2>1, <2>2, <2>3, <2>4, SpanFacts, LineFacts DEF Clean
<1>3. (\A c : Tree(c)' = Tree(c)) /\ Live' = Live
    BY <1>1 DEF Still, gitVars, Tree, Live
<1>4. /\ failed \subseteq Paths /\ resolved \subseteq Paths /\ batch \in SUBSET Paths
      /\ \A q \in resolved : Changed(b, t, q)
  <2>1. failed \subseteq Paths /\ s.ok \subseteq Paths /\ batch \subseteq Paths
      BY <1>2 DEF Run
  <2>2. \A q \in s.ok : Changed(b, t, q)
      BY <1>2 DEF Importing
  <2>3. \A q \in Gone(Tree(b), Tree(t)) : Changed(b, t, q)
      BY DEF Gone, Changed
  <2> QED BY <2>1, <2>2, <2>3 DEF Gone
\* What the ledger holds after the run.
<1>5. \A q \in Paths : /\ q \in failed => Recorded(q)'
                       /\ q \notin resolved /\ Recorded(q) => Recorded(q)'
    BY <1>1 DEF AfterRun, Recorded
<1>6. /\ HonestAt(b) /\ NoGhostsAt(b, t)
  <2>1. UnghostedBy(s) /\ ~AtReconcile(s)
      BY <1>1, <1>2, NotGhosted DEF AtReconcile
  <2> QED BY <1>2, <2>1 DEF UnghostedBy, Clean, Honesty, BookmarkHonest
<1>7. HonestAt(b)'
  <2> SUFFICES ASSUME NEW q \in Paths, Tree(b)[q] # 0, page[q] # Tree(b)[q],
                      Live[q] = Tree(b)[q], q \notin missed
               PROVE  Recorded(q)'
      BY <1>1, <1>3 DEF HonestAt
  <2>1. ~Changed(b, t, q)
      BY <1>2, Apart
  <2> QED BY <1>4, <1>5, <1>6, <2>1 DEF HonestAt
<1>8. NoGhostsAt(b, t)'
  <2> SUFFICES ASSUME NEW q \in Paths, Tree(b)[q] = 0, page[q] # 0, q \notin leftover,
                      Tree(t)[q] = 0
               PROVE  Recorded(q)'
      BY <1>1, <1>3 DEF NoGhostsAt
  <2>1. ~Changed(b, t, q)
      BY DEF Changed
  <2> QED BY <1>4, <1>5, <1>6, <2>1 DEF NoGhostsAt
\* What the manifest names is done or has failed.
<1>9. \A q \in Manifest(Tree(b), Tree(t)) :
        (q \in failed /\ q \notin Targets(b, t)) \/ Done(b, t, q)
    BY <1>1, <1>2 DEF Importing
<1>18. Tree(b) \in [Paths -> Versions] /\ Tree(t) \in [Paths -> Versions]
    BY <1>2, KnownTyped
<1>10. HonestAt(t)'
  <2> SUFFICES ASSUME NEW q \in Paths, Tree(t)[q] # 0, page[q] # Tree(t)[q],
                      Live[q] = Tree(t)[q], q \notin missed
               PROVE  Recorded(q)'
      BY <1>1, <1>3 DEF HonestAt
  <2>1. CASE Changed(b, t, q)
    <3>1. q \in Manifest(Tree(b), Tree(t))
        BY <1>18, <2>1, ManifestFacts
    <3>2. ~Done(b, t, q)
        BY DEF Done, Settled
    <3> QED BY <1>5, <1>9, <3>1, <3>2
  <2>2. CASE ~Changed(b, t, q)
      BY <1>4, <1>5, <1>6, <2>2 DEF HonestAt, Changed
  <2> QED BY <2>1, <2>2
<1>11. NoGhostsAt(t, 0)'
  <2> SUFFICES ASSUME NEW q \in Paths, Tree(t)[q] = 0, page[q] # 0, q \notin leftover
               PROVE  Recorded(q)'
      BY <1>1, <1>3 DEF NoGhostsAt
  <2>1. CASE q \in Manifest(Tree(b), Tree(t))
      BY <1>5, <1>9, <2>1 DEF Done, Settled
  <2>2. CASE Changed(b, t, q) /\ q \notin Manifest(Tree(b), Tree(t))
    <3>1. PICK m \in Renames(Tree(b), Tree(t)) : m[1] = q
        BY <1>18, <2>2, ManifestFacts
    <3>2. m[2] \in Targets(b, t) /\ m[2] \in Manifest(Tree(b), Tree(t))
        BY <1>18, <3>1, ManifestFacts DEF Targets
    <3>3. SourceGone(b, t, m[2])
        BY <1>9, <3>2 DEF Done
    <3> QED BY <3>1, <3>3 DEF SourceGone
  <2>3. CASE ~Changed(b, t, q)
      BY <1>4, <1>5, <1>6, <2>3 DEF NoGhostsAt, Changed
  <2> QED BY <2>1, <2>2, <2>3
<1>12. ckpt' = ckpt \/ ckpt' = [ckpt EXCEPT ![b].paths = @ \cup batch]
    BY DEF Gate, FlushOrNot
<1>13. CkptHonest' /\ ckpt'[b].target = t
  <2>1. Onward(t) /\ Settling
      BY <1>1, <1>3 DEF Onward, Settled, Settling
  <2>2. \A q \in batch : Done(b, t, q)'
      BY <1>1, <1>2, <1>3 DEF Importing, Done, Settled, SourceGone, Renames
  <2> QED BY <1>1, <1>2, <1>4, <1>12, <2>1, <2>2, MarksHonest
<1>14. BookmarkHonest'
    BY <1>1, <1>2, <1>7 DEF BookmarkHonest, HonestAt, Recorded
<1>15. \A r : UnghostedBy(r)'
    BY <1>1, <1>2, <1>8, <1>13 DEF UnghostedBy, NoGhostsAt, Recorded
<1>16. CASE Set(p, Over)
    BY <1>1, <1>2, <1>13, <1>14, <1>15, <1>16, OverHonest, RunStepHonest DEF Clean, Honesty
<1>17. CASE ~Set(p, Over)
  <2> PICK skip : skip = IF SkipFailed
                         THEN {q \in Paths : AfterRun(resolved, failed)[q].state = "open"}
                         ELSE failed
      OBVIOUS
  <2> PICK r : r = [Idle EXCEPT !.step = "advance", !.base = b, !.pin = t, !.full = s.full,
                                !.skip = skip]
      OBVIOUS
  <2>1. Set(p, r)
      BY <1>17 DEF Gate, ApplyGate, From, To
  <2>2. r.step = "advance" /\ r.base = b /\ r.pin = t
      BY DEF Idle
  <2>3. RunHonest(r)'
      BY <1>2, <1>10, <1>11, <2>2 DEF RunHonest
  <2> QED BY <1>1, <1>2, <1>13, <1>14, <1>15, <2>1, <2>3, RunStepHonest DEF Clean, Honesty
<1> QED BY <1>16, <1>17

\* A full sync is before the first bookmark, or counts every page as left over; it indexes files
\* as they are now.
LEMMA FullFacts ==
    ASSUME Clean, NEW p \in Procs, run[p].step = "full", Still,
           UNCHANGED <<anchor, ckpt, leftover>>, Settling,
           \A q \in Paths : page'[q] \in {page[q], Live[q]}
    PROVE  /\ run[p] \in Run /\ Working(p) /\ RunHonest(run[p]) /\ run[p].full
           /\ anchor = run[p].base /\ run[p].base < run[p].pin
           /\ run[p].base = 0 \/ Paths \subseteq leftover
           /\ Covers(run[p], run[p].base) /\ Covers(run[p], run[p].pin)
           /\ CkptHonest' /\ \A r : UnghostedBy(r)'
<1>1. run[p].step \in Before
    BY DEF Before
<1>2. /\ run[p] \in Run /\ Working(p) /\ RunHonest(run[p])
      /\ anchor = run[p].base /\ run[p].base < run[p].pin
    BY <1>1, SpanFacts
<1>3. /\ run[p].full /\ (run[p].base = 0 \/ Paths \subseteq leftover)
      /\ Covers(run[p], run[p].base) /\ Covers(run[p], run[p].pin)
    BY <1>2 DEF RunHonest
<1>4. CASE anchor = 0
  <2>1. \A c \in Commits : 0 < c /\ ckpt[c] = NoCheckpoint
      BY <1>4 DEF Commits, Clean, Honesty, CkptHonest
  <2>2. CkptHonest'
      BY <1>4, <2>1, LineFacts DEF CkptHonest, Clean
  <2> QED BY <1>2, <1>3, <1>4, <2>2 DEF UnghostedBy
<1>5. CASE anchor # 0 /\ Paths \subseteq leftover
  <2>1. anchor \in Commits /\ anchor \in Known
      BY <1>5, Reached
  <2> PICK a, u : a = anchor /\ u = ckpt[anchor].target
      OBVIOUS
  <2>2. (\A x : Tree(x)' = Tree(x)) /\ Live' = Live
      BY DEF Still, gitVars, Tree, Live
  <2>3. ASSUME u # 0, NEW q \in ckpt[a].paths PROVE Done(a, u, q)'
    <3>1. q \in Paths /\ Settled(u, q)
        BY <2>1, <2>3 DEF Clean, Honesty, CkptHonest, Done, Inv, SyncInv, CkptInv
    <3>2. Settled(u, q)'
        BY <1>5, <2>2, <3>1 DEF Settled, Settling
    <3>3. SourceGone(a, u, q)'
      <4>1. u \in Known
          BY <2>1, <2>3, Reached
      <4>2. Tree(a) \in [Paths -> Versions] /\ Tree(u) \in [Paths -> Versions]
          BY <2>1, <4>1, KnownTyped
      <4>3. Renames(Tree(a), Tree(u))' = Renames(Tree(a), Tree(u))
          BY <2>2, ManifestStays
      <4>4. \A m \in Renames(Tree(a), Tree(u)) : m[1] \in Paths
          BY <4>2, RenamesMatch DEF Gone
      <4> QED BY <1>5, <4>3, <4>4 DEF SourceGone
    <3> QED BY <3>2, <3>3 DEF Done
  <2>4. /\ \A c \in Commits : anchor < c => ckpt[c] = NoCheckpoint
        /\ u = 0 => ckpt[a].paths = {}
        /\ u # 0 => a < u
      BY <2>1 DEF Clean, Honesty, CkptHonest
  <2>5. ASSUME NEW c \in Commits, c = anchor, ckpt[c].target # 0, NEW q \in ckpt[c].paths
        PROVE  Done(c, ckpt[c].target, q)'
    <3>1. Done(a, u, q)'
        BY <2>3, <2>5
    <3> QED BY <2>5, <3>1 DEF Done, Settled, SourceGone
  <2>6. CkptHonest'
      BY <2>4, <2>5 DEF CkptHonest
  <2> QED BY <1>2, <1>3, <1>5, <2>6 DEF UnghostedBy, NoGhostsAt
<1> QED BY <1>2, <1>3, <1>4, <1>5

\* A file of a full sync is indexed as it is now, or has failed.
LEMMA ImportFullHonest ==
    ASSUME Clean, NEW p \in Procs, NEW q \in Paths, ImportFull(p, q)
    PROVE  Honesty'
<1> PICK s : s = run[p]
    OBVIOUS
<1> PICK a : a = [s EXCEPT !.left = @ \ {q}, !.done = @ \cup {q}]
    OBVIOUS
<1> PICK b : b = [s EXCEPT !.left = @ \ {q}, !.failed = @ \cup {q}]
    OBVIOUS
<1> PICK c : c = [s EXCEPT !.left = @ \ {q}, !.failed = @ \cup {q}, !.threw = TRUE]
    OBVIOUS
<1>1. /\ Still /\ UNCHANGED <<anchor, ckpt, ledger, leftover>> /\ run[p].step = "full"
      /\ s.step = "full"
    BY DEF ImportFull, Still
<1>2. \/ page' = [page EXCEPT ![q] = Live[q]] /\ missed' = missed \ {q} /\ Set(p, a)
      \/ page' = page /\ missed' = missed /\ (Set(p, b) \/ Set(p, c))
    BY DEF ImportFull
<1>3. (\A x : Tree(x)' = Tree(x)) /\ Live' = Live /\ page \in [Paths -> Versions]
    BY <1>1 DEF Still, gitVars, Tree, Live, Clean, Inv, SyncInv, StoreTyped
<1>4. Settling /\ \A x \in Paths : page'[x] \in {page[x], Live[x]}
    BY <1>1, <1>2, <1>3 DEF Settling
<1>5. /\ s \in Run /\ Working(p) /\ s.full /\ anchor = s.base /\ s.base < s.pin
      /\ s.base = 0 \/ Paths \subseteq leftover
      /\ Covers(s, s.base) /\ Covers(s, s.pin)
      /\ CkptHonest' /\ \A r : UnghostedBy(r)'
    BY <1>1, <1>4, FullFacts
<1>6. BookmarkHonest'
  <2> PICK o : o = anchor
      OBVIOUS
  <2>1. o # 0 => HonestAt(o)
      BY DEF Clean, Honesty, BookmarkHonest
  <2>2. HonestAt(o) => HonestAt(o)'
      BY <1>1, <1>3, <1>4 DEF HonestAt, Settling, Recorded
  <2> QED BY <1>1, <2>1, <2>2 DEF BookmarkHonest, HonestAt, Recorded
<1>7. fullDone' = {}
    BY DEF ImportFull, Clean, Honesty
<1>8. ASSUME NEW r \in {a, b, c}, Set(p, r) PROVE Honesty'
  <2>1. /\ r.step = "full" /\ r.base = s.base /\ r.pin = s.pin /\ r.left = s.left \ {q}
        /\ r.full /\ s.failed \subseteq r.failed
    <3>1. s \in Run /\ s.step = "full" /\ s.full
        BY <1>1, <1>5
    <3>2. CASE r = a
        BY <3>1, <3>2 DEF Run
    <3>3. CASE r = b
        BY <3>1, <3>3 DEF Run
    <3>4. CASE r = c
        BY <3>1, <3>4 DEF Run
    <3> QED BY <3>2, <3>3, <3>4
  <2>2. page'[q] = Live[q] \/ q \in r.failed
    <3>1. CASE Set(p, a) /\ page' = [page EXCEPT ![q] = Live[q]]
        BY <1>3, <3>1
    <3>2. CASE ~(Set(p, a) /\ page' = [page EXCEPT ![q] = Live[q]])
      <4>1. /\ run'[p] = r /\ (run'[p] = b \/ run'[p] = c)
          BY <1>2, <1>8, <3>2 DEF Set, Clean, Inv, SyncInv, RunInv
      <4>2. q \in b.failed /\ q \in c.failed
          BY <1>5 DEF Run
      <4> QED BY <4>1, <4>2
    <3> QED BY <3>1, <3>2
  <2>3. ASSUME NEW x, Covers(s, x) PROVE Covers(r, x)'
      BY <1>3, <1>4, <2>1, <2>2, <2>3 DEF Covers
  <2>4. Covers(r, r.base)' /\ Covers(r, r.pin)'
    <3> PICK x, y : x = s.base /\ y = s.pin
        OBVIOUS
    <3>1. Covers(r, x)' /\ Covers(r, y)'
        BY <1>5, <2>3
    <3> QED BY <2>1, <3>1
  <2>5. RunHonest(r)'
      BY <1>1, <1>5, <2>1, <2>4 DEF RunHonest
  <2> QED BY <1>1, <1>5, <1>6, <1>7, <1>8, <2>5, RunStepHonest
<1> QED BY <1>2, <1>8

\* The gate of a full sync: a file that is not indexed has failed, and is in the ledger.
LEMMA GateFullHonest ==
    ASSUME Clean, NEW p \in Procs, GateFull(p)
    PROVE  Honesty'
<1> PICK s : s = run[p]
    OBVIOUS
<1> PICK b, t : b = s.base /\ t = s.pin
    OBVIOUS
<1> PICK failed : failed = s.failed
    OBVIOUS
<1>1. /\ Still /\ UNCHANGED <<page, anchor, ckpt, leftover, missed>> /\ run[p].step = "full"
      /\ s.left = {} /\ s.step = "full" /\ ledger' = AfterRun(Paths \ failed, failed)
    BY DEF GateFull, ApplyGate, Lock, Still, auxVars
<1>2. /\ s \in Run /\ Working(p) /\ s.full /\ anchor = b /\ b < t
      /\ Covers(s, b) /\ Covers(s, t) /\ CkptHonest' /\ \A r : UnghostedBy(r)'
  <2>1. Settling
      BY <1>1 DEF Settling
  <2> QED BY <1>1, <2>1, FullFacts
<1>3. fullDone' = {}
    BY DEF GateFull, Clean, Honesty
<1>4. (\A x : Tree(x)' = Tree(x)) /\ Live' = Live
    BY <1>1 DEF Still, gitVars, Tree, Live
<1>5. \A q \in Paths : q \in failed => Recorded(q)'
    BY <1>1 DEF AfterRun, Recorded
<1>6. HonestAt(b)' /\ HonestAt(t)'
    BY <1>1, <1>2, <1>4, <1>5 DEF HonestAt, Covers
<1>7. BookmarkHonest'
    BY <1>1, <1>2, <1>6 DEF BookmarkHonest, HonestAt, Recorded
<1>8. CASE Set(p, Over)
    BY <1>1, <1>2, <1>3, <1>7, <1>8, OverHonest, RunStepHonest
<1>9. CASE ~Set(p, Over)
  <2> PICK skip : skip = IF SkipFailed
                         THEN {q \in Paths : AfterRun(Paths \ failed, failed)[q].state = "open"}
                         ELSE failed
      OBVIOUS
  <2> PICK r : r = [Idle EXCEPT !.step = "advance", !.base = b, !.pin = t, !.full = s.full,
                                !.skip = skip]
      OBVIOUS
  <2>1. Set(p, r)
      BY <1>9 DEF GateFull, ApplyGate
  <2>2. r.step = "advance" /\ r.base = b /\ r.pin = t /\ r.full
      BY <1>2 DEF Idle
  <2>3. RunHonest(r)'
      BY <1>2, <1>6, <2>2 DEF RunHonest
  <2> QED BY <1>1, <1>2, <1>3, <1>7, <2>1, <2>3, RunStepHonest
<1> QED BY <1>8, <1>9

\* After the reconcile a page of no file of the bookmark's tree counts as left over.
LEMMA ReconcileHonest ==
    ASSUME Clean, NEW p \in Procs, Reconcile(p)
    PROVE  Honesty'
<1> PICK s : s = run[p]
    OBVIOUS
<1> PICK a : a = anchor
    OBVIOUS
<1>1. /\ Still /\ UNCHANGED <<anchor, ckpt, fullDone, ledger, missed>> /\ s.step = "reconcile"
      /\ Set(p, Over) /\ s \in Run /\ Working(p) /\ RunHonest(s)
    BY RunFacts DEF Reconcile, Still, Clean, Honesty
<1>2. (\A x : Tree(x)' = Tree(x)) /\ Live' = Live /\ \A q : Recorded(q)' = Recorded(q)
    BY <1>1 DEF Still, gitVars, Tree, Live, Recorded
<1>3. /\ \A q \in Paths : page'[q] = page[q] \/ (page'[q] = 0 /\ Live[q] = 0)
      /\ leftover' = {q \in Paths : Tree(a)[q] = 0 /\ page'[q] # 0}
      /\ ckpt[a] = NoCheckpoint
  <2>1. a = s.pin /\ ckpt[a] = NoCheckpoint
      BY <1>1 DEF RunHonest
  <2> QED BY <2>1 DEF Reconcile, To
<1>4. BookmarkHonest'
    BY <1>1, <1>2, <1>3 DEF BookmarkHonest, HonestAt, Clean, Honesty
<1>5. CkptHonest'
    BY <1>1, <1>3 DEF CkptHonest, NoCheckpoint, Clean, Honesty
<1>6. UnghostedBy(Over)'
  <2>1. \A u : NoGhostsAt(a, u)'
      BY <1>2, <1>3 DEF NoGhostsAt
  <2> QED BY <1>1, <2>1 DEF UnghostedBy, NoGhostsAt, Recorded
<1> QED BY <1>1, <1>4, <1>5, <1>6, OverHonest, RunStepHonest DEF Clean, Honesty

\* Steps about the lock, which leave the store as it is, and the runs but for those they end.
LEMMA LockStepHonest ==
    ASSUME Clean, UNCHANGED <<gitVars, storeVars>>, Excusing,
           \A p \in Procs : \/ run'[p] = run[p]
                            \/ /\ run'[p] = Idle
                               /\ AtReconcile(run[p]) => Unfiled(run[p].pin) \subseteq leftover'
    PROVE  Honesty'
<1>1. /\ (\A x : Tree(x)' = Tree(x)) /\ Live' = Live /\ (\A q : Recorded(q)' = Recorded(q))
      /\ UNCHANGED <<page, anchor, ckpt, fullDone, ledger>>
    BY DEF gitVars, storeVars, Tree, Live, Recorded
<1>2. History'
    BY DEF gitVars, Clean, Honesty, History, NotOlder, Unreturned, Known
<1>3. BookmarkHonest'
    BY <1>1 DEF BookmarkHonest, HonestAt, Clean, Honesty, Excusing
<1>4. \A b, t, q : /\ Done(b, t, q) => Done(b, t, q)'
                   /\ SourceGone(b, t, q) => SourceGone(b, t, q)'
    BY <1>1 DEF Done, Settled, SourceGone, Renames, Excusing
<1>5. CkptHonest'
  <2> SUFFICES ASSUME NEW c \in Commits, c = anchor, ckpt[c].target # 0,
                      NEW q \in ckpt[c].paths
               PROVE  Done(c, ckpt[c].target, q)'
      BY <1>1 DEF CkptHonest, Clean, Honesty
  <2> PICK u : u = ckpt[c].target
      OBVIOUS
  <2>1. Done(c, u, q)'
      BY <1>4 DEF CkptHonest, Clean, Honesty
  <2> QED BY <1>1, <2>1 DEF Done, Settled, SourceGone
<1>6. Unghosted'
  <2> PICK a, u : a = anchor /\ u = ckpt[anchor].target
      OBVIOUS
  <2>1. ASSUME NEW p \in Procs, AtReconcile(run[p]), ~AtReconcile(run'[p]), a # 0
        PROVE  NoGhostsAt(a, u)'
    <3>1. Unfiled(run[p].pin) \subseteq leftover'
        BY <2>1
    <3>2. run[p].pin = a
        BY <2>1 DEF AtReconcile, RunHonest, Clean, Honesty
    <3> QED BY <1>1, <3>1, <3>2 DEF Unfiled, NoGhostsAt
  <2>2. ASSUME \A p \in Procs : ~AtReconcile(run[p]), a # 0
        PROVE  NoGhostsAt(a, u)'
    <3>1. NoGhostsAt(a, u)
        BY <2>2 DEF Unghosted, Clean, Honesty
    <3> QED BY <1>1, <3>1 DEF NoGhostsAt, Excusing
  <2>3. a # 0 /\ (\A p \in Procs : ~AtReconcile(run'[p])) => NoGhostsAt(a, u)'
      BY <2>1, <2>2
  <2> QED BY <1>1, <2>3 DEF Unghosted, NoGhostsAt, Recorded, AtReconcile
<1>7. ASSUME NEW r, RunHonest(r) PROVE RunHonest(r)'
  <2> PICK b, t : b = r.base /\ t = r.pin
      OBVIOUS
  <2>1. /\ HonestAt(t) => HonestAt(t)'
        /\ NoGhostsAt(t, 0) => NoGhostsAt(t, 0)'
      BY <1>1 DEF HonestAt, NoGhostsAt, Excusing
  <2>2. Importing(r) => Importing(r)'
    <3>1. /\ Manifest(Tree(b), Tree(t))' = Manifest(Tree(b), Tree(t))
          /\ Targets(b, t)' = Targets(b, t)
          /\ \A q : Changed(b, t, q)' = Changed(b, t, q)
        BY <1>1, ManifestStays
    <3>2. NoGhostsAt(b, t) => NoGhostsAt(b, t)'
        BY <1>1 DEF NoGhostsAt, Excusing
    <3> QED BY <1>1, <1>4, <3>1, <3>2 DEF Importing, Pinning
  <2>3. (Covers(r, b) => Covers(r, b)') /\ (Covers(r, t) => Covers(r, t)')
      BY <1>1 DEF Covers
  <2> QED BY <1>1, <1>7, <2>1, <2>2, <2>3 DEF RunHonest, Excusing
<1>8. ASSUME NEW p \in Procs PROVE RunHonest(run[p])'
  <2> PICK r : r = run'[p]
      OBVIOUS
  <2>1. r = run[p] \/ r = Idle
      OBVIOUS
  <2>2. RunHonest(r)'
      BY <1>7, <2>1, OverHonest DEF Clean, Honesty
  <2> QED BY <2>2 DEF RunHonest, Importing, Pinning, Covers, HonestAt, NoGhostsAt, Done, Settled,
                      SourceGone, Recorded, Targets, Changed
<1> QED BY <1>1, <1>2, <1>3, <1>5, <1>6, <1>8 DEF Clean, Honesty

----------------------------------------------------------------------------
(* The theorems of the second invariant.                                   *)

\* The initial states satisfy it.
LEMMA InitHonest == Init => Honesty
<1> SUFFICES ASSUME Init PROVE Honesty
    OBVIOUS
<1>1. /\ tree = << [q \in Paths |-> IF q \in First THEN 1 ELSE 0] >> /\ bad = {}
      /\ anchor = 0 /\ fullDone = {} /\ ckpt = [c \in Commits |-> NoCheckpoint]
      /\ run = [p \in Procs |-> Idle]
    BY DEF Init
<1>2. /\ Known = {1} /\ \A q \in Paths : tree[1][q] = IF q \in First THEN 1 ELSE 0
    BY <1>1 DEF Known
<1>3. NotOlder /\ Unreturned
    BY <1>1, <1>2 DEF NotOlder, Unreturned
<1>5. CkptHonest
  <2>1. \A c \in Commits : c # 0
      BY DEF Commits
  <2> QED BY <1>1, <2>1 DEF CkptHonest
<1>6. \A p \in Procs : RunHonest(run[p])
    BY <1>1, OverHonest
<1> QED BY <1>1, <1>3, <1>5, <1>6 DEF Honesty, History, BookmarkHonest, Unghosted

\* A run's step keeps it.
LEMMA WorkHonest ==
    ASSUME Clean, NEW p \in Procs, Work(p)
    PROVE  Honesty'
<1>1. ASSUME ReleaseRun(p) PROVE Honesty'
  <2>1. \A o \in Procs : run'[o] = IF o = p THEN Idle ELSE run[o]
      BY <1>1 DEF ReleaseRun, Set, Clean, Inv, SyncInv, RunInv
  <2>2. ~AtReconcile(run[p])
      BY <1>1 DEF ReleaseRun, AtReconcile
  <2>3. UNCHANGED <<gitVars, storeVars>> /\ Excusing
      BY <1>1 DEF ReleaseRun, auxVars, Excusing
  <2> QED BY <2>1, <2>2, <2>3, LockStepHonest
<1> QED BY <1>1, BeginFullHonest, ListFullHonest, BeginHonest, SavePinHonest, GateHonest, AdvanceHonest,
           FinishHonest, GateFullHonest, ReconcileHonest, DeletePageHonest, ImportRenamedHonest,
           ImportOnePathHonest, ImportFullHonest, MoveSlugHonest DEF Work

\* Every step keeps it.
LEMMA NextHonest == HInv /\ [Next]_vars => HInv'
<1> SUFFICES ASSUME HInv, [Next]_vars PROVE HInv'
    OBVIOUS
<1>1. Inv' /\ ~FullSaves
    BY NextInv DEF HInv
<1> SUFFICES ASSUME Orderly' PROVE Honesty'
    BY <1>1 DEF HInv
<1>2. Clean
    BY OrderBefore DEF HInv, Clean
<1>3. CASE UNCHANGED vars
  <2>1. UNCHANGED <<gitVars, storeVars, run>> /\ Excusing
      BY <1>3 DEF vars, syncVars, auxVars, Excusing
  <2> QED BY <1>2, <2>1, LockStepHonest
<1>4. CASE Git
    BY <1>2, <1>4, GitHonest
<1>5. CASE LockStep /\ Keep
  <2>1. UNCHANGED <<gitVars, storeVars, run>> /\ Excusing
      BY <1>5 DEF Keep, syncVars, auxVars, Excusing
  <2> QED BY <1>2, <2>1, LockStepHonest
<1>6. ASSUME NEW p \in Procs, Work(p) PROVE Honesty'
    BY <1>2, <1>6, WorkHonest
<1>7. ASSUME NEW p \in Procs, Partial(p) PROVE Honesty'
    BY <1>2, <1>7, PartialHonest
<1>8. ASSUME NEW p \in Procs, ExitRun(p) PROVE Honesty'
  <2>1. \A o \in Procs : run'[o] = IF o = p THEN Idle ELSE run[o]
      BY <1>8 DEF ExitRun, Set, HInv, Inv, SyncInv, RunInv
  <2>2. AtReconcile(run[p]) => Unfiled(run[p].pin) \subseteq leftover'
      BY <1>8 DEF ExitRun, Advanced, AtReconcile
  <2>3. UNCHANGED <<gitVars, storeVars>> /\ Excusing
      BY <1>8 DEF ExitRun, Excusing
  <2> QED BY <1>2, <2>1, <2>2, <2>3, LockStepHonest
<1>9. ASSUME NEW p \in Procs, TerminateRun(p) PROVE FALSE
  <2>1. signals' = signals + 1 /\ signals \in Nat
      BY <1>9, LockAssumption DEF TerminateRun, Terminate, HInv, Inv, LockInv, LockTypeOK
  <2> QED BY <2>1 DEF Orderly, InTurn
<1>10. ASSUME NEW p \in Procs, BeginBlind(p) \/ BeginFallback(p) PROVE Honesty'
    BY <1>2, <1>10, BeginBlindHonest, BeginFallbackHonest
<1> QED BY <1>3, <1>4, <1>5, <1>6, <1>7, <1>8, <1>9, <1>10 DEF Next

\* What it says of the bookmark, of the pages of no file and of the checkpoint.
LEMMA HonestyShown == HInv => BookmarkIsHonest /\ NoGhosts /\ CheckpointIsHonest
<1> SUFFICES ASSUME HInv, Orderly, anchor # 0
             PROVE  BookmarkIsHonest /\ NoGhosts /\ CheckpointIsHonest
    BY DEF BookmarkIsHonest, NoGhosts, CheckpointIsHonest
<1>1. Clean
    BY DEF HInv, Clean
<1>2. BookmarkIsHonest
    BY <1>1 DEF BookmarkIsHonest, Honest, Accounted, Clean, Honesty, BookmarkHonest, HonestAt
<1>3. NoGhosts
    BY <1>1 DEF NoGhosts, Clean, Honesty, Unghosted, NoGhostsAt, AtReconcile, Advanced
<1>4. CheckpointIsHonest
  <2> SUFFICES ASSUME ckpt[anchor].target # 0, NEW q \in ckpt[anchor].paths
               PROVE  LET t == Tree(ckpt[anchor].target) IN
                      \/ page[q] = t[q] \/ Live[q] # t[q]
                      \/ q \in (IF t[q] = 0 THEN leftover ELSE missed)
      BY DEF CheckpointIsHonest
  <2>1. anchor \in Commits
      BY <1>1, Reached
  <2>2. Settled(ckpt[anchor].target, q)
      BY <1>1, <2>1 DEF Clean, Honesty, CkptHonest, Done
  <2> QED BY <2>2 DEF Settled
<1> QED BY <1>2, <1>3, <1>4

\* So the second invariant holds of the sync, for full imports too small to save a checkpoint.
LEMMA SpecHonest == ~FullSaves => (Spec => []HInv)
<1>1. ~FullSaves /\ Init => HInv
    BY InitInv, InitHonest DEF HInv
<1> QED BY <1>1, NextHonest, PTL DEF Spec

\* sync.ts:2118 and :2718: whatever is committed beside the runs, and wherever runs fail, die
\* and resume, the bookmark never passes a file that is neither indexed nor in the next diff
\* nor in the ledger, but for the paths whose failure the code swallows.
THEOREM BookmarkStaysHonest == ~FullSaves => (Spec => []BookmarkIsHonest)
    BY SpecHonest, HonestyShown, PTL

\* sync.ts:2310 and the reconcile of a full sync: a page whose file the bookmark's tree has
\* not is about to get one, or its delete is in the ledger, but for those left over.
THEOREM PagesHaveFiles == ~FullSaves => (Spec => []NoGhosts)
    BY SpecHonest, HonestyShown, PTL

\* sync.ts:1737: a path the checkpoint lists as done is indexed as the pinned commit has it,
\* unless the work tree has moved on or it is one of those excused.
THEOREM CheckpointStaysHonest == ~FullSaves => (Spec => []CheckpointIsHonest)
    BY SpecHonest, HonestyShown, PTL
=============================================================================
