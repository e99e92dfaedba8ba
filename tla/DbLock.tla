------------------------------- MODULE DbLock -------------------------------
(***************************************************************************)
(* The row lock of gbrain (core/db-lock.ts) under which the syncs of one   *)
(* source run: one row of gbrain_cycle_locks with its holder's pid and     *)
(* host.  A holder refreshes the row while it works; an acquirer takes the *)
(* row over once it has lapsed, and at once (after a grace period) when    *)
(* the holder is a dead process of the acquirer's own host.                *)
(*                                                                         *)
(* Time is two flags of the row: young, acquired less than the takeover    *)
(* grace ago, and lapsed, past its TTL and not refreshed within the steal  *)
(* grace.  A row lapses when nobody refreshes it: its holder is dead, or   *)
(* stalls, its timers starved or its database out of reach.                *)
(***************************************************************************)
EXTENDS Naturals

CONSTANTS Procs, Pids, Hosts,
          PidOf,        \* the process id of each process, as its own host sees it
          HostOf,
          NoRow,
          MaxStalls,    \* bound: rows that lapse under a live holder
          MaxSignals    \* bound: processes told to terminate while they work

\* No two processes have one pid: one host, or pids that happen to differ between hosts, and
\* none used again.  All but the takeover of the lock tells holders apart by pid alone.
ASSUME UniquePids == \A p, q \in Procs : PidOf[p] = PidOf[q] => p = q

ASSUME LockAssumption ==
    /\ PidOf \in [Procs -> Pids] /\ HostOf \in [Procs -> Hosts]
    /\ NoRow \notin [pid: Pids, host: Hosts, young: BOOLEAN, lapsed: BOOLEAN]
    /\ MaxStalls \in Nat /\ MaxSignals \in Nat

VARIABLES row,        \* the row of gbrain_cycle_locks, or NoRow
          phase,      \* what each process does about the lock
          victim,     \* the holder's pid a process read before it breaks the lock
          stalls, signals

lockVars == <<row, phase, victim, stalls, signals>>

Row == [pid: Pids, host: Hosts, young: BOOLEAN, lapsed: BOOLEAN]

\* "out": not holding; "breaking": it found the holder dead and is about to delete its row;
\* "in": withRefreshingLock runs the work; "leaving": told to terminate, its cleanup has
\* been at the row and the work goes on until the process exits; "dead".
Phases == {"out", "breaking", "in", "leaving", "dead"}

LockTypeOK == /\ row \in Row \cup {NoRow}
              /\ phase \in [Procs -> Phases]
              /\ victim \in [Procs -> Pids]
              /\ stalls \in 0..MaxStalls /\ signals \in 0..MaxSignals

LockInit == /\ row = NoRow
            /\ phase = [p \in Procs |-> "out"]
            /\ victim = PidOf
            /\ stalls = 0 /\ signals = 0

----------------------------------------------------------------------------
\* The probe of classifyHolderLiveness, kill(pid, 0) on the acquirer's own host.
AliveHere(pid, host) ==
    \E q \in Procs : PidOf[q] = pid /\ HostOf[q] = host /\ phase[q] # "dead"

\* Whoever holds the lock on this host counts as dead.
IsHolderLocal(p) == row.host = HostOf[p]

IsHolderDeadLocally(p) == /\ row.host = HostOf[p]
                          /\ ~AliveHere(row.pid, row.host)
                          /\ ~row.young

\* The upsert without its WHERE.
AcquireAnyway(p) ==
    /\ phase[p] = "out"
    /\ row' = [pid |-> PidOf[p], host |-> HostOf[p], young |-> TRUE, lapsed |-> FALSE]
    /\ phase' = [phase EXCEPT ![p] = "in"]
    /\ UNCHANGED <<victim, stalls, signals>>

\* acquireOnce: the INSERT .. ON CONFLICT DO UPDATE of tryAcquireDbLock.
Acquire(p) ==
    /\ phase[p] = "out"
    /\ row = NoRow \/ (row # NoRow /\ row.lapsed)
    /\ row' = [pid |-> PidOf[p], host |-> HostOf[p], young |-> TRUE, lapsed |-> FALSE]
    /\ phase' = [phase EXCEPT ![p] = "in"]
    /\ UNCHANGED <<victim, stalls, signals>>

\* The row is held: inspectLock, and the holder turns out to be dead on this host.
FindDead(p) ==
    /\ phase[p] = "out"
    /\ row # NoRow /\ ~row.lapsed /\ IsHolderDeadLocally(p)
    /\ phase' = [phase EXCEPT ![p] = "breaking"]
    /\ victim' = [victim EXCEPT ![p] = row.pid]
    /\ UNCHANGED <<row, stalls, signals>>

\* deleteLockRow deletes by pid; the second acquireOnce is an Acquire like any other.
DeleteLockRow(p) ==
    /\ phase[p] = "breaking"
    /\ row' = IF row # NoRow /\ row.pid = victim[p] THEN NoRow ELSE row
    /\ phase' = [phase EXCEPT ![p] = "out"]
    /\ UNCHANGED <<victim, stalls, signals>>

\* The row a process deletes by id and pid when its work is over or it is told to stop.
RowWithout(p) == IF row # NoRow /\ row.pid = PidOf[p] THEN NoRow ELSE row

\* The finally of withRefreshingLock, which swallows that the delete fails.
Release(p) ==
    /\ phase[p] = "in"
    /\ row' \in {row, RowWithout(p)}
    /\ phase' = [phase EXCEPT ![p] = "out"]
    /\ UNCHANGED <<victim, stalls, signals>>

\* The tick of withRefreshingLock reaches the database again after a stall.
Refresh(p) ==
    /\ phase[p] = "in"
    /\ row # NoRow /\ row.pid = PidOf[p] /\ row.lapsed
    /\ row' = [row EXCEPT !.lapsed = FALSE]
    /\ UNCHANGED <<phase, victim, stalls, signals>>

\* SIGTERM: runCleanupPass runs the cleanups of the registry, the lock's among them, beside
\* the work, and exits the process when they are through, have failed, or took too long.
Terminate(p) ==
    /\ phase[p] = "in" /\ signals < MaxSignals
    /\ signals' = signals + 1
    /\ row' \in {row, RowWithout(p)}
    /\ phase' = [phase EXCEPT ![p] = "leaving"]
    /\ UNCHANGED <<victim, stalls>>

\* The process is gone, killed or through with its cleanup.
Exit(p) ==
    /\ phase[p] # "dead"
    /\ phase' = [phase EXCEPT ![p] = "dead"]
    /\ UNCHANGED <<row, victim, stalls, signals>>

\* Time passes: the takeover grace (looked at once the holder is dead), the TTL.
GrowOld == /\ row # NoRow /\ row.young /\ ~AliveHere(row.pid, row.host)
           /\ row' = [row EXCEPT !.young = FALSE]
           /\ UNCHANGED <<phase, victim, stalls, signals>>

Refreshed == row # NoRow /\ \E q \in Procs : phase[q] = "in" /\ PidOf[q] = row.pid

Lapse == /\ row # NoRow /\ ~row.lapsed
         /\ IF Refreshed
            THEN stalls < MaxStalls /\ stalls' = stalls + 1
            ELSE UNCHANGED stalls
         /\ row' = [row EXCEPT !.lapsed = TRUE, !.young = FALSE]
         /\ UNCHANGED <<phase, victim, signals>>

\* reapDeadHolderLocks, which deletes by id, pid and acquired_at what it has read: one step.
Reap(p) == /\ phase[p] = "out"
           /\ row # NoRow /\ IsHolderDeadLocally(p)
           /\ row' = NoRow
           /\ UNCHANGED <<phase, victim, stalls, signals>>

LockNext == \/ \E p \in Procs : \/ Acquire(p) \/ FindDead(p) \/ DeleteLockRow(p)
                                \/ Release(p) \/ Refresh(p) \/ Terminate(p) \/ Exit(p)
                                \/ Reap(p)
            \/ GrowOld \/ Lapse

LockSpec == LockInit /\ [][LockNext]_lockVars

----------------------------------------------------------------------------
\* performSync, sync.ts:1136: "cross-process writer lock prevents two concurrent syncs from
\* racing on the same last_commit anchor".  Two processes are inside at once only after a
\* holder has stalled for a TTL or was told to terminate in the middle of its work.
Working(p) == phase[p] \in {"in", "leaving"}
OneSyncAtATime ==
    stalls = 0 /\ signals = 0 => \A p, q \in Procs : Working(p) /\ Working(q) => p = q
=============================================================================
