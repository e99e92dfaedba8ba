--------------------------- MODULE MinionWorkerProofs ---------------------------
(***************************************************************************)
(* Proofs about the Minion queue and its workers: for any tree of jobs,    *)
(* any policies and any number of claims, sweeps and commands, a row ends  *)
(* in the name of its latest run alone, what has ended stays ended, every  *)
(* ending that is not silent reaches the inbox of a live parent, and the   *)
(* parent of the last child is woken.                                      *)
(***************************************************************************)
EXTENDS MinionWorker, TLAPS

----------------------------------------------------------------------------
(* The inductive invariant.                                                *)

\* The lock token of a row is the last claim of its job.
TokensOrdered ==
    /\ \A t \in Tokens : /\ run[t].pc # "free" => run[t].job \in Jobs
                         /\ run[t].job # NoJob => t <= claims
    /\ \A j \in Jobs : /\ job[j].token <= claims
                       /\ job[j].status = "absent" => job[j].token = 0
    /\ \A j \in Jobs, t \in Tokens :
          run[t].job = j /\ job[j].token # 0 => t <= job[j].token

\* A row has the parent it was submitted with, which is there, or none; and
\* an ended row says how it ended.
Links ==
    \A j \in Jobs :
        /\ job[j].parent \in {ParentOf[j], NoJob}
        /\ job[j].parent # NoJob => job[job[j].parent].status # "absent"
        /\ IF job[j].status = "absent"
           THEN job[j].parent = NoJob /\ job[j].end = "none" ELSE j \in submitted
        /\ job[j].status \in Terminal => job[j].end # "none"

\* The rows of an open transaction, which the others wait for, are as it
\* found them, and belong to it alone.
OpenRows ==
    /\ \A x \in open : /\ \A j \in x.rows : job[j].status \in Cancellable
                       /\ \A j \in x.woken : job[j].status = "waiting-children"
                       /\ x.rows \cap x.woken = {}
    /\ \A x, y \in open : x # y => (x.rows \cup x.woken) \cap (y.rows \cup y.woken) = {}

\* A notified transaction has told the live parents of its rows that it does
\* not end too: another parent had ended, and was at most restarted since.
ParentsTold ==
    \A x \in open : x.step = "notified" =>
        \A c \in x.rows : \/ job[c].parent \in x.told \cup x.rows \cup {NoJob}
                          \/ Restarted(job[c].parent)

\* What accounts for a parent p a transaction of the rows S has not woken.
Excused(p, S) ==
    \/ \E d \in ChildrenOf(p) \ S : \/ Alive(job, d)
                                    \/ job[d].end \in Silent \cup {"timeout", "cancelled"}
    \/ commands > 0 /\ \E d \in submitted : ParentOf[d] = p /\ job[d].status = "absent"
    \/ Restarted(p)
ParentsExcused ==
    \A x \in open : x.step = "notified" =>
        \A c \in x.rows :
            LET p == job[c].parent IN
            p # NoJob /\ p \notin x.rows \cup x.woken /\ job[p].status = "waiting-children"
                => Excused(p, x.rows)

IInv == /\ TypeOK /\ TokensOrdered /\ Links /\ OpenRows
        /\ ParentsTold /\ ParentsExcused /\ LastChildWakesParent

----------------------------------------------------------------------------
(* What a step does to the rows, as far as the waiting parents go.         *)

\* The step looked at p with its row locked, and did not leave it stranded.
Settled(p) ==
    /\ ~Locked(p) /\ ~Shared(p)
    /\ ~(job'[p].status = "waiting-children" /\ LiveChildren(job', p) = {})

\* What may become of a child c of p, but for the commit of its own sweep.
ChildStep(c, p) ==
    \/ Settled(p)
    \/ /\ job'[c].parent = p
       /\ \/ Alive(job', c)
          \/ job'[c].end \in Silent
          \/ ~Alive(job, c) /\ job'[c].end = job[c].end
    \/ ~Alive(job, c) /\ commands' > 0 /\ job'[c].status = "absent"

SweptAway(c, p) ==
    /\ job'[c].parent = p /\ job'[c].end \in {"timeout", "cancelled"}
    /\ \A y \in open' : c \notin y.rows

RowsKept ==
    /\ job' \in [Jobs -> Row] /\ Links'
    /\ open' \subseteq open
    /\ submitted \subseteq submitted' /\ commands' \in Nat /\ commands' >= commands
    /\ \A x \in open' : \A j \in x.rows \cup x.woken : job'[j] = job[j]
    /\ \A j \in submitted : job[j].status = "absent" => job'[j].status = "absent"
    /\ \A p \in Jobs :
         /\ job'[p].status = "waiting-children" => job[p].status = "waiting-children" \/ Settled(p)
         /\ Restarted(p) => job'[p].end # "none" \/ job'[p].status = "absent"

LEMMA StatusFacts ==
    /\ Terminal \cap Cancellable = {} /\ "absent" \notin Terminal \cup Cancellable
    /\ "waiting-children" \in Cancellable
    /\ \A rows, c : c # NoJob => (Alive(rows, c) <=> rows[c].status \notin Terminal \cup {"absent"})
BY DEF Terminal, Cancellable, Alive

\* Such a step leaves the open transactions what they rely on.
LEMMA TransactionsKept ==
    ASSUME IInv, RowsKept,
           \A c \in Jobs : job[c].parent # NoJob =>
               ChildStep(c, job[c].parent) \/ SweptAway(c, job[c].parent)
    PROVE  OpenRows' /\ ParentsTold' /\ ParentsExcused'
<1> USE QueueAssumption
<1>j. job \in [Jobs -> Row] /\ job' \in [Jobs -> Row] /\ open \subseteq Transaction
      /\ submitted \subseteq Jobs /\ commands \in Nat /\ commands' \in Nat
      /\ open' \subseteq open /\ Links /\ Links'
  BY WorkerAssumption DEF IInv, TypeOK, RowsKept
<1>x. \A x \in open' : /\ x \in open /\ x.rows \subseteq Jobs /\ x.woken \subseteq Jobs
                       /\ x.told \subseteq Jobs
                       /\ \A j \in x.rows \cup x.woken : job'[j] = job[j]
  BY <1>j DEF Transaction, RowsKept
<1>1. OpenRows'
  <2>1. OpenRows
    BY DEF IInv
  <2>2. \A x \in open' : /\ \A j \in x.rows : job'[j].status \in Cancellable
                         /\ \A j \in x.woken : job'[j].status = "waiting-children"
                         /\ x.rows \cap x.woken = {}
    BY <2>1, <1>x DEF OpenRows
  <2>3. \A x, y \in open' : x # y => (x.rows \cup x.woken) \cap (y.rows \cup y.woken) = {}
    BY <2>1, <1>x DEF OpenRows
  <2> QED BY <2>2, <2>3 DEF OpenRows
<1>k. ASSUME NEW c \in Jobs, job'[c].parent # NoJob
      PROVE  job'[c].parent \in Jobs /\ job'[job'[c].parent].status # "absent"
  BY <1>j, <1>k DEF Row, Links
<1>r. ASSUME NEW p \in Jobs, Restarted(p), job'[p].status # "absent" PROVE job'[p].end # "none"
  BY <1>r DEF RowsKept
<1>2. ASSUME NEW x \in open', x.step = "notified", NEW c \in x.rows
      PROVE  \/ job'[c].parent \in x.told \cup x.rows \cup {NoJob}
             \/ job'[job'[c].parent].end # "none"
  <2>1. x \in open /\ c \in Jobs /\ job'[c] = job[c]
    BY <1>x
  <2>2. job[c].parent \in x.told \cup x.rows \cup {NoJob} \/ Restarted(job[c].parent)
    BY <2>1, <1>2 DEF IInv, ParentsTold
  <2> QED BY <2>1, <2>2, <1>k, <1>r
<1>3. ASSUME NEW x \in open', x.step = "notified", NEW c \in x.rows, NEW p \in Jobs,
             p = job'[c].parent, p \notin x.rows \cup x.woken,
             job'[p].status = "waiting-children"
      PROVE  Excused(p, x.rows)'
  <2>1. x \in open /\ c \in Jobs /\ job'[c] = job[c] /\ p # NoJob
    BY <1>x, <1>3
  <2>2. CASE Restarted(p)
    BY <2>2, <1>r, <1>3 DEF Excused, Restarted
  <2>3. CASE Settled(p)
    <3>1. p \notin x.told
      BY <2>1, <2>3 DEF Settled, Shared
    <3>2. Restarted(p)
      BY <3>1, <2>1, <1>3 DEF IInv, ParentsTold
    <3> QED BY <3>2, <2>2
  <2>4. CASE ~Settled(p) /\ ~Restarted(p)
    <3>1. job[p].status = "waiting-children"
      BY <2>4, <1>3 DEF RowsKept
    <3>2. Excused(p, x.rows)
      BY <3>1, <2>1, <1>3 DEF IInv, ParentsExcused
    <3>3. CASE commands > 0 /\ \E d \in submitted : ParentOf[d] = p /\ job[d].status = "absent"
      <4>1. commands' > 0
        BY <3>3, <1>j DEF RowsKept
      <4>2. \E d \in submitted' : ParentOf[d] = p /\ job'[d].status = "absent"
        BY <3>3 DEF RowsKept
      <4> QED BY <4>1, <4>2 DEF Excused
    <3>4. CASE \E d \in ChildrenOf(p) \ x.rows :
                   Alive(job, d) \/ job[d].end \in Silent \cup {"timeout", "cancelled"}
      <4>1. PICK d \in ChildrenOf(p) \ x.rows :
                   Alive(job, d) \/ job[d].end \in Silent \cup {"timeout", "cancelled"}
        BY <3>4
      <4>2. d \in Jobs /\ job[d].parent = p /\ d \notin x.rows
        BY <4>1 DEF ChildrenOf
      <4>3. ChildStep(d, p) \/ SweptAway(d, p)
        BY <4>2, <2>1
      <4>4. CASE job'[d].parent = p
        <5>1. Alive(job', d) \/ job'[d].end \in Silent \cup {"timeout", "cancelled"}
          <6>1. job'[d].status # "absent"
            BY <4>4, <4>2, <2>1, <1>j DEF Links
          <6>2. ~(~Alive(job, d) /\ commands' > 0 /\ job'[d].status = "absent")
            BY <6>1
          <6> QED BY <4>3, <4>4, <4>1, <2>4, <6>2 DEF ChildStep, SweptAway
        <5> QED BY <5>1, <4>4, <4>2 DEF Excused, ChildrenOf, Alive
      <4>5. CASE commands' > 0 /\ job'[d].status = "absent"
        <5>1. d \in submitted /\ ParentOf[d] = p
          BY <4>2, <2>1, <1>j DEF Links
        <5> QED BY <5>1, <4>5 DEF Excused, RowsKept
      <4> QED BY <4>3, <4>4, <4>5, <2>4 DEF ChildStep, SweptAway
    <3> QED BY <3>2, <3>3, <3>4, <2>4 DEF Excused
  <2> QED BY <2>2, <2>3, <2>4
<1>4. ParentsTold'
  BY <1>2 DEF ParentsTold, Restarted
<1>5. ParentsExcused'
  <2> SUFFICES ASSUME NEW x \in open', x.step = "notified", NEW c \in x.rows,
                      job'[c].parent # NoJob, job'[c].parent \notin x.rows \cup x.woken,
                      job'[job'[c].parent].status = "waiting-children"
               PROVE  Excused(job[c].parent, x.rows)'
    BY DEF ParentsExcused
  <2>1. job'[c].parent \in Jobs
    BY <1>k, <1>x
  <2>2. \A p \in Jobs : p = job'[c].parent => Excused(p, x.rows)'
    BY <1>3
  <2> QED BY <2>1, <2>2 DEF Excused, ChildrenOf, Restarted
<1> QED BY <1>1, <1>4, <1>5

\* And where no sweep commits, no waiting parent loses its last child unseen.
LEMMA WokenKept ==
    ASSUME IInv, RowsKept,
           \A c \in Jobs : job[c].parent # NoJob => ChildStep(c, job[c].parent)
    PROVE  LastChildWakesParent'
<1> USE QueueAssumption
<1>j. job \in [Jobs -> Row] /\ job' \in [Jobs -> Row] /\ Links /\ Links'
      /\ submitted \subseteq Jobs /\ commands \in Nat /\ commands' \in Nat
  BY WorkerAssumption DEF IInv, TypeOK, RowsKept
<1> SUFFICES ASSUME NEW p \in Jobs, Stranded(p)', ~Unnotified(p)' PROVE FALSE
  BY DEF LastChildWakesParent
<1>1. p # NoJob /\ ~Settled(p) /\ job[p].status = "waiting-children"
      /\ job'[p].status = "waiting-children" /\ LiveChildren(job', p) = {}
  BY DEF Stranded, Settled, RowsKept
<1>2. ASSUME NEW c \in ChildrenOf(p)
      PROVE  ~Alive(job, c) /\ c \in Jobs /\ job'[c].parent = p /\ job'[c].end = job[c].end
  <2>1. c \in Jobs /\ job[c].parent = p
    BY <1>2 DEF ChildrenOf
  <2>2. ChildStep(c, p)
    BY <2>1, <1>1
  <2>3. c \in submitted /\ ParentOf[c] = p
    BY <2>1, <1>1, <1>j DEF Links
  <2>4. ~(commands' > 0 /\ job'[c].status = "absent")
    BY <2>3 DEF Unnotified, RowsKept
  <2>5. job'[c].parent = p
    BY <2>2, <2>4, <1>1 DEF ChildStep
  <2>6. ~Alive(job', c)
    BY <2>5, <2>1, <1>1 DEF LiveChildren
  <2>7. job'[c].end \notin Silent
    BY <2>5, <2>1 DEF Unnotified, ChildrenOf
  <2> QED BY <2>1, <2>2, <2>4, <2>5, <2>6, <2>7, <1>1 DEF ChildStep
<1>3. LiveChildren(job, p) = {}
  BY <1>2 DEF LiveChildren, ChildrenOf
<1>4. Unnotified(p)
  BY <1>3, <1>1 DEF IInv, LastChildWakesParent, Stranded
<1>5. CASE \E c \in ChildrenOf(p) : job[c].end \in Silent
  BY <1>5, <1>2 DEF Unnotified, ChildrenOf
<1>6. CASE commands > 0 /\ \E c \in submitted : ParentOf[c] = p /\ job[c].status = "absent"
  <2>1. commands' > 0
    BY <1>6, <1>j DEF RowsKept
  <2> QED BY <2>1, <1>6 DEF Unnotified, RowsKept
<1>7. CASE \E c, d \in Swept(p) : c # d \/ Restarted(p)
  <2>1. PICK c \in Swept(p), d \in Swept(p) : c # d \/ Restarted(p)
    BY <1>7
  <2>2. c \in ChildrenOf(p) /\ d \in ChildrenOf(p)
    BY DEF Swept
  <2>3. c \in Swept(p)' /\ d \in Swept(p)'
    BY <2>2, <1>2 DEF Swept, ChildrenOf
  <2>4. c # d \/ Restarted(p)'
    BY <2>1, <1>1 DEF RowsKept, Restarted
  <2> QED BY <2>3, <2>4 DEF Unnotified
<1> QED BY <1>4, <1>5, <1>6, <1>7 DEF Unnotified

----------------------------------------------------------------------------
(* Steps that change rows one by one.                                      *)

\* What the statement of a single row may do to it.
RowChange(old, new) ==
    /\ new \in Row /\ new.parent = old.parent
    /\ old.status # "absent" /\ new.status # "absent"
    /\ new.status = "waiting-children" => old.status = "waiting-children"
    /\ old.end # "none" \/ new.status \in Terminal => new.end # "none"
    /\ \/ new.status \notin Terminal
       \/ new.end \in Silent
       \/ old.status \in Terminal /\ new.end = old.end

LEMMA RowsStepKeeps ==
    ASSUME IInv, open' = open, submitted' = submitted,
           commands' \in Nat, commands' >= commands, job' \in [Jobs -> Row],
           \A j \in Jobs : job'[j] = job[j] \/ (~Locked(j) /\ RowChange(job[j], job'[j]))
    PROVE  /\ RowsKept
           /\ \A c \in Jobs : job[c].parent # NoJob => ChildStep(c, job[c].parent)
<1> USE QueueAssumption
<1>j. job \in [Jobs -> Row] /\ job' \in [Jobs -> Row] /\ Links /\ open \subseteq Transaction
  BY DEF IInv, TypeOK
<1>1. \A j \in Jobs : /\ job'[j].parent = job[j].parent
                      /\ job'[j].status = "absent" <=> job[j].status = "absent"
                      /\ job[j].parent # NoJob => job[j].parent \in Jobs
  BY <1>j DEF RowChange, Row
<1>2. Links'
  <2> SUFFICES ASSUME NEW j \in Jobs
               PROVE  /\ job'[j].parent \in {ParentOf[j], NoJob}
                      /\ job'[j].parent # NoJob => job'[job'[j].parent].status # "absent"
                      /\ IF job'[j].status = "absent"
                         THEN job'[j].parent = NoJob /\ job'[j].end = "none" ELSE j \in submitted'
                      /\ job'[j].status \in Terminal => job'[j].end # "none"
    BY DEF Links
  <2>1. job'[j].status \in Terminal => job'[j].end # "none"
    BY <1>j DEF Links, RowChange
  <2>2. job'[j].status = "absent" => job'[j] = job[j]
    BY DEF RowChange
  <2> QED BY <2>1, <2>2, <1>1, <1>j DEF Links
<1>3. \A x \in open' : \A j \in x.rows \cup x.woken : job'[j] = job[j]
  BY <1>j DEF Locked, Transaction
<1>4. ASSUME NEW p \in Jobs
      PROVE  /\ job'[p].status = "waiting-children" => job[p].status = "waiting-children"
             /\ Restarted(p) => job'[p].end # "none"
  BY DEF RowChange, Restarted
<1>5. RowsKept
  <2>1. submitted \subseteq Jobs
    BY DEF IInv, TypeOK
  <2> QED BY <1>1, <1>2, <1>3, <1>4, <2>1 DEF RowsKept
<1>6. ASSUME NEW c \in Jobs, job[c].parent # NoJob PROVE ChildStep(c, job[c].parent)
  <2>1. c # NoJob /\ job'[c].parent = job[c].parent /\ job'[c].status # "absent"
    BY <1>1, <1>6, <1>j DEF Links
  <2>2. \/ job'[c] = job[c]
        \/ job'[c].status \notin Terminal
        \/ job'[c].end \in Silent
        \/ job[c].status \in Terminal /\ job'[c].end = job[c].end
    BY DEF RowChange
  <2> QED BY <2>1, <2>2 DEF ChildStep, Alive
<1> QED BY <1>5, <1>6

----------------------------------------------------------------------------
(* Steps that end a row and look at its parent, or delete it.              *)

LEMMA DeletedFacts ==
    ASSUME NEW rows \in [Jobs -> Row], NEW gone \in SUBSET Jobs
    PROVE  /\ Deleted(rows, gone) \in [Jobs -> Row]
           /\ \A k \in gone : Deleted(rows, gone)[k] = Absent
           /\ \A k \in Jobs \ gone :
                 /\ rows[k].parent \in gone =>
                       Deleted(rows, gone)[k] = [rows[k] EXCEPT !.parent = NoJob]
                 /\ rows[k].parent \notin gone => Deleted(rows, gone)[k] = rows[k]
<1>1. Absent \in Row
  BY DEF Absent, Row, Statuses
<1>2. \A k \in Jobs : [rows[k] EXCEPT !.parent = NoJob] \in Row
  BY DEF Row
<1> QED BY <1>1, <1>2 DEF Deleted

\* The row of j has been ended, its parent resolved or failed with it (mid),
\* and the row is deleted where gone names it.
LEMMA EndingKeeps ==
    ASSUME IInv, open' = open, submitted' = submitted,
           commands' \in Nat, commands' >= commands,
           NEW j \in Jobs, NEW mid \in [Jobs -> Row], NEW gone \in SUBSET {j},
           job[j].status # "absent", ~Locked(j), gone = {} \/ CanDelete(j),
           \A k \in Jobs \ {j} :
              \/ mid[k] = job[k]
              \/ /\ k = job[j].parent /\ job[k].status = "waiting-children"
                 /\ mid[k].parent = job[k].parent
                 /\ \/ mid[k].status = "waiting" /\ mid[k].end = job[k].end
                    \/ mid[k].status = "failed" /\ mid[k].end = "cascaded",
           mid[j].parent \in {job[j].parent, NoJob},
           mid[j].status \in Terminal /\ mid[j].end # "none",
           \/ /\ CanLockParent(j)
              /\ job[j].parent # NoJob =>
                    ~(mid[job[j].parent].status = "waiting-children" /\ LiveChildren(mid, job[j].parent) = {})
           \/ job[j].status \in Terminal /\ gone = {j} /\ commands' > 0 /\ mid = job,
           job' = Deleted(mid, gone)
    PROVE  /\ RowsKept
           /\ \A c \in Jobs : job[c].parent # NoJob => ChildStep(c, job[c].parent)
<1> USE QueueAssumption
<1> DEFINE p0 == job[j].parent
<1>j. job \in [Jobs -> Row] /\ Links /\ open \subseteq Transaction /\ submitted \subseteq Jobs
  BY DEF IInv, TypeOK
<1>d. /\ job' \in [Jobs -> Row]
      /\ \A k \in gone : job'[k] = Absent
      /\ \A k \in Jobs \ gone :
            /\ mid[k].parent \in gone => job'[k] = [mid[k] EXCEPT !.parent = NoJob]
            /\ mid[k].parent \notin gone => job'[k] = mid[k]
  BY DeletedFacts
<1>a. Absent.status = "absent" /\ Absent.parent = NoJob /\ Absent.end = "none"
  BY DEF Absent
<1>n. NoJob \notin Jobs /\ \A k \in Jobs : job[k].parent \in Jobs \cup {NoJob} /\ mid[k] \in Row
  BY <1>j DEF Row
<1>k. ASSUME NEW k \in Jobs \ gone
      PROVE  /\ job'[k].status = mid[k].status /\ job'[k].end = mid[k].end
             /\ job'[k].parent = IF mid[k].parent \in gone THEN NoJob ELSE mid[k].parent
  BY <1>d, <1>n DEF Row
<1>o. ASSUME NEW k \in Jobs \ {j}
      PROVE  /\ mid[k].parent = job[k].parent
             /\ mid[k].status = "absent" <=> job[k].status = "absent"
             /\ mid[k].status \in Terminal => mid[k].end # "none"
             /\ mid[k].status = "waiting-children" => job[k].status = "waiting-children"
             /\ job[k].end # "none" => mid[k].end # "none"
             /\ Alive(job, k) => Alive(mid, k) \/ mid[k].end \in Silent
             /\ ~Alive(job, k) => mid[k].end = job[k].end
  <2>1. job[k].status \in Terminal => job[k].end # "none"
    BY <1>j DEF Links
  <2> QED BY <2>1, <1>n DEF Terminal, Alive, Silent
<1>1. Links'
  <2> SUFFICES ASSUME NEW k \in Jobs
               PROVE  /\ job'[k].parent \in {ParentOf[k], NoJob}
                      /\ job'[k].parent # NoJob => job'[job'[k].parent].status # "absent"
                      /\ IF job'[k].status = "absent"
                         THEN job'[k].parent = NoJob /\ job'[k].end = "none" ELSE k \in submitted'
                      /\ job'[k].status \in Terminal => job'[k].end # "none"
    BY DEF Links
  <2>1. CASE k \in gone
    BY <2>1, <1>d, <1>a DEF Terminal
  <2>2. CASE k \notin gone
    <3>1. mid[k].parent \in {job[k].parent, NoJob}
      BY <1>o
    <3>2. job'[k].parent \in {job[k].parent, NoJob} /\ job'[k].parent \notin gone
      BY <3>1, <2>2, <1>k, <1>n
    <3>3. job'[k].parent \in {ParentOf[k], NoJob}
      BY <3>2, <1>j DEF Links
    <3>4. job'[k].parent # NoJob => job'[job'[k].parent].status # "absent"
      <4> SUFFICES ASSUME NEW q \in Jobs, q = job'[k].parent, q # NoJob
                   PROVE  job'[q].status # "absent"
        BY <3>2, <1>n
      <4>1. job[q].status # "absent"
        BY <3>2, <1>j DEF Links
      <4>2. mid[q].status # "absent"
        BY <4>1, <1>o DEF Terminal
      <4> QED BY <4>2, <3>2, <1>k
    <3>5. mid[k].status = "absent" <=> job[k].status = "absent"
      BY <1>o DEF Terminal
    <3>6. IF job'[k].status = "absent"
          THEN job'[k].parent = NoJob /\ job'[k].end = "none" ELSE k \in submitted'
      <4>1. mid[k].status = "absent" => mid[k].end = job[k].end
        BY <3>5, <1>n DEF Terminal
      <4> QED BY <4>1, <3>5, <2>2, <1>k, <3>2, <1>j DEF Links
    <3>7. job'[k].status \in Terminal => job'[k].end # "none"
      BY <2>2, <1>k, <1>o
    <3> QED BY <3>3, <3>4, <3>6, <3>7
  <2> QED BY <2>1, <2>2
<1>2. ASSUME NEW x \in open', NEW k \in x.rows \cup x.woken PROVE job'[k] = job[k]
  <2>1. x \in open /\ k \in Jobs /\ Locked(k) /\ k # j
    BY <1>2, <1>j DEF Locked, Transaction
  <2>2. job[k].parent \notin gone
    BY <2>1 DEF CanDelete
  <2>3. mid[k] = job[k]
    BY <2>1, <1>n DEF CanLockParent
  <2> QED BY <2>1, <2>2, <2>3, <1>d
<1>3. ASSUME NEW p \in Jobs
      PROVE  /\ job'[p].status = "waiting-children" => job[p].status = "waiting-children"
             /\ Restarted(p) => job'[p].end # "none" \/ job'[p].status = "absent"
             /\ job[p].status = "absent" => job'[p].status = "absent"
  <2>1. CASE p \in gone
    BY <2>1, <1>d, <1>a
  <2>2. CASE p = j /\ p \notin gone
    BY <2>2, <1>k DEF Terminal
  <2>3. CASE p # j
    BY <2>3, <1>k, <1>o DEF Restarted
  <2> QED BY <2>1, <2>2, <2>3
<1>4. RowsKept
  BY <1>d, <1>1, <1>2, <1>3, <1>j DEF RowsKept
<1>5. ASSUME NEW c \in Jobs, job[c].parent # NoJob PROVE ChildStep(c, job[c].parent)
  <2> DEFINE p == job[c].parent
  <2>0. p \in Jobs
    BY <1>5, <1>n
  <2>1. CASE c = j /\ CanLockParent(j)
                   /\ ~(mid[p].status = "waiting-children" /\ LiveChildren(mid, p) = {})
    <3>1. ~Locked(p) /\ ~Shared(p)
      BY <2>1, <1>5 DEF CanLockParent
    <3>2. ASSUME job'[p].status = "waiting-children" PROVE LiveChildren(job', p) # {}
      <4>1. p \notin gone /\ mid[p].status = "waiting-children"
        BY <3>2, <1>d, <1>a, <1>k, <2>0
      <4>2. PICK d \in Jobs : mid[d].parent = p /\ Alive(mid, d)
        BY <4>1, <2>1 DEF LiveChildren
      <4>3. d # j
        BY <4>2 DEF Alive
      <4>4. job'[d].parent = p /\ Alive(job', d)
        BY <4>1, <4>2, <4>3, <1>k DEF Alive
      <4> QED BY <4>4 DEF LiveChildren
    <3> QED BY <3>1, <3>2 DEF ChildStep, Settled
  <2>2. CASE c = j /\ job[j].status \in Terminal /\ gone = {j} /\ commands' > 0
    BY <2>2, <1>d, <1>a DEF ChildStep, Alive
  <2>3. CASE c # j /\ p \in gone
    <3>1. ~Locked(p) /\ ~Shared(p)
      BY <2>3 DEF CanDelete
    <3> QED BY <3>1, <2>3, <1>d, <1>a DEF ChildStep, Settled
  <2>4. CASE c # j /\ p \notin gone
    <3>1. c \notin gone /\ mid[c].parent = p
      BY <2>4, <1>o
    <3>2. job'[c].parent = p /\ job'[c].status = mid[c].status /\ job'[c].end = mid[c].end
      BY <3>1, <2>4, <1>k
    <3>3. \/ Alive(mid, c) \/ mid[c].end \in Silent
          \/ ~Alive(job, c) /\ mid[c].end = job[c].end
      BY <2>4, <1>o
    <3> QED BY <3>2, <3>3 DEF ChildStep, Alive
  <2> QED BY <2>1, <2>2, <2>3, <2>4, <1>5
<1> QED BY <1>4, <1>5

----------------------------------------------------------------------------
(* The statements of the queue, one by one: what each leaves of the        *)
(* invariant and of the action properties.                                 *)

Bystanders == submitted' = submitted /\ commands' \in Nat /\ commands' >= commands

QueueKept ==
    /\ job' \in [Jobs -> Row] /\ inbox' \in [Jobs -> SUBSET Message] /\ open' \subseteq Transaction
    /\ Links' /\ OpenRows' /\ ParentsTold' /\ ParentsExcused' /\ LastChildWakesParent'

TokensLeft ==
    \A j \in Jobs : job'[j].token = 0 \/ (job'[j].token = job[j].token /\ job'[j].status # "absent")

EndsLeft ==
    \A j \in Jobs : job[j].status \in Terminal =>
        job'[j].status \in Terminal \cup {"absent"} \/ job'[j].end = "revived"

EndingReported(c) ==
    LET p == job[c].parent IN
    (/\ Alive(job, c) /\ job'[c].status \in Terminal /\ job'[c].end \notin Silent
     /\ Alive(job, p) /\ ~Restarted(p)
     /\ Alive(job', p) \/ job'[p].status = "failed")
        => [child |-> c, outcome |-> job'[c].end, read |-> FALSE] \in inbox'[p]
EndingsReported == \A c \in Jobs : EndingReported(c)

LEMMA RowsDone ==
    ASSUME IInv, Bystanders, open' = open, inbox' = inbox, job' \in [Jobs -> Row],
           \A j \in Jobs : job'[j] = job[j] \/ (~Locked(j) /\ RowChange(job[j], job'[j]))
    PROVE  QueueKept /\ EndingsReported
<1>1. RowsKept /\ \A c \in Jobs : job[c].parent # NoJob => ChildStep(c, job[c].parent)
  BY RowsStepKeeps DEF Bystanders
<1>2. Links' /\ OpenRows' /\ ParentsTold' /\ ParentsExcused' /\ LastChildWakesParent'
  BY <1>1, TransactionsKept, WokenKept DEF RowsKept
<1>3. inbox \in [Jobs -> SUBSET Message] /\ open \subseteq Transaction
  BY DEF IInv, TypeOK
<1>4. QueueKept
  BY <1>2, <1>3 DEF QueueKept
<1>5. ASSUME NEW c \in Jobs, Alive(job, c), job'[c].status \in Terminal PROVE job'[c].end \in Silent
  BY <1>5 DEF RowChange, Alive
<1> QED BY <1>4, <1>5 DEF EndingsReported, EndingReported

LEMMA EndingDone ==
    ASSUME IInv, Bystanders, open' = open, inbox' \in [Jobs -> SUBSET Message], RowsKept,
           \A c \in Jobs : job[c].parent # NoJob => ChildStep(c, job[c].parent)
    PROVE  QueueKept
<1>2. Links' /\ OpenRows' /\ ParentsTold' /\ ParentsExcused' /\ LastChildWakesParent'
  BY TransactionsKept, WokenKept DEF RowsKept
<1>3. open \subseteq Transaction
  BY DEF IInv, TypeOK
<1> QED BY <1>2, <1>3 DEF QueueKept, RowsKept

LEMMA OneRowDone ==
    ASSUME IInv, Bystanders, open' = open, inbox' = inbox, NEW j \in Jobs, NEW row,
           ~Locked(j), RowChange(job[j], row), job' = [job EXCEPT ![j] = row]
    PROVE  QueueKept /\ EndingsReported
<1>1. job \in [Jobs -> Row]
  BY DEF IInv, TypeOK
<1>2. row \in Row
  BY DEF RowChange
<1> QED BY <1>1, <1>2, RowsDone

LEMMA UnchangedDone ==
    ASSUME IInv, Bystanders, open' = open, inbox' = inbox, job' = job
    PROVE  QueueKept /\ EndingsReported /\ TokensLeft /\ EndsLeft
<1>1. job \in [Jobs -> Row]
  BY DEF IInv, TypeOK
<1>2. TokensLeft
  BY DEF IInv, TokensOrdered, TokensLeft
<1> QED BY <1>1, <1>2, RowsDone DEF EndsLeft

LEMMA RowFields ==
    ASSUME NEW row \in Row, NEW status \in Statuses
    PROVE  /\ Unlocked(row) \in Row /\ Unlocked(row).token = 0
           /\ Unlocked(row).status = row.status /\ Unlocked(row).parent = row.parent
           /\ Unlocked(row).end = row.end
           /\ [Unlocked(row) EXCEPT !.status = status] \in Row
           /\ [Unlocked(row) EXCEPT !.status = status].status = status
           /\ [Unlocked(row) EXCEPT !.status = status].token = 0
           /\ [Unlocked(row) EXCEPT !.status = status].parent = row.parent
           /\ [Unlocked(row) EXCEPT !.status = status].end = row.end
BY DEF Row, Unlocked

LEMMA EndedFields ==
    ASSUME NEW row \in Row, NEW status \in Statuses, NEW end \in Ends
    PROVE  /\ Ended(row, status, end) \in Row /\ Ended(row, status, end).status = status
           /\ Ended(row, status, end).end = end /\ Ended(row, status, end).token = 0
           /\ Ended(row, status, end).parent = row.parent
BY DEF Row, Unlocked, Ended

LEMMA RowOf ==
    ASSUME IInv, NEW j \in Jobs
    PROVE  /\ job \in [Jobs -> Row] /\ job[j] \in Row
           /\ job[j].status \in Terminal => job[j].end # "none"
           /\ job[j].token # 0 => job[j].status # "absent"
BY DEF IInv, TypeOK, Links, TokensOrdered

LEMMA ClaimDone ==
    ASSUME IInv, Bystanders, NEW j \in Jobs, NEW t \in Nat, Claim(j, t)
    PROVE  QueueKept /\ EndingsReported /\ EndsLeft
<1>r. job \in [Jobs -> Row] /\ job[j] \in Row
  BY RowOf
<1>1. PICK row : row = [job[j] EXCEPT !.status = "active", !.token = t, !.started = @ + 1]
  OBVIOUS
<1>2. job' = [job EXCEPT ![j] = row] /\ ~Locked(j) /\ job[j].status = "waiting"
      /\ open' = open /\ inbox' = inbox
  BY <1>1, <1>r DEF Claim, Row
<1>3. row \in Row /\ row.status = "active" /\ row.parent = job[j].parent /\ row.end = job[j].end
  <2>1. "active" \in Statuses
    BY DEF Statuses, Cancellable
  <2>2. job[j].started + 1 \in Nat
    BY <1>r DEF Row
  <2>3. row = [job[j] EXCEPT !.status = "active", !.token = t, !.started = job[j].started + 1]
    BY <1>1, <1>r DEF Row
  <2> QED BY <2>1, <2>2, <2>3, <1>r DEF Row
<1>4. RowChange(job[j], row)
  BY <1>2, <1>3 DEF RowChange, Terminal
<1>5. EndsLeft
  BY <1>2, <1>r DEF EndsLeft, Terminal
<1> QED BY <1>2, <1>4, <1>5, OneRowDone

\* The statements that unlock a row and set its status.
LEMMA UnlockDone ==
    ASSUME IInv, Bystanders, open' = open, inbox' = inbox, NEW j \in Jobs, NEW row \in Row,
           ~Locked(j), job' = [job EXCEPT ![j] = row],
           row.token = 0, row.parent = job[j].parent,
           row.end = job[j].end \/ row.end = "revived",
           job[j].status # "absent",
           row.status \in Cancellable \ {"waiting-children"} \/
              (row.status = job[j].status /\ row.end = job[j].end)
    PROVE  /\ QueueKept /\ EndingsReported /\ TokensLeft
           /\ job[j].status \notin Terminal \/ row.status = job[j].status \/ row.end = "revived" => EndsLeft
<1>1. RowChange(job[j], row)
  <2>1. row.status \in Terminal => row.end # "none"
    BY RowOf, StatusFacts
  <2> QED BY RowOf, StatusFacts, <2>1 DEF RowChange
<1>2. TokensLeft
  BY RowOf DEF TokensLeft, IInv, TokensOrdered
<1>3. job[j].status \notin Terminal \/ row.status = job[j].status \/ row.end = "revived" => EndsLeft
  BY RowOf DEF EndsLeft
<1> QED BY <1>1, <1>2, <1>3, OneRowDone

LEMMA StatusIs ==
    /\ \A s \in {"waiting", "active", "delayed", "paused"} :
          s \in Statuses /\ s \in Cancellable \ {"waiting-children"} /\ s \notin Terminal /\ s # "absent"
    /\ \A s \in {"completed", "failed", "dead", "cancelled"} : s \in Statuses /\ s \in Terminal
    /\ "waiting-children" \in Statuses /\ "waiting-children" \notin Terminal
    /\ "stalled" \in Silent /\ "skipped" \in Silent /\ "cascaded" \in Silent
    /\ "timeout" \notin Silent /\ "cancelled" \notin Silent
    /\ "complete" \notin Silent /\ "dead" \notin Silent /\ Silent \subseteq Ends
    /\ {"complete", "dead", "timeout", "cancelled"} \subseteq Ends
    /\ "none" \notin Ends /\ "revived" \notin Silent
BY DEF Statuses, Cancellable, Terminal, Silent, Ends

LEMMA TriedFields ==
    ASSUME NEW row \in Row
    PROVE  /\ Tried(row) \in Row /\ Tried(row).status = row.status /\ Tried(row).end = row.end
           /\ Tried(row).parent = row.parent /\ Tried(row).token = row.token
BY DEF Tried, Row

LEMMA ReleaseDone ==
    ASSUME IInv, Bystanders, NEW j \in Jobs, NEW t \in Nat \ {0}, ReleaseLeaseFull(j, t)
    PROVE  QueueKept /\ EndingsReported /\ TokensLeft /\ EndsLeft
<1>1. CASE Fenced(j, t)
  <2> DEFINE row == [Unlocked(job[j]) EXCEPT !.status = "delayed"]
  <2>1. job' = [job EXCEPT ![j] = row] /\ ~Locked(j) /\ job[j].status = "active"
        /\ open' = open /\ inbox' = inbox
    BY <1>1 DEF ReleaseLeaseFull, Fenced
  <2>2. row \in Row /\ row.status = "delayed" /\ row.token = 0 /\ row.parent = job[j].parent
        /\ row.end = job[j].end
    BY RowOf, StatusIs, RowFields
  <2> HIDE DEF row
  <2> QED BY <2>1, <2>2, StatusIs, UnlockDone
<1>2. CASE ~Fenced(j, t)
  BY <1>2, UnchangedDone DEF ReleaseLeaseFull
<1> QED BY <1>1, <1>2

LEMMA PromoteDone ==
    ASSUME IInv, Bystanders, NEW j \in Jobs, PromoteDelayed(j)
    PROVE  QueueKept /\ EndingsReported /\ TokensLeft /\ EndsLeft
<1> DEFINE row == [Unlocked(job[j]) EXCEPT !.status = "waiting"]
<1>1. job' = [job EXCEPT ![j] = row] /\ ~Locked(j) /\ job[j].status = "delayed"
      /\ open' = open /\ inbox' = inbox
  BY DEF PromoteDelayed
<1>2. row \in Row /\ row.status = "waiting" /\ row.token = 0 /\ row.parent = job[j].parent
      /\ row.end = job[j].end
  BY RowOf, StatusIs, RowFields
<1> HIDE DEF row
<1> QED BY <1>1, <1>2, StatusIs, UnlockDone

LEMMA PauseDone ==
    ASSUME IInv, Bystanders, NEW j \in Jobs, PauseJob(j)
    PROVE  QueueKept /\ EndingsReported /\ TokensLeft /\ EndsLeft
<1> DEFINE row == [Unlocked(job[j]) EXCEPT !.status = "paused"]
<1>1. job' = [job EXCEPT ![j] = row] /\ ~Locked(j)
      /\ job[j].status \in {"waiting", "active", "delayed"}
      /\ open' = open /\ inbox' = inbox
  BY DEF PauseJob
<1>2. row \in Row /\ row.status = "paused" /\ row.token = 0 /\ row.parent = job[j].parent
      /\ row.end = job[j].end
  BY RowOf, StatusIs, RowFields
<1> HIDE DEF row
<1> QED BY <1>1, <1>2, StatusIs, UnlockDone

LEMMA ResumeDone ==
    ASSUME IInv, Bystanders, NEW j \in Jobs, ResumeJob(j)
    PROVE  QueueKept /\ EndingsReported /\ TokensLeft /\ EndsLeft
<1> DEFINE row == [Unlocked(job[j]) EXCEPT !.status = "waiting"]
<1>1. job' = [job EXCEPT ![j] = row] /\ ~Locked(j) /\ job[j].status = "paused"
      /\ open' = open /\ inbox' = inbox
  BY DEF ResumeJob
<1>2. row \in Row /\ row.status = "waiting" /\ row.token = 0 /\ row.parent = job[j].parent
      /\ row.end = job[j].end
  BY RowOf, StatusIs, RowFields
<1> HIDE DEF row
<1> QED BY <1>1, <1>2, StatusIs, UnlockDone

LEMMA RetryDone ==
    ASSUME IInv, Bystanders, NEW j \in Jobs, RetryJob(j)
    PROVE  QueueKept /\ EndingsReported /\ TokensLeft /\ EndsLeft
<1>r. job[j] \in Row
  BY RowOf
<1>1. PICK row : row = [Unlocked(job[j]) EXCEPT !.status = "waiting", !.end = "revived"]
  OBVIOUS
<1>2. job' = [job EXCEPT ![j] = row] /\ ~Locked(j) /\ job[j].status \in {"failed", "dead"}
      /\ open' = open /\ inbox' = inbox
  BY <1>1 DEF RetryJob
<1>3. row \in Row /\ row.status = "waiting" /\ row.token = 0 /\ row.parent = job[j].parent
      /\ row.end = "revived"
  BY <1>r, <1>1, StatusIs DEF Row, Unlocked
<1>4. job[j].status # "absent"
  BY <1>2
<1> QED BY <1>2, <1>3, <1>4, StatusIs, UnlockDone

LEMMA StalledDone ==
    ASSUME IInv, Bystanders, NEW S \in SUBSET Jobs, HandleStalled(S)
    PROVE  QueueKept /\ EndingsReported /\ TokensLeft /\ EndsLeft
<1>r. job \in [Jobs -> Row] /\ open' = open /\ inbox' = inbox
  BY RowOf DEF HandleStalled, IInv, TypeOK
<1>1. ASSUME NEW j \in Jobs
      PROVE  job'[j] = IF j \in S
                       THEN IF job[j].stalls + 1 < MaxStalled
                            THEN [Unlocked(job[j]) EXCEPT !.status = "waiting", !.stalls = @ + 1]
                            ELSE [Tried(Ended(job[j], "dead", "stalled")) EXCEPT !.stalls = @ + 1]
                       ELSE job[j]
  BY DEF HandleStalled, Update
<1>2. \A j \in S : ~Locked(j) /\ job[j].status = "active"
  BY DEF HandleStalled, Holding, Active
<1>3. ASSUME NEW j \in S
      PROVE  /\ job'[j] \in Row /\ job'[j].token = 0 /\ job'[j].parent = job[j].parent
             /\ \/ job'[j].status = "waiting" /\ job'[j].end = job[j].end
                \/ job'[j].status = "dead" /\ job'[j].end = "stalled"
  <2>1. j \in Jobs /\ job[j] \in Row
    BY <1>r
  <2>2. ASSUME NEW row \in Row, NEW stalled, stalled = [row EXCEPT !.stalls = @ + 1]
        PROVE  /\ stalled \in Row /\ stalled.token = row.token /\ stalled.parent = row.parent
               /\ stalled.status = row.status /\ stalled.end = row.end
    BY <2>2 DEF Row
  <2>3. CASE job[j].stalls + 1 < MaxStalled
    <3>1. PICK row : row = [Unlocked(job[j]) EXCEPT !.status = "waiting"]
      OBVIOUS
    <3>2. row \in Row /\ row.token = 0 /\ row.parent = job[j].parent
          /\ row.status = "waiting" /\ row.end = job[j].end
      BY <2>1, <3>1, StatusIs, RowFields
    <3>3. job'[j] = [row EXCEPT !.stalls = @ + 1]
      BY <1>1, <2>1, <2>3, <3>1
    <3> QED BY <2>2, <3>2, <3>3
  <2>4. CASE ~(job[j].stalls + 1 < MaxStalled)
    <3>1. PICK row : row = Tried(Ended(job[j], "dead", "stalled"))
      OBVIOUS
    <3>2. row \in Row /\ row.token = 0 /\ row.parent = job[j].parent
          /\ row.status = "dead" /\ row.end = "stalled"
      <4>1. "dead" \in Statuses /\ "stalled" \in Ends
        BY StatusIs
      <4>2. PICK ended : ended = Ended(job[j], "dead", "stalled")
        OBVIOUS
      <4>3. ended \in Row /\ ended.token = 0 /\ ended.parent = job[j].parent
            /\ ended.status = "dead" /\ ended.end = "stalled"
        BY <2>1, <4>1, <4>2, EndedFields
      <4> QED BY <3>1, <4>2, <4>3, TriedFields
    <3>3. job'[j] = [row EXCEPT !.stalls = @ + 1]
      BY <1>1, <2>1, <2>4, <3>1
    <3> QED BY <2>2, <3>2, <3>3
  <2> QED BY <2>3, <2>4
<1>4. \A j \in Jobs : j \in S \/ job'[j] = job[j]
  BY <1>1
<1>5. job' \in [Jobs -> Row]
  <2>1. job' = [j \in Jobs |-> job'[j]]
    BY DEF HandleStalled, Update
  <2> QED BY <2>1, <1>3, <1>4, <1>r
<1>6. ASSUME NEW j \in S PROVE RowChange(job[j], job'[j])
  BY <1>2, <1>3, StatusIs DEF RowChange
<1>7. TokensLeft
  BY <1>3, <1>4, RowOf DEF TokensLeft, IInv, TokensOrdered
<1>8. EndsLeft
  BY <1>2, <1>4, StatusIs DEF EndsLeft
<1> QED BY <1>2, <1>4, <1>5, <1>6, <1>7, <1>8, <1>r, RowsDone

----------------------------------------------------------------------------
(* completeJob and failJob: the row ends, the parent hears of it.          *)

LEMMA ResolveFacts ==
    ASSUME NEW rows \in [Jobs -> Row], NEW parents
    PROVE  /\ Resolve(rows, parents) \in [Jobs -> Row]
           /\ \A k \in Jobs :
                /\ Resolve(rows, parents)[k].parent = rows[k].parent
                /\ Resolve(rows, parents)[k].end = rows[k].end
                /\ Resolve(rows, parents)[k].token = rows[k].token
                /\ \/ Resolve(rows, parents)[k] = rows[k]
                   \/ /\ k \in parents /\ rows[k].status = "waiting-children"
                      /\ Resolve(rows, parents)[k].status = "waiting"
           /\ \A p \in parents \cap Jobs :
                ~(/\ Resolve(rows, parents)[p].status = "waiting-children"
                  /\ LiveChildren(Resolve(rows, parents), p) = {})
<1> DEFINE R == Resolve(rows, parents)
<1>1. ASSUME NEW k \in Jobs
      PROVE  [rows[k] EXCEPT !.status = "waiting"] \in Row
  BY StatusIs DEF Row
<1>2. R \in [Jobs -> Row]
  BY <1>1 DEF Resolve
<1>3. ASSUME NEW k \in Jobs
      PROVE  /\ R[k].parent = rows[k].parent /\ R[k].end = rows[k].end /\ R[k].token = rows[k].token
             /\ \/ R[k] = rows[k]
                \/ k \in parents /\ rows[k].status = "waiting-children" /\ R[k].status = "waiting"
  <2>1. R[k] = IF k \in parents /\ rows[k].status = "waiting-children" /\ LiveChildren(rows, k) = {}
               THEN [rows[k] EXCEPT !.status = "waiting"] ELSE rows[k]
    BY DEF Resolve
  <2>2. rows[k] \in Row
    OBVIOUS
  <2> QED BY <2>1, <2>2 DEF Row
<1>4. ASSUME NEW p \in parents \cap Jobs, R[p].status = "waiting-children"
      PROVE  LiveChildren(R, p) # {}
  <2>1. R[p] = IF rows[p].status = "waiting-children" /\ LiveChildren(rows, p) = {}
               THEN [rows[p] EXCEPT !.status = "waiting"] ELSE rows[p]
    BY DEF Resolve
  <2>2. rows[p] \in Row
    OBVIOUS
  <2>3. LiveChildren(rows, p) # {}
    BY <2>1, <2>2, <1>4 DEF Row
  <2>4. PICK d \in Jobs : rows[d].parent = p /\ Alive(rows, d)
    BY <2>3 DEF LiveChildren
  <2>5. R[d].parent = p /\ Alive(R, d)
    BY <2>4, <1>3, StatusIs DEF Alive
  <2> QED BY <2>5 DEF LiveChildren
<1> QED BY <1>2, <1>3, <1>4

LEMMA PostFacts ==
    ASSUME NEW parents, NEW kids \in SUBSET Jobs, NEW outcome \in Ends,
           inbox \in [Jobs -> SUBSET Message]
    PROVE  /\ Post(parents, kids, outcome) \in [Jobs -> SUBSET Message]
           /\ \A c \in kids : job[c].parent \in parents \cap Jobs =>
                [child |-> c, outcome |-> outcome, read |-> FALSE]
                   \in Post(parents, kids, outcome)[job[c].parent]
<1>1. \A c \in kids : [child |-> c, outcome |-> outcome, read |-> FALSE] \in Message
  BY DEF Message
<1> QED BY <1>1 DEF Post

LEMMA InboxWithoutFacts ==
    ASSUME NEW msgs \in [Jobs -> SUBSET Message], NEW gone
    PROVE  /\ InboxWithout(msgs, gone) \in [Jobs -> SUBSET Message]
           /\ \A k \in Jobs : k \notin gone => InboxWithout(msgs, gone)[k] = msgs[k]
BY DEF InboxWithout

\* In mid, the row of j has ended and its parent is resolved or fails with it.
EndsWith(mid, j, outcome) ==
    /\ mid \in [Jobs -> Row]
    /\ \A k \in Jobs \ {j} :
          \/ mid[k] = job[k]
          \/ /\ k = job[j].parent /\ job[k].status = "waiting-children"
             /\ mid[k].parent = job[k].parent /\ mid[k].token = job[k].token
             /\ \/ mid[k].status = "waiting" /\ mid[k].end = job[k].end
                \/ mid[k].status = "failed" /\ mid[k].end = "cascaded"
    /\ mid[j].parent \in {job[j].parent, NoJob} /\ mid[j].token = 0 /\ mid[j].end = outcome
    /\ mid[j].status \in {"completed", "dead"}
    /\ job[j].parent # NoJob =>
          ~(mid[job[j].parent].status = "waiting-children" /\ LiveChildren(mid, job[j].parent) = {})

\* The step by which an active row ends so; ended is the table the message saw.
EndStep(j, mid, gone, ended, outcome) ==
    /\ job[j].status = "active" /\ ~Locked(j) /\ CanLockParent(j)
    /\ gone \subseteq {j} /\ (gone = {} \/ CanDelete(j))
    /\ EndsWith(mid, j, outcome) /\ outcome \in Ends
    /\ \A k \in Jobs \ {j} : ended[k] = job[k]
    /\ job' = Deleted(mid, gone)
    /\ inbox' = InboxWithout(Post(LiveParents(ended, {j}), {j}, outcome), gone)
    /\ open' = open

LEMMA EndedDone ==
    ASSUME IInv, Bystanders, NEW j \in Jobs, NEW mid, NEW gone, NEW ended, NEW outcome,
           EndStep(j, mid, gone, ended, outcome)
    PROVE  QueueKept /\ EndingsReported /\ TokensLeft /\ EndsLeft
<1> USE DEF EndStep, EndsWith
<1>t. inbox \in [Jobs -> SUBSET Message] /\ job \in [Jobs -> Row]
  BY DEF IInv, TypeOK
<1>p. Post(LiveParents(ended, {j}), {j}, outcome) \in [Jobs -> SUBSET Message]
  BY <1>t, PostFacts
<1>q. PICK msgs : msgs = Post(LiveParents(ended, {j}), {j}, outcome)
  OBVIOUS
<1>d. /\ \A k \in gone : job'[k] = Absent
      /\ \A k \in Jobs \ gone :
            /\ mid[k].parent \in gone => job'[k] = [mid[k] EXCEPT !.parent = NoJob]
            /\ mid[k].parent \notin gone => job'[k] = mid[k]
  BY DeletedFacts
<1>a. Absent.status = "absent" /\ Absent.token = 0
  BY DEF Absent
<1>k. ASSUME NEW k \in Jobs \ gone
      PROVE  /\ job'[k].status = mid[k].status /\ job'[k].end = mid[k].end
             /\ job'[k].token = mid[k].token
  <2>1. mid[k] \in Row /\ job'[k] \in {mid[k], [mid[k] EXCEPT !.parent = NoJob]}
    BY <1>d
  <2> QED BY <2>1 DEF Row
<1>1. QueueKept
  <2>1. inbox' \in [Jobs -> SUBSET Message]
    BY <1>p, InboxWithoutFacts
  <2>2. mid[j].status \in Terminal /\ mid[j].end # "none" /\ job[j].status # "absent"
    BY StatusIs
  <2>3. commands' \in Nat /\ commands' >= commands /\ submitted' = submitted
    BY DEF Bystanders
  <2>4. /\ RowsKept
        /\ \A c \in Jobs : job[c].parent # NoJob => ChildStep(c, job[c].parent)
    BY <2>2, <2>3, EndingKeeps
  <2> QED BY <2>1, <2>4, EndingDone
<1>2. TokensLeft
  <2> SUFFICES ASSUME NEW k \in Jobs
               PROVE  \/ job'[k].token = 0
                      \/ job'[k].token = job[k].token /\ job'[k].status # "absent"
    BY DEF TokensLeft
  <2>1. CASE k \in gone
    BY <2>1, <1>d, <1>a
  <2>2. CASE k \notin gone /\ k = j
    BY <2>2, <1>k
  <2>3. CASE k \notin gone /\ k # j
    <3>1. mid[k].token = job[k].token
      BY <2>3
    <3>2. mid[k].status = "absent" => mid[k] = job[k]
      BY <2>3
    <3> QED BY <3>1, <3>2, <2>3, <1>k, RowOf
  <2> QED BY <2>1, <2>2, <2>3
<1>3. EndsLeft
  <2> SUFFICES ASSUME NEW k \in Jobs, job[k].status \in Terminal
               PROVE  job'[k].status \in Terminal \cup {"absent"}
    BY DEF EndsLeft
  <2>1. k # j /\ job[k].status # "waiting-children"
    BY StatusIs
  <2>2. mid[k] = job[k] /\ k \notin gone
    BY <2>1
  <2> QED BY <2>2, <1>k
<1>4. EndingsReported
  <2> SUFFICES ASSUME NEW c \in Jobs, Alive(job, c), job'[c].status \in Terminal,
                      job'[c].end \notin Silent, NEW p, p = job[c].parent, Alive(job, p),
                      Alive(job', p) \/ job'[p].status = "failed"
               PROVE  [child |-> c, outcome |-> job'[c].end, read |-> FALSE] \in inbox'[p]
    BY DEF EndingsReported, EndingReported
  <2>1. c \notin gone
    BY <1>d, <1>a DEF Terminal
  <2>2. c = j
    <3> SUFFICES ASSUME c # j PROVE FALSE
      OBVIOUS
    <3>1. mid[c].status \in Terminal /\ mid[c].end \notin Silent
      BY <2>1, <1>k
    <3>2. mid[c].status = "waiting" => mid[c].status \notin Terminal
      BY StatusIs
    <3>3. mid[c].end = "cascaded" => mid[c].end \in Silent
      BY StatusIs
    <3>4. mid[c] = job[c]
      BY <3>1, <3>2, <3>3
    <3> QED BY <3>1, <3>4 DEF Alive
  <2>3. gone = {}
    BY <2>1, <2>2
  <2>4. p \in Jobs
    BY <1>t DEF Alive, Row
  <2>5. p # j
    <3> SUFFICES ASSUME p = j PROVE FALSE
      OBVIOUS
    <3>1. job'[p].status \in {"completed", "dead"}
      BY <2>3, <1>k
    <3> QED BY <3>1, StatusIs DEF Alive
  <2>6. p \in LiveParents(ended, {j})
    BY <2>2, <2>4, <2>5 DEF LiveParents, Alive
  <2>7. [child |-> j, outcome |-> outcome, read |-> FALSE]
           \in Post(LiveParents(ended, {j}), {j}, outcome)[p]
    BY <2>2, <2>4, <2>6, <1>t, PostFacts
  <2>8. inbox'[p] = Post(LiveParents(ended, {j}), {j}, outcome)[p]
    <3>1. msgs \in [Jobs -> SUBSET Message] /\ inbox' = InboxWithout(msgs, gone)
      BY <1>p, <1>q
    <3>2. inbox'[p] = msgs[p]
      BY <3>1, <2>3, <2>4, InboxWithoutFacts
    <3> QED BY <3>2, <1>q
  <2>9. job'[c].end = outcome
    BY <2>2, <2>3, <1>k
  <2> QED BY <2>2, <2>7, <2>8, <2>9
<1> QED BY <1>1, <1>2, <1>3, <1>4

LEMMA CompleteDone ==
    ASSUME IInv, Bystanders, NEW j \in Jobs, NEW t \in Nat \ {0}, CompleteJob(j, t)
    PROVE  QueueKept /\ EndingsReported /\ TokensLeft /\ EndsLeft
<1>r. job \in [Jobs -> Row] /\ job[j] \in Row
  BY RowOf
<1>1. CASE ~Fenced(j, t)
  BY <1>1, UnchangedDone DEF CompleteJob, queueVars
<1>2. CASE Fenced(j, t)
  <2> DEFINE p0    == job[j].parent
             done  == [job EXCEPT ![j] = Ended(@, "completed", "complete")]
             after == Resolve(done, {p0})
             gone  == {j} \cap RemoveOnEnd
  <2>1. /\ ~Locked(j) /\ CanLockParent(j) /\ (gone = {} \/ CanDelete(j))
        /\ job' = Deleted(after, gone)
        /\ inbox' = InboxWithout(Post(LiveParents(done, {j}), {j}, "complete"), gone)
        /\ open' = open
    BY <1>2 DEF CompleteJob
  <2>2. job[j].status = "active"
    BY <1>2 DEF Fenced
  <2>3. /\ Ended(job[j], "completed", "complete") \in Row
        /\ Ended(job[j], "completed", "complete").status = "completed"
        /\ Ended(job[j], "completed", "complete").end = "complete"
        /\ Ended(job[j], "completed", "complete").token = 0
        /\ Ended(job[j], "completed", "complete").parent = p0
    BY <1>r, StatusIs, EndedFields
  <2>4. /\ done \in [Jobs -> Row] /\ \A k \in Jobs \ {j} : done[k] = job[k]
        /\ done[j].status = "completed" /\ done[j].end = "complete" /\ done[j].token = 0
        /\ done[j].parent = p0
    BY <2>3, <1>r
  <2> HIDE DEF done
  <2>0. PICK parents : parents = {p0}
    OBVIOUS
  <2>5. /\ after \in [Jobs -> Row]
        /\ \A k \in Jobs : /\ after[k].parent = done[k].parent /\ after[k].end = done[k].end
                           /\ after[k].token = done[k].token
                           /\ \/ after[k] = done[k]
                              \/ /\ k = p0 /\ done[k].status = "waiting-children"
                                 /\ after[k].status = "waiting"
        /\ p0 \in Jobs => ~(after[p0].status = "waiting-children" /\ LiveChildren(after, p0) = {})
    <3>1. after = Resolve(done, parents) /\ p0 \in parents /\ \A k \in parents : k = p0
      BY <2>0
    <3> HIDE DEF after
    <3> QED BY <2>4, <3>1, ResolveFacts
  <2> HIDE DEF after
  <2>6. \A k \in Jobs \ {j} :
           \/ after[k] = job[k]
           \/ /\ k = p0 /\ job[k].status = "waiting-children"
              /\ after[k].parent = job[k].parent /\ after[k].token = job[k].token
              /\ after[k].status = "waiting" /\ after[k].end = job[k].end
    BY <2>4, <2>5
  <2>7. after[j].parent = p0 /\ after[j].token = 0 /\ after[j].end = "complete"
        /\ after[j].status = "completed"
    BY <2>4, <2>5
  <2>8. p0 # NoJob => ~(after[p0].status = "waiting-children" /\ LiveChildren(after, p0) = {})
    BY <2>5, <1>r DEF Row
  <2>9. "complete" \in Ends /\ gone \in SUBSET {j}
    BY StatusIs
  <2>10. EndsWith(after, j, "complete")
    BY <2>5, <2>6, <2>7, <2>8 DEF EndsWith
  <2> HIDE DEF gone
  <2>11. EndStep(j, after, gone, done, "complete")
    BY <2>1, <2>2, <2>4, <2>9, <2>10 DEF EndStep
  <2> QED BY <2>11, EndedDone
<1> QED BY <1>1, <1>2

\* A failure that is tried again.
LEMMA DelayDone ==
    ASSUME IInv, Bystanders, NEW j \in Jobs, NEW t \in Nat \ {0}, FailJob(j, t, "delayed")
    PROVE  QueueKept /\ EndingsReported /\ TokensLeft /\ EndsLeft
<1>1. CASE ~Fenced(j, t)
  BY <1>1, UnchangedDone DEF FailJob, queueVars
<1>2. CASE Fenced(j, t)
  <2>1. PICK row : row = Tried([Unlocked(job[j]) EXCEPT !.status = "delayed"])
    OBVIOUS
  <2>2. job' = [job EXCEPT ![j] = row] /\ ~Locked(j) /\ open' = open /\ inbox' = inbox
    BY <1>2, <2>1 DEF FailJob
  <2>3. row \in Row /\ row.status = "delayed" /\ row.token = 0 /\ row.parent = job[j].parent
        /\ row.end = job[j].end
    <3>1. PICK unlocked : unlocked = [Unlocked(job[j]) EXCEPT !.status = "delayed"]
      OBVIOUS
    <3>2. unlocked \in Row /\ unlocked.status = "delayed" /\ unlocked.token = 0
          /\ unlocked.parent = job[j].parent /\ unlocked.end = job[j].end
      BY <3>1, RowOf, StatusIs, RowFields
    <3> QED BY <2>1, <3>1, <3>2, TriedFields
  <2>4. job[j].status = "active"
    BY <1>2 DEF Fenced
  <2> QED BY <2>2, <2>3, <2>4, StatusIs, UnlockDone
<1> QED BY <1>1, <1>2

\* The parent's side of a terminal failure.
LEMMA AfterFailureFacts ==
    ASSUME NEW j \in Jobs, NEW failed \in [Jobs -> Row], job[j].parent \in Jobs \cup {NoJob},
           failed[j].status = "dead", failed[j].parent = job[j].parent
    PROVE  /\ AfterFailure(failed, j) \in [Jobs -> Row]
           /\ \A k \in Jobs \ {j} :
                 \/ AfterFailure(failed, j)[k] = failed[k]
                 \/ /\ k = job[j].parent /\ failed[k].status = "waiting-children"
                    /\ AfterFailure(failed, j)[k].parent = failed[k].parent
                    /\ AfterFailure(failed, j)[k].token = failed[k].token
                    /\ \/ /\ AfterFailure(failed, j)[k].status = "waiting"
                          /\ AfterFailure(failed, j)[k].end = failed[k].end
                       \/ /\ AfterFailure(failed, j)[k].status = "failed"
                          /\ AfterFailure(failed, j)[k].end = "cascaded"
           /\ AfterFailure(failed, j)[j].parent \in {job[j].parent, NoJob}
           /\ AfterFailure(failed, j)[j].status = "dead"
           /\ AfterFailure(failed, j)[j].token = failed[j].token
           /\ AfterFailure(failed, j)[j].end = failed[j].end
           /\ job[j].parent # NoJob =>
                ~(/\ AfterFailure(failed, j)[job[j].parent].status = "waiting-children"
                  /\ LiveChildren(AfterFailure(failed, j), job[j].parent) = {})
<1> USE QueueAssumption
<1> DEFINE p0 == job[j].parent
<1>f. PICK F : F = AfterFailure(failed, j)
  OBVIOUS
<1>1. CASE p0 = NoJob
  <2>1. F = failed
    BY <1>1, <1>f DEF AfterFailure
  <2> QED BY <1>1, <2>1, <1>f
<1>2. CASE p0 # NoJob /\ OnChildFail[j] = "fail_parent"
  <2>1. F = [failed EXCEPT ![p0] = IF failed[p0].status = "waiting-children"
                                   THEN [failed[p0] EXCEPT !.status = "failed", !.end = "cascaded"]
                                   ELSE failed[p0]]
    BY <1>2, <1>f DEF AfterFailure
  <2>2. p0 \in Jobs /\ failed[p0] \in Row
    BY <1>2
  <2>3. PICK row : row = [failed[p0] EXCEPT !.status = "failed", !.end = "cascaded"]
    OBVIOUS
  <2>4. row \in Row /\ row.status = "failed" /\ row.end = "cascaded"
        /\ row.parent = failed[p0].parent /\ row.token = failed[p0].token
    BY <2>2, <2>3, StatusIs DEF Row
  <2>5. CASE failed[p0].status = "waiting-children"
    <3>1. F = [failed EXCEPT ![p0] = row] /\ p0 # j
      BY <2>1, <2>3, <2>5
    <3>2. F \in [Jobs -> Row] /\ F[p0] = row /\ \A k \in Jobs \ {p0} : F[k] = failed[k]
      BY <3>1, <2>2, <2>4
    <3>3. F[j] = failed[j]
      BY <3>1, <3>2
    <3> QED BY <3>2, <3>3, <2>4, <2>5, <1>f
  <2>6. CASE failed[p0].status # "waiting-children"
    <3>1. F = failed
      BY <2>1, <2>2, <2>6
    <3>2. /\ F \in [Jobs -> Row] /\ \A k \in Jobs : F[k] = failed[k]
          /\ F[j].parent = p0 /\ F[j].status = "dead" /\ F[p0].status # "waiting-children"
      BY <3>1, <2>6
    <3> QED BY <3>2, <1>f
  <2> QED BY <2>5, <2>6
<1>3. CASE p0 # NoJob /\ OnChildFail[j] # "fail_parent"
  <2>1. PICK rows : rows = IF OnChildFail[j] = "remove_dep"
                           THEN [failed EXCEPT ![j].parent = NoJob] ELSE failed
    OBVIOUS
  <2>2. F = Resolve(rows, {p0})
    BY <1>3, <1>f, <2>1 DEF AfterFailure
  <2>3. /\ rows \in [Jobs -> Row] /\ \A k \in Jobs \ {j} : rows[k] = failed[k]
        /\ rows[j].parent \in {p0, NoJob} /\ rows[j].status = "dead"
        /\ rows[j].token = failed[j].token /\ rows[j].end = failed[j].end
    <3>1. failed[j] \in Row
      OBVIOUS
    <3>2. PICK row : row = [failed[j] EXCEPT !.parent = NoJob]
      OBVIOUS
    <3>3. row \in Row /\ row.parent = NoJob /\ row.status = failed[j].status
          /\ row.token = failed[j].token /\ row.end = failed[j].end
      BY <3>1, <3>2 DEF Row
    <3>4. [failed EXCEPT ![j].parent = NoJob] = [failed EXCEPT ![j] = row]
      BY <3>2
    <3> QED BY <2>1, <3>3, <3>4
  <2>4. /\ F \in [Jobs -> Row]
        /\ \A k \in Jobs : /\ F[k].parent = rows[k].parent /\ F[k].end = rows[k].end
                           /\ F[k].token = rows[k].token
                           /\ \/ F[k] = rows[k]
                              \/ /\ k = p0 /\ rows[k].status = "waiting-children"
                                 /\ F[k].status = "waiting"
        /\ p0 \in Jobs => ~(F[p0].status = "waiting-children" /\ LiveChildren(F, p0) = {})
    <3>1. PICK parents : parents = {p0}
      OBVIOUS
    <3>2. F = Resolve(rows, parents) /\ p0 \in parents /\ \A k \in parents : k = p0
      BY <2>2, <3>1
    <3> QED BY <2>3, <3>2, ResolveFacts
  <2>5. \A k \in Jobs \ {j} :
           \/ F[k] = failed[k]
           \/ /\ k = p0 /\ failed[k].status = "waiting-children"
              /\ F[k].parent = failed[k].parent /\ F[k].token = failed[k].token
              /\ F[k].status = "waiting" /\ F[k].end = failed[k].end
    BY <2>3, <2>4
  <2>6. F[j].parent \in {p0, NoJob} /\ F[j].status = "dead"
        /\ F[j].token = failed[j].token /\ F[j].end = failed[j].end
    BY <2>3, <2>4
  <2> QED BY <1>3, <2>4, <2>5, <2>6, <1>f
<1> QED BY <1>1, <1>2, <1>3

LEMMA FailDone ==
    ASSUME IInv, Bystanders, NEW j \in Jobs, NEW t \in Nat \ {0}, FailJob(j, t, "dead")
    PROVE  QueueKept /\ EndingsReported /\ TokensLeft /\ EndsLeft
<1>r. job \in [Jobs -> Row] /\ job[j] \in Row
  BY RowOf
<1>1. CASE ~Fenced(j, t)
  BY <1>1, UnchangedDone DEF FailJob, queueVars
<1>2. CASE Fenced(j, t)
  <2> DEFINE p0     == job[j].parent
             failed == [job EXCEPT ![j] = Tried(Ended(@, "dead", "dead"))]
             after  == AfterFailure(failed, j)
             gone   == {j} \cap RemoveOnEnd
  <2>1. /\ ~Locked(j) /\ CanLockParent(j) /\ (gone = {} \/ CanDelete(j))
        /\ job' = Deleted(after, gone)
        /\ inbox' = InboxWithout(Post(LiveParents(failed, {j}), {j}, "dead"), gone)
        /\ open' = open
    BY <1>2 DEF FailJob
  <2>2. job[j].status = "active"
    BY <1>2 DEF Fenced
  <2>3. PICK row : row = Tried(Ended(job[j], "dead", "dead"))
    OBVIOUS
  <2>4. row \in Row /\ row.status = "dead" /\ row.end = "dead" /\ row.token = 0 /\ row.parent = p0
    <3>1. PICK ended : ended = Ended(job[j], "dead", "dead")
      OBVIOUS
    <3>2. ended \in Row /\ ended.status = "dead" /\ ended.end = "dead" /\ ended.token = 0
          /\ ended.parent = p0
      <4>1. "dead" \in Statuses /\ "dead" \in Ends
        BY StatusIs
      <4> QED BY <1>r, <3>1, <4>1, EndedFields
    <3> QED BY <2>3, <3>1, <3>2, TriedFields
  <2>5. /\ failed \in [Jobs -> Row] /\ \A k \in Jobs \ {j} : failed[k] = job[k]
        /\ failed[j] = row
    BY <2>3, <2>4, <1>r
  <2>6. p0 \in Jobs \cup {NoJob}
    BY <1>r DEF Row
  <2> HIDE DEF failed
  <2>7. /\ after \in [Jobs -> Row]
        /\ \A k \in Jobs \ {j} :
              \/ after[k] = failed[k]
              \/ /\ k = p0 /\ failed[k].status = "waiting-children"
                 /\ after[k].parent = failed[k].parent /\ after[k].token = failed[k].token
                 /\ \/ after[k].status = "waiting" /\ after[k].end = failed[k].end
                    \/ after[k].status = "failed" /\ after[k].end = "cascaded"
        /\ after[j].parent \in {p0, NoJob} /\ after[j].status = "dead"
        /\ after[j].token = failed[j].token /\ after[j].end = failed[j].end
        /\ p0 # NoJob => ~(after[p0].status = "waiting-children" /\ LiveChildren(after, p0) = {})
    BY <2>4, <2>5, <2>6, AfterFailureFacts
  <2> HIDE DEF after
  <2>8. \A k \in Jobs \ {j} :
           \/ after[k] = job[k]
           \/ /\ k = p0 /\ job[k].status = "waiting-children"
              /\ after[k].parent = job[k].parent /\ after[k].token = job[k].token
              /\ \/ after[k].status = "waiting" /\ after[k].end = job[k].end
                 \/ after[k].status = "failed" /\ after[k].end = "cascaded"
    BY <2>5, <2>7
  <2>9. after[j].token = 0 /\ after[j].end = "dead"
    BY <2>4, <2>5, <2>7
  <2>10. "dead" \in Ends /\ gone \in SUBSET {j}
    BY StatusIs
  <2>11. EndsWith(after, j, "dead")
    BY <2>7, <2>8, <2>9 DEF EndsWith
  <2> HIDE DEF gone
  <2>12. EndStep(j, after, gone, failed, "dead")
    BY <2>1, <2>2, <2>5, <2>10, <2>11 DEF EndStep
  <2> QED BY <2>12, EndedDone
<1> QED BY <1>1, <1>2

----------------------------------------------------------------------------
(* add and removeJob.                                                      *)

LEMMA RemoveDone ==
    ASSUME IInv, Bystanders, commands' > 0, NEW j \in Jobs, RemoveJob(j)
    PROVE  QueueKept /\ EndingsReported /\ TokensLeft /\ EndsLeft
<1>t. inbox \in [Jobs -> SUBSET Message] /\ job \in [Jobs -> Row]
  BY DEF IInv, TypeOK
<1>1. PICK gone : gone = {j}
  OBVIOUS
<1>2. /\ job[j].status \in Terminal /\ CanDelete(j) /\ ~Locked(j) /\ open' = open
      /\ job' = Deleted(job, gone) /\ inbox' = InboxWithout(inbox, gone)
  BY <1>1 DEF RemoveJob, CanDelete
<1>d. /\ job'[j] = Absent
      /\ \A k \in Jobs \ {j} : job'[k] \in {job[k], [job[k] EXCEPT !.parent = NoJob]}
  BY <1>1, <1>2, <1>t, DeletedFacts
<1>k. ASSUME NEW k \in Jobs \ {j}
      PROVE  /\ job'[k].status = job[k].status /\ job'[k].end = job[k].end
             /\ job'[k].token = job[k].token
  BY <1>d, <1>t DEF Row
<1>a. Absent.status = "absent" /\ Absent.token = 0 /\ "absent" \notin Terminal
  BY StatusFacts DEF Absent
<1>3. QueueKept
  <2>1. inbox' \in [Jobs -> SUBSET Message]
    BY <1>t, <1>2, InboxWithoutFacts
  <2>2. job[j].end # "none" /\ job[j].status # "absent"
    BY <1>2, <1>a, RowOf
  <2>3. commands' \in Nat /\ commands' >= commands /\ submitted' = submitted
    BY DEF Bystanders
  <2>4. gone \in SUBSET {j} /\ CanDelete(j)
    BY <1>1, <1>2
  <2>5. /\ RowsKept
        /\ \A c \in Jobs : job[c].parent # NoJob => ChildStep(c, job[c].parent)
    BY <1>1, <1>2, <1>t, <2>2, <2>3, <2>4, EndingKeeps
  <2> QED BY <1>2, <2>1, <2>5, EndingDone
<1>4. TokensLeft
  BY <1>d, <1>k, <1>a, RowOf DEF TokensLeft
<1>5. EndsLeft
  BY <1>d, <1>k, <1>a DEF EndsLeft
<1>6. EndingsReported
  BY <1>d, <1>k, <1>a DEF EndingsReported, EndingReported, Alive
<1> QED BY <1>3, <1>4, <1>5, <1>6

LEMMA AddDone ==
    ASSUME IInv, NEW j \in Jobs, Add(j), j \notin submitted,
           submitted' = submitted \cup {j}, commands' = commands
    PROVE  QueueKept /\ EndingsReported /\ TokensLeft /\ EndsLeft
<1> USE QueueAssumption
<1> DEFINE p0 == ParentOf[j]
<1>t. inbox \in [Jobs -> SUBSET Message] /\ job \in [Jobs -> Row] /\ commands \in Nat
      /\ open \subseteq Transaction /\ submitted \subseteq Jobs /\ Links /\ p0 \in Jobs \cup {NoJob}
  BY WorkerAssumption DEF IInv, TypeOK
<1>1. PICK row : row = [Absent EXCEPT !.status = IF j \in Delayed THEN "delayed" ELSE "waiting",
                                      !.parent = p0]
  OBVIOUS
<1>2. row \in Row /\ row.status \in {"delayed", "waiting"} /\ row.parent = p0 /\ row.token = 0
      /\ row.end = "none"
  BY <1>1, <1>t, StatusIs DEF Absent, Row
<1>3. /\ job[j].status = "absent" /\ inbox' = inbox /\ open' = open
      /\ p0 # NoJob => job[p0].status # "absent" /\ ~Locked(p0) /\ ~Shared(p0)
  BY DEF Add
<1>4. PICK first : first = [job EXCEPT ![j] = row]
  OBVIOUS
<1>5. first \in [Jobs -> Row] /\ first[j] = row /\ \A k \in Jobs \ {j} : first[k] = job[k]
  BY <1>2, <1>4, <1>t
<1>6. job' \in [Jobs -> Row] /\ job'[j] = row
      /\ \A k \in Jobs \ {j} :
            \/ job'[k] = job[k]
            \/ /\ k = p0 /\ job'[k].parent = job[k].parent /\ job'[k].token = job[k].token
               /\ job'[k].end = job[k].end /\ job'[k].status = "waiting-children"
               /\ job[k].status \in {"waiting", "active", "delayed"}
  <2>1. CASE p0 = NoJob
    <3>1. job' = [first EXCEPT ![j].status = IF j \in Delayed THEN "delayed" ELSE "waiting"]
      BY <1>1, <1>4, <2>1 DEF Add
    <3>2. [row EXCEPT !.status = IF j \in Delayed THEN "delayed" ELSE "waiting"] = row
      BY <1>1 DEF Absent
    <3>3. job' = first
      BY <3>1, <3>2, <1>5
    <3> QED BY <3>3, <1>5
  <2>2. CASE p0 # NoJob
    <3>1. p0 \in Jobs /\ p0 # j
      BY <2>2, <1>t, <1>3
    <3>2. PICK status : status = IF job[p0].status \in {"waiting", "active", "delayed"}
                                 THEN "waiting-children" ELSE job[p0].status
      OBVIOUS
    <3>3. job' = [first EXCEPT ![p0].status = status]
      BY <1>1, <1>4, <2>2, <3>2 DEF Add
    <3>4. PICK waits : waits = [job[p0] EXCEPT !.status = status]
      OBVIOUS
    <3>5. status \in Statuses /\ job[p0] \in Row
      BY <3>1, <3>2, <1>t, StatusIs DEF Row
    <3>6. /\ waits \in Row /\ waits.parent = job[p0].parent /\ waits.token = job[p0].token
          /\ waits.end = job[p0].end /\ waits.status = status
          /\ status = job[p0].status => waits = job[p0]
      BY <3>4, <3>5 DEF Row
    <3>7. job' = [first EXCEPT ![p0] = waits]
      BY <3>1, <3>3, <3>4, <1>5
    <3>8. job' \in [Jobs -> Row] /\ job'[p0] = waits /\ \A k \in Jobs \ {p0} : job'[k] = first[k]
      BY <3>1, <3>6, <3>7, <1>5
    <3> QED BY <3>1, <3>2, <3>6, <3>8, <1>5
  <2> QED BY <2>1, <2>2
<1>7. ASSUME NEW k \in Jobs \ {j}
      PROVE  /\ job'[k].parent = job[k].parent /\ job'[k].token = job[k].token
             /\ job'[k].end = job[k].end
             /\ job'[k].status = job[k].status \/
                  (k = p0 /\ job'[k].status = "waiting-children"
                     /\ job[k].status \in {"waiting", "active", "delayed"})
  BY <1>6
<1>8. Links'
  <2> SUFFICES ASSUME NEW k \in Jobs
               PROVE  /\ job'[k].parent \in {ParentOf[k], NoJob}
                      /\ job'[k].parent # NoJob => job'[job'[k].parent].status # "absent"
                      /\ IF job'[k].status = "absent"
                         THEN job'[k].parent = NoJob /\ job'[k].end = "none" ELSE k \in submitted'
                      /\ job'[k].status \in Terminal => job'[k].end # "none"
    BY DEF Links
  <2>1. CASE k = j
    <3>1. p0 # NoJob => job'[p0].status # "absent"
      BY <1>3, <1>7, <1>t
    <3> QED BY <2>1, <3>1, <1>2, <1>6, StatusIs
  <2>2. CASE k # j
    <3>1. job'[k].parent = job[k].parent /\ job[k].parent # j
      BY <2>2, <1>3, <1>7, <1>t DEF Links
    <3>2. job[k].parent \in Jobs \cup {NoJob}
      BY <1>t DEF Row
    <3>3. job[k].parent # NoJob => job'[job[k].parent].status # "absent"
      BY <3>1, <3>2, <1>7, <1>t DEF Links
    <3> QED BY <2>2, <3>1, <3>3, <1>7, <1>t, StatusIs DEF Links
  <2> QED BY <2>1, <2>2
<1>9. RowsKept
  <2>1. ASSUME NEW x \in open', NEW k \in x.rows \cup x.woken PROVE job'[k] = job[k]
    <3>1. x \in open /\ k \in Jobs /\ Locked(k)
      BY <2>1, <1>3, <1>t DEF Locked, Transaction
    <3>2. job[k].status # "absent"
      BY <3>1, <2>1, StatusFacts DEF IInv, OpenRows
    <3>3. k # p0 \/ p0 = NoJob
      BY <3>1, <1>3
    <3> QED BY <3>1, <3>2, <3>3, <1>3, <1>6, QueueAssumption
  <2>2. ASSUME NEW p \in Jobs, job'[p].status = "waiting-children",
               job[p].status # "waiting-children"
        PROVE  Settled(p)
    <3>1. p = p0 /\ p # NoJob /\ p # j
      BY <2>2, <1>2, <1>6, <1>7
    <3>2. job'[j].parent = p /\ Alive(job', j)
      BY <3>1, <1>2, <1>6, StatusIs DEF Alive
    <3>3. LiveChildren(job', p) # {}
      BY <3>2 DEF LiveChildren
    <3> QED BY <3>1, <3>3, <1>3 DEF Settled
  <2>3. \A p \in Jobs : Restarted(p) => job'[p].end # "none"
    BY <1>3, <1>7, <1>t DEF Restarted, Links
  <2>4. \A k \in submitted : job[k].status = "absent" => job'[k].status = "absent"
    BY <1>7, <1>t
  <2> QED BY <1>3, <1>6, <1>8, <1>t, <2>1, <2>2, <2>3, <2>4 DEF RowsKept
<1>10. ASSUME NEW c \in Jobs, job[c].parent # NoJob PROVE ChildStep(c, job[c].parent)
  <2>1. c # j
    BY <1>10, <1>3, <1>t DEF Links
  <2> QED BY <2>1, <1>7, StatusIs DEF ChildStep, Alive
<1>11. QueueKept
  <2>1. Links' /\ OpenRows' /\ ParentsTold' /\ ParentsExcused' /\ LastChildWakesParent'
    BY <1>8, <1>9, <1>10, TransactionsKept, WokenKept
  <2> QED BY <2>1, <1>3, <1>6, <1>t DEF QueueKept
<1>12. TokensLeft
  BY <1>2, <1>6, <1>7, RowOf DEF TokensLeft
<1>13. EndsLeft
  BY <1>2, <1>3, <1>6, <1>7, StatusIs, StatusFacts DEF EndsLeft
<1>14. EndingsReported
  BY <1>2, <1>6, <1>7, StatusIs DEF EndingsReported, EndingReported, Alive
<1> QED BY <1>11, <1>12, <1>13, <1>14

----------------------------------------------------------------------------
(* The transactions of several steps.                                      *)

LEMMA SameRows ==
    ASSUME IInv, Bystanders, job' = job, inbox' = inbox
    PROVE  /\ Links' /\ LastChildWakesParent' /\ EndingsReported /\ TokensLeft /\ EndsLeft
           /\ job' \in [Jobs -> Row] /\ inbox' \in [Jobs -> SUBSET Message]
<1>1. Links'
  BY DEF IInv, Links, Bystanders
<1>2. LastChildWakesParent'
  <2> SUFFICES ASSUME NEW p \in Jobs, Stranded(p)' PROVE Unnotified(p)'
    BY DEF LastChildWakesParent
  <2>1. Unnotified(p)
    BY DEF IInv, LastChildWakesParent, Stranded
  <2>2. commands > 0 => commands' > 0
    BY WorkerAssumption DEF IInv, TypeOK, Bystanders
  <2> QED BY <2>1, <2>2 DEF Unnotified, ChildrenOf, Swept, Restarted, Bystanders
<1>3. EndingsReported
  BY DEF EndingsReported, EndingReported, Alive
<1>4. TokensLeft
  BY RowOf DEF TokensLeft
<1>5. job' \in [Jobs -> Row] /\ inbox' \in [Jobs -> SUBSET Message]
  BY DEF IInv, TypeOK
<1> QED BY <1>1, <1>2, <1>3, <1>4, <1>5 DEF EndsLeft

LEMMA ExcusedStays ==
    ASSUME IInv, Bystanders, job' = job, NEW p \in Jobs, NEW S, Excused(p, S)
    PROVE  Excused(p, S)'
<1>1. commands > 0 => commands' > 0
  BY WorkerAssumption DEF IInv, TypeOK, Bystanders
<1> QED BY <1>1 DEF Excused, ChildrenOf, Restarted, Bystanders, Alive

LEMMA BeginDone ==
    ASSUME IInv, Bystanders, NEW outcome \in {"timeout", "cancelled"}, NEW rows \in SUBSET Jobs,
           \A j \in rows : job[j].status \in Cancellable, Begin(outcome, rows)
    PROVE  QueueKept /\ EndingsReported /\ TokensLeft /\ EndsLeft
<1>1. PICK new : new = [outcome |-> outcome, rows |-> rows, step |-> "updated",
                        told |-> {}, woken |-> {}]
  OBVIOUS
<1>2. /\ new \in Transaction /\ new.rows = rows /\ new.woken = {} /\ new.step = "updated"
  BY <1>1 DEF Transaction
<1>3. /\ open' = open \cup {new} /\ job' = job /\ inbox' = inbox /\ \A j \in rows : ~Locked(j)
  BY <1>1 DEF Begin
<1>4. open' \subseteq Transaction
  BY <1>2, <1>3 DEF IInv, TypeOK
<1>5. OpenRows'
  BY <1>2, <1>3 DEF IInv, OpenRows, Locked
<1>6. ParentsTold'
  BY <1>2, <1>3 DEF IInv, ParentsTold, Restarted
<1>7. ParentsExcused'
  <2> SUFFICES ASSUME NEW x \in open', x.step = "notified", NEW c \in x.rows,
                      job[c].parent # NoJob, job[c].parent \notin x.rows \cup x.woken,
                      job[job[c].parent].status = "waiting-children"
               PROVE  Excused(job[c].parent, x.rows)'
    BY <1>3 DEF ParentsExcused
  <2>1. x \in open /\ c \in Jobs
    BY <1>2, <1>3, <1>4 DEF Transaction
  <2>2. Excused(job[c].parent, x.rows)
    BY <2>1 DEF IInv, ParentsExcused
  <2>3. job[c].parent \in Jobs
    BY <2>1, RowOf DEF Row
  <2>4. \A p \in Jobs : p = job[c].parent => Excused(p, x.rows)'
    BY <1>3, <2>2, ExcusedStays
  <2> QED BY <1>3, <2>3, <2>4 DEF Excused, ChildrenOf, Restarted
<1> QED BY <1>3, <1>4, <1>5, <1>6, <1>7, SameRows DEF QueueKept

LEMMA RollbackDone ==
    ASSUME IInv, Bystanders, NEW x \in open, Rollback(x)
    PROVE  QueueKept /\ EndingsReported /\ TokensLeft /\ EndsLeft
<1>3. open' \subseteq open /\ job' = job /\ inbox' = inbox
  BY DEF Rollback
<1>4. open' \subseteq Transaction
  BY <1>3 DEF IInv, TypeOK
<1>5. OpenRows' /\ ParentsTold'
  BY <1>3 DEF IInv, OpenRows, ParentsTold, Restarted
<1>7. ParentsExcused'
  <2> SUFFICES ASSUME NEW y \in open', y.step = "notified", NEW c \in y.rows,
                      job[c].parent # NoJob, job[c].parent \notin y.rows \cup y.woken,
                      job[job[c].parent].status = "waiting-children"
               PROVE  Excused(job[c].parent, y.rows)'
    BY <1>3 DEF ParentsExcused
  <2>1. y \in open /\ c \in Jobs
    BY <1>3, <1>4 DEF Transaction
  <2>2. Excused(job[c].parent, y.rows)
    BY <2>1 DEF IInv, ParentsExcused
  <2>3. job[c].parent \in Jobs
    BY <2>1, RowOf DEF Row
  <2>4. \A p \in Jobs : p = job[c].parent => Excused(p, y.rows)'
    BY <1>3, <2>2, ExcusedStays
  <2> QED BY <1>3, <2>3, <2>4 DEF Excused, ChildrenOf, Restarted
<1> QED BY <1>3, <1>4, <1>5, <1>7, SameRows DEF QueueKept

\* The table as the transaction sees it: its rows have ended.
LEMMA EndedByFacts ==
    ASSUME IInv, NEW x \in open
    PROVE  /\ EndedBy(x) \in [Jobs -> Row]
           /\ \A j \in Jobs \ x.rows : EndedBy(x)[j] = job[j]
           /\ \A j \in x.rows : /\ EndedBy(x)[j].status \in {"cancelled", "dead"}
                                /\ EndedBy(x)[j].end = x.outcome
                                /\ EndedBy(x)[j].token = 0
                                /\ EndedBy(x)[j].parent = job[j].parent
<1>t. x \in Transaction /\ job \in [Jobs -> Row]
  BY DEF IInv, TypeOK
<1>1. x.rows \subseteq Jobs /\ x.outcome \in {"timeout", "cancelled"}
  BY <1>t DEF Transaction
<1>2. \A j \in Jobs : EndedBy(x)[j] =
         IF j \in x.rows THEN IF x.outcome = "cancelled" THEN Ended(job[j], "cancelled", "cancelled")
                              ELSE Tried(Ended(job[j], "dead", "timeout"))
                         ELSE job[j]
  BY DEF EndedBy, Update
<1>3. ASSUME NEW j \in x.rows
      PROVE  /\ EndedBy(x)[j] \in Row /\ EndedBy(x)[j].status \in {"cancelled", "dead"}
             /\ EndedBy(x)[j].end = x.outcome /\ EndedBy(x)[j].token = 0
             /\ EndedBy(x)[j].parent = job[j].parent
  <2>1. j \in Jobs /\ job[j] \in Row
    BY <1>1, <1>t
  <2>2. CASE x.outcome = "cancelled"
    <3>1. "cancelled" \in Statuses /\ "cancelled" \in Ends
      BY StatusIs
    <3>2. EndedBy(x)[j] = Ended(job[j], "cancelled", "cancelled")
      BY <1>2, <2>1, <2>2
    <3> QED BY <2>1, <2>2, <3>1, <3>2, EndedFields
  <2>3. CASE x.outcome = "timeout"
    <3>1. "dead" \in Statuses /\ "timeout" \in Ends
      BY StatusIs
    <3>2. EndedBy(x)[j] = Tried(Ended(job[j], "dead", "timeout"))
      BY <1>2, <2>1, <2>3
    <3>3. PICK ended : ended = Ended(job[j], "dead", "timeout")
      OBVIOUS
    <3>4. ended \in Row /\ ended.status = "dead" /\ ended.end = "timeout" /\ ended.token = 0
          /\ ended.parent = job[j].parent
      BY <2>1, <3>1, <3>3, EndedFields
    <3> QED BY <2>3, <3>2, <3>3, <3>4, TriedFields
  <2> QED BY <1>1, <2>2, <2>3
<1>4. EndedBy(x) = [j \in Jobs |-> EndedBy(x)[j]]
  BY DEF EndedBy, Update
<1>5. \A j \in Jobs : EndedBy(x)[j] \in Row
  BY <1>2, <1>3, <1>t
<1> QED BY <1>2, <1>3, <1>4, <1>5

LEMMA NotifyDone ==
    ASSUME IInv, Bystanders, NEW x \in open, Notify(x)
    PROVE  QueueKept /\ EndingsReported /\ TokensLeft /\ EndsLeft
<1> USE QueueAssumption
<1> DEFINE parents == {job[c].parent : c \in x.rows} \ {NoJob}
<1>t. job \in [Jobs -> Row] /\ open \subseteq Transaction /\ Links /\ OpenRows
      /\ x.rows \subseteq Jobs
  BY DEF IInv, TypeOK, Transaction
<1>1. PICK woken, told, new :
        /\ woken = Unwaited(EndedBy(x), parents) /\ told = LiveParents(EndedBy(x), x.rows)
        /\ new = [x EXCEPT !.step = "notified", !.woken = woken, !.told = told]
  OBVIOUS
<1>2. /\ \A y \in open \ {x} : woken \cap (y.rows \cup y.woken) = {}
      /\ open' = (open \ {x}) \cup {new} /\ job' = job /\ inbox' = inbox
  BY <1>1 DEF Notify
<1>e. /\ \A j \in Jobs \ x.rows : EndedBy(x)[j] = job[j]
      /\ \A j \in x.rows : EndedBy(x)[j].status \in {"cancelled", "dead"}
  BY EndedByFacts
<1>p. parents \subseteq Jobs
  <2> SUFFICES ASSUME NEW c \in x.rows, job[c].parent # NoJob PROVE job[c].parent \in Jobs
    OBVIOUS
  <2> QED BY <1>t DEF Row
<1>3. new \in Transaction /\ new.rows = x.rows /\ new.woken = woken /\ new.told = told
      /\ new.step = "notified"
  <2>1. woken \subseteq Jobs /\ told \subseteq Jobs
    BY <1>1, <1>p DEF Unwaited, LiveParents
  <2>2. x \in Transaction
    BY <1>t
  <2> QED BY <1>1, <2>1, <2>2 DEF Transaction
<1>4. \A p \in woken : p \in Jobs /\ p \notin x.rows /\ job[p].status = "waiting-children"
  <2> SUFFICES ASSUME NEW p \in woken
               PROVE  p \in Jobs /\ p \notin x.rows /\ job[p].status = "waiting-children"
    OBVIOUS
  <2>1. p \in Jobs /\ EndedBy(x)[p].status = "waiting-children"
    BY <1>1, <1>p DEF Unwaited
  <2> QED BY <2>1, <1>e
<1>5. open' \subseteq Transaction
  BY <1>t, <1>2, <1>3
<1>6. OpenRows'
  <2>1. \A y \in open' : /\ \A j \in y.rows : job'[j].status \in Cancellable
                         /\ \A j \in y.woken : job'[j].status = "waiting-children"
                         /\ y.rows \cap y.woken = {}
    BY <1>t, <1>2, <1>3, <1>4 DEF OpenRows
  <2>2. \A y \in open \ {x} : (new.rows \cup new.woken) \cap (y.rows \cup y.woken) = {}
    BY <1>t, <1>2, <1>3 DEF OpenRows
  <2>3. \A y, z \in open' : y # z => (y.rows \cup y.woken) \cap (z.rows \cup z.woken) = {}
    BY <1>t, <1>2, <2>2 DEF OpenRows
  <2> QED BY <2>1, <2>3 DEF OpenRows
<1>7. ParentsTold'
  <2>1. ASSUME NEW c \in x.rows
        PROVE  job[c].parent \in told \cup x.rows \cup {NoJob} \/ job[job[c].parent].end # "none"
    <3> SUFFICES ASSUME NEW p, p = job[c].parent, p # NoJob, p \notin x.rows
                 PROVE  p \in told \/ job[p].end # "none"
      OBVIOUS
    <3>1. p \in Jobs /\ c \in Jobs /\ job[p].status # "absent" /\ EndedBy(x)[p] = job[p]
      BY <1>t, <1>p, <1>e DEF Links
    <3>2. CASE job[p].status \in Terminal
      BY <3>1, <3>2, RowOf
    <3>3. CASE job[p].status \notin Terminal
      BY <3>1, <3>3, <1>1 DEF LiveParents, Alive
    <3> QED BY <3>2, <3>3
  <2> QED BY <2>1, <1>2, <1>3 DEF IInv, ParentsTold, Restarted
<1>8. ParentsExcused'
  <2> SUFFICES ASSUME NEW y \in open', y.step = "notified", NEW c \in y.rows,
                      job[c].parent # NoJob, job[c].parent \notin y.rows \cup y.woken,
                      job[job[c].parent].status = "waiting-children"
               PROVE  Excused(job[c].parent, y.rows)'
    BY <1>2 DEF ParentsExcused
  <2>1. c \in Jobs /\ job[c].parent \in Jobs
    BY <1>5, RowOf DEF Transaction, Row
  <2>2. Excused(job[c].parent, y.rows)
    <3>1. CASE y # new
      BY <3>1, <1>2 DEF IInv, ParentsExcused
    <3>2. CASE y = new
      <4> SUFFICES ASSUME NEW p, p = job[c].parent PROVE Excused(p, x.rows)
        BY <3>2, <1>3
      <4>1. p \in parents /\ p \notin x.rows /\ p \notin woken
            /\ job[p].status = "waiting-children" /\ p \in Jobs
        BY <2>1, <3>2, <1>3
      <4>2. LiveChildren(EndedBy(x), p) # {}
        BY <4>1, <1>1, <1>e DEF Unwaited
      <4>3. PICK d \in Jobs : EndedBy(x)[d].parent = p /\ Alive(EndedBy(x), d)
        BY <4>2 DEF LiveChildren
      <4>4. d \notin x.rows
        BY <4>3, <1>e, StatusIs DEF Alive
      <4>5. job[d].parent = p /\ Alive(job, d)
        BY <4>3, <4>4, <1>e DEF Alive
      <4> QED BY <4>4, <4>5 DEF Excused, ChildrenOf
    <3> QED BY <3>1, <3>2
  <2>3. \A p \in Jobs : p = job[c].parent => Excused(p, y.rows)'
    BY <1>2, <2>2, ExcusedStays
  <2> QED BY <1>2, <2>1, <2>3 DEF Excused, ChildrenOf, Restarted
<1> QED BY <1>2, <1>5, <1>6, <1>7, <1>8, SameRows DEF QueueKept

LEMMA CommitDone ==
    ASSUME IInv, Bystanders, NEW x \in open, Commit(x)
    PROVE  QueueKept /\ EndingsReported /\ TokensLeft /\ EndsLeft
<1> USE QueueAssumption
<1>t. /\ job \in [Jobs -> Row] /\ open \subseteq Transaction /\ Links /\ OpenRows
      /\ inbox \in [Jobs -> SUBSET Message] /\ submitted \subseteq Jobs /\ commands \in Nat
      /\ x.rows \subseteq Jobs /\ x.woken \subseteq Jobs /\ x.outcome \in {"timeout", "cancelled"}
  BY WorkerAssumption DEF IInv, TypeOK, Transaction
<1>1. /\ x.step = "notified" /\ open' = open \ {x}
      /\ job' = Update(EndedBy(x), x.woken, LAMBDA r : [r EXCEPT !.status = "waiting"])
      /\ inbox' = Post(x.told, x.rows, x.outcome)
  BY DEF Commit
<1>o. /\ \A j \in x.rows : job[j].status \in Cancellable
      /\ \A j \in x.woken : job[j].status = "waiting-children" /\ j \notin x.rows
  BY <1>t DEF OpenRows
<1>e. /\ EndedBy(x) \in [Jobs -> Row]
      /\ \A j \in Jobs \ x.rows : EndedBy(x)[j] = job[j]
      /\ \A j \in x.rows : /\ EndedBy(x)[j].status \in {"cancelled", "dead"}
                           /\ EndedBy(x)[j].end = x.outcome
                           /\ EndedBy(x)[j].token = 0
                           /\ EndedBy(x)[j].parent = job[j].parent
  BY EndedByFacts
<1>2. \A j \in Jobs : job'[j] = IF j \in x.woken THEN [EndedBy(x)[j] EXCEPT !.status = "waiting"]
                                ELSE EndedBy(x)[j]
  BY <1>1 DEF Update
<1>3. ASSUME NEW j \in x.woken
      PROVE  /\ job'[j] \in Row /\ job'[j].status = "waiting" /\ job'[j].end = job[j].end
             /\ job'[j].token = job[j].token /\ job'[j].parent = job[j].parent
  <2>1. j \in Jobs /\ job'[j] = [job[j] EXCEPT !.status = "waiting"] /\ job[j] \in Row
    BY <1>2, <1>e, <1>o, <1>t
  <2> QED BY <2>1, StatusIs DEF Row
<1>4. ASSUME NEW j \in x.rows
      PROVE  /\ job'[j].status \in {"cancelled", "dead"} /\ job'[j].end = x.outcome
             /\ job'[j].token = 0 /\ job'[j].parent = job[j].parent
  BY <1>2, <1>e, <1>o, <1>t
<1>5. \A j \in Jobs : j \in x.rows \/ j \in x.woken \/ job'[j] = job[j]
  BY <1>2, <1>e
<1>6. job' \in [Jobs -> Row]
  <2>1. job' = [j \in Jobs |-> job'[j]]
    BY <1>1 DEF Update
  <2>2. \A j \in Jobs : job'[j] \in Row
    <3> SUFFICES ASSUME NEW j \in Jobs PROVE job'[j] \in Row
      OBVIOUS
    <3>1. CASE j \in x.woken
      BY <3>1, <1>3
    <3>2. CASE j \notin x.woken
      <4>1. job'[j] = EndedBy(x)[j]
        BY <3>2, <1>2
      <4> QED BY <4>1, <1>e
    <3> QED BY <3>1, <3>2
  <2> QED BY <2>1, <2>2
<1>7. \A j \in Jobs : /\ job'[j].parent = job[j].parent
                      /\ job'[j].status = "absent" <=> job[j].status = "absent"
                      /\ job'[j].status = "waiting-children" => job[j].status = "waiting-children"
                      /\ job[j].end # "none" => job'[j].end # "none"
  BY <1>3, <1>4, <1>5, <1>o, <1>t, StatusFacts
<1>8. inbox' \in [Jobs -> SUBSET Message]
  BY <1>1, <1>t, StatusIs, PostFacts
<1>9. Links'
  <2> SUFFICES ASSUME NEW j \in Jobs
               PROVE  /\ job'[j].parent \in {ParentOf[j], NoJob}
                      /\ job'[j].parent # NoJob => job'[job'[j].parent].status # "absent"
                      /\ IF job'[j].status = "absent"
                         THEN job'[j].parent = NoJob /\ job'[j].end = "none" ELSE j \in submitted'
                      /\ job'[j].status \in Terminal => job'[j].end # "none"
    BY DEF Links
  <2>1. job[j].parent \in Jobs \cup {NoJob}
    BY <1>t DEF Row
  <2>2. job'[j].parent # NoJob => job'[job'[j].parent].status # "absent"
    BY <2>1, <1>7, <1>t DEF Links
  <2>3. job'[j].status = "absent" => job'[j] = job[j]
    BY <1>3, <1>4, <1>5
  <2>4. job'[j].status \in Terminal => job'[j].end # "none"
    BY <1>3, <1>4, <1>5, <1>t, StatusIs DEF Links
  <2> QED BY <2>2, <2>3, <2>4, <1>7, <1>t DEF Links, Bystanders
<1>10. \A y \in open' : (x.rows \cup x.woken) \cap (y.rows \cup y.woken) = {}
  BY <1>1, <1>t DEF OpenRows
<1>11. RowsKept
  <2>1. ASSUME NEW y \in open', NEW j \in y.rows \cup y.woken PROVE job'[j] = job[j]
    <3>1. j \in Jobs /\ j \notin x.rows \cup x.woken
      BY <2>1, <1>1, <1>t, <1>10 DEF Transaction
    <3> QED BY <3>1, <1>5
  <2>2. open' \subseteq open
    BY <1>1
  <2> QED BY <2>1, <2>2, <1>6, <1>7, <1>9, <1>t DEF RowsKept, Bystanders, Restarted
<1>12. ASSUME NEW c \in Jobs, job[c].parent # NoJob
       PROVE  ChildStep(c, job[c].parent) \/ SweptAway(c, job[c].parent)
  <2>1. CASE c \in x.rows
    BY <2>1, <1>4, <1>10, <1>t DEF SweptAway
  <2>2. CASE c \in x.woken
    BY <2>2, <1>3, <1>o, <1>12, <1>7, StatusIs DEF ChildStep, Alive
  <2>3. CASE job'[c] = job[c]
    BY <2>3 DEF ChildStep, Alive
  <2> QED BY <2>1, <2>2, <2>3, <1>5
<1>13. OpenRows' /\ ParentsTold' /\ ParentsExcused'
  BY <1>11, <1>12, TransactionsKept
<1>14. LastChildWakesParent'
  <2> SUFFICES ASSUME NEW p \in Jobs, Stranded(p)', ~Unnotified(p)' PROVE FALSE
    BY DEF LastChildWakesParent
  <2>1. job'[p].status = "waiting-children" /\ LiveChildren(job', p) = {}
    BY DEF Stranded
  <2>2. p \notin x.rows /\ p \notin x.woken /\ job'[p] = job[p] /\ p # NoJob
    BY <2>1, <1>3, <1>4, <1>5, StatusIs
  <2>3. \A d \in Jobs : job[d].parent = p =>
           /\ job'[d].parent = p /\ d # NoJob
           /\ d \notin x.rows => job'[d].end = job[d].end /\ (Alive(job, d) => Alive(job', d))
    BY <1>3, <1>5, <1>7, StatusIs DEF Alive
  <2>4. commands > 0 => commands' > 0
    BY <1>t DEF Bystanders
  <2>5. ~(commands > 0 /\ \E d \in submitted : ParentOf[d] = p /\ job[d].status = "absent")
    BY <2>4, <1>7, <1>t DEF Unnotified, Bystanders
  <2>6. \A d \in ChildrenOf(p) : d \notin x.rows => ~Alive(job, d) /\ job[d].end \notin Silent
    BY <2>1, <2>3 DEF ChildrenOf, LiveChildren, Unnotified
  <2>7. CASE \E c \in x.rows : job[c].parent = p
    <3>1. PICK c \in x.rows : job[c].parent = p
      BY <2>7
    <3>2. c \in Swept(p)'
      BY <3>1, <1>4, <1>t DEF Swept, ChildrenOf
    <3>3. Excused(p, x.rows)
      BY <3>1, <2>1, <2>2, <1>1 DEF IInv, ParentsExcused
    <3>4. ~Restarted(p)
      BY <3>2, <2>2 DEF Unnotified, Restarted
    <3>5. PICK d \in ChildrenOf(p) \ x.rows :
             Alive(job, d) \/ job[d].end \in Silent \cup {"timeout", "cancelled"}
      BY <3>3, <3>4, <2>5 DEF Excused
    <3>6. d \in Swept(p)' /\ d # c
      BY <3>5, <2>3, <2>6 DEF Swept, ChildrenOf
    <3> QED BY <3>2, <3>6 DEF Unnotified
  <2>8. CASE ~\E c \in x.rows : job[c].parent = p
    <3>1. \A d \in ChildrenOf(p) : d \notin x.rows
      BY <2>8 DEF ChildrenOf
    <3>2. LiveChildren(job, p) = {}
      BY <3>1, <2>6 DEF LiveChildren, ChildrenOf
    <3>3. Unnotified(p)
      BY <3>2, <2>1, <2>2 DEF IInv, LastChildWakesParent, Stranded
    <3>4. PICK c \in Swept(p), d \in Swept(p) : c # d \/ Restarted(p)
      BY <3>1, <3>3, <2>5, <2>6 DEF Unnotified
    <3>5. c \in Swept(p)' /\ d \in Swept(p)'
      BY <3>1, <2>3 DEF Swept, ChildrenOf
    <3>6. c # d \/ Restarted(p)'
      BY <3>4, <2>2 DEF Restarted
    <3> QED BY <3>5, <3>6 DEF Unnotified
  <2> QED BY <2>7, <2>8
<1>15. TokensLeft
  <2> SUFFICES ASSUME NEW j \in Jobs
               PROVE  job'[j].token = 0 \/ (job'[j].token = job[j].token /\ job'[j].status # "absent")
    BY DEF TokensLeft
  <2> QED BY <1>3, <1>4, <1>5, <1>7, RowOf
<1>16. EndsLeft
  <2> SUFFICES ASSUME NEW j \in Jobs, job[j].status \in Terminal PROVE job'[j].status \in Terminal
    BY DEF EndsLeft
  <2>1. j \notin x.rows /\ j \notin x.woken
    BY <1>o, StatusFacts
  <2> QED BY <2>1, <1>5
<1>17. EndingsReported
  <2> SUFFICES ASSUME NEW c \in Jobs, Alive(job, c), job'[c].status \in Terminal,
                      NEW p, p = job[c].parent, Alive(job, p), ~Restarted(p),
                      Alive(job', p) \/ job'[p].status = "failed"
               PROVE  [child |-> c, outcome |-> job'[c].end, read |-> FALSE] \in inbox'[p]
    BY DEF EndingsReported, EndingReported
  <2>1. p \in Jobs /\ p # NoJob
    BY <1>t DEF Alive, Row
  <2>2. c \in x.rows
    BY <1>3, <1>5, StatusIs DEF Alive
  <2>3. p \notin x.rows
    BY <1>4, StatusIs DEF Alive
  <2>4. p \in x.told
    BY <2>1, <2>2, <2>3, <1>1 DEF IInv, ParentsTold
  <2>5. job'[c].end = x.outcome /\ x.outcome \in Ends
    BY <2>2, <1>4, <1>t, StatusIs
  <2> QED BY <2>1, <2>2, <2>4, <2>5, <1>1, <1>t, PostFacts
<1>18. open' \subseteq Transaction
  BY <1>1, <1>t
<1> QED BY <1>6, <1>8, <1>9, <1>13, <1>14, <1>15, <1>16, <1>17, <1>18 DEF QueueKept

----------------------------------------------------------------------------
(* The steps of the workers, the submitter and the operator.               *)

WorkerTyped ==
    /\ run \in [Tokens -> Run] /\ claims \in 0..MaxClaims
    /\ children \subseteq Jobs /\ submitted \subseteq Jobs
    /\ summary \in [Children -> Ends \cup {"missing", "none"}]
    /\ bounces \in 0..MaxBounces /\ commands \in 0..MaxCommands

RunsLeft == \A t \in Tokens : /\ run'[t].job = run[t].job
                              /\ run'[t].pc # "free" => run[t].pc # "free"

EndedLeft ==
    \A j \in Jobs :
        job[j].status \in Terminal =>
            \/ job'[j].status \in Terminal \cup {"absent"}
            \/ job'[j].end = "revived"
            \/ \E t \in Tokens : run[t].job = j /\ run[t].pc = "quiet" /\ run'[t].pc = "done"

LatestCounts ==
    \A t \in Tokens : (Working(t) /\ run'[t].pc = "done" /\ job' # job) => t \in LatestOf(run[t].job)

StepKept == IInv' /\ EndingsReported /\ EndedLeft /\ LatestCounts

LEMMA WorkerFacts ==
    ASSUME IInv
    PROVE  /\ WorkerTyped /\ Tokens \subseteq Nat \ {0}
           /\ \A t \in Tokens : run[t] \in Run /\ (run[t].pc # "free" => run[t].job \in Jobs)
           /\ commands \in Nat /\ claims \in Nat
BY WorkerAssumption DEF IInv, TypeOK, WorkerTyped, Tokens, TokensOrdered

LEMMA TokensKept ==
    ASSUME IInv, TokensLeft, RunsLeft, claims' = claims, job' \in [Jobs -> Row]
    PROVE  TokensOrdered'
<1>1. \A j \in Jobs : /\ job'[j].token = 0 \/ job'[j].token = job[j].token
                      /\ job'[j].status = "absent" => job'[j].token = 0
  BY DEF TokensLeft
<1>2. \A t \in Tokens : /\ run'[t].pc # "free" => run'[t].job \in Jobs
                        /\ run'[t].job # NoJob => t <= claims'
  BY DEF RunsLeft, IInv, TokensOrdered
<1>3. \A j \in Jobs : job'[j].token <= claims'
  BY <1>1, WorkerFacts DEF IInv, TokensOrdered
<1>4. \A j \in Jobs, t \in Tokens : run'[t].job = j /\ job'[j].token # 0 => t <= job'[j].token
  BY <1>1 DEF RunsLeft, IInv, TokensOrdered
<1> QED BY <1>1, <1>2, <1>3, <1>4 DEF TokensOrdered

LEMMA Assembled ==
    ASSUME IInv, QueueKept, TokensLeft, RunsLeft, claims' = claims, WorkerTyped'
    PROVE  IInv'
<1>1. TokensOrdered'
  BY TokensKept DEF QueueKept
<1>2. TypeOK'
  BY DEF QueueKept, WorkerTyped, TypeOK
<1> QED BY <1>1, <1>2 DEF IInv, QueueKept

LEMMA FinishFacts ==
    ASSUME IInv, NEW t \in Tokens, run[t].pc # "free", Finish(t)
    PROVE  /\ run' \in [Tokens -> Run] /\ RunsLeft /\ run'[t].pc = "done"
           /\ \A u \in Tokens \ {t} : run'[u] = run[u]
<1>1. run \in [Tokens -> Run] /\ run[t] \in Run
  BY DEF IInv, TypeOK
<1>2. PICK over : over = [run[t] EXCEPT !.pc = "done", !.ids = {}, !.got = {}]
  OBVIOUS
<1>3. over \in Run /\ over.job = run[t].job /\ over.pc = "done"
  BY <1>1, <1>2 DEF Run
<1>4. run' = [run EXCEPT ![t] = over]
  BY <1>2 DEF Finish
<1> QED BY <1>1, <1>3, <1>4 DEF RunsLeft

LEMMA StepFacts ==
    ASSUME IInv, NEW t \in Tokens, run[t].pc # "free",
           NEW pc \in {"skipping", "running", "fenced", "read"}, Step(t, pc)
    PROVE  /\ run' \in [Tokens -> Run] /\ RunsLeft
           /\ \A u \in Tokens : run'[u].pc = "done" => run[u].pc = "done"
<1>1. run \in [Tokens -> Run] /\ run[t] \in Run
  BY DEF IInv, TypeOK
<1>2. PICK next : next = [run[t] EXCEPT !.pc = pc]
  OBVIOUS
<1>3. next \in Run /\ next.job = run[t].job /\ next.pc = pc
  BY <1>1, <1>2 DEF Run
<1>4. run' = [run EXCEPT ![t] = next]
  BY <1>1, <1>2 DEF Step
<1> QED BY <1>1, <1>3, <1>4 DEF RunsLeft

\* A step of the queue that ends no run's handler.
LEMMA NoRunEnds ==
    ASSUME IInv, QueueKept, EndingsReported, TokensLeft, EndsLeft, RunsLeft, WorkerTyped',
           claims' = claims,
           \A u \in Tokens : run'[u].pc = "done" => ~Working(u)
    PROVE  StepKept
BY Assembled DEF StepKept, EndsLeft, EndedLeft, LatestCounts

LEMMA SameRuns ==
    ASSUME IInv, QueueKept, EndingsReported, TokensLeft, EndsLeft, run' = run, WorkerTyped',
           claims' = claims
    PROVE  StepKept
BY NoRunEnds DEF RunsLeft, Working

\* A step by which a handler ends: it changes rows only in the name of the
\* token that its job's row holds.
LEMMA RunEnds ==
    ASSUME IInv, QueueKept, EndingsReported, TokensLeft, EndsLeft, WorkerTyped',
           claims' = claims, NEW t \in Tokens, run[t].pc # "free", Finish(t),
           job' # job => Fenced(run[t].job, t)
    PROVE  StepKept
<1>0. t \in Nat \ {0} /\ run[t].job \in Jobs
  <2>1. Tokens \subseteq Nat \ {0} /\ \A u \in Tokens : run[u].pc # "free" => run[u].job \in Jobs
    BY WorkerFacts
  <2> QED BY <2>1
<1>1. RunsLeft /\ \A u \in Tokens \ {t} : run'[u] = run[u]
  BY FinishFacts
<1>2. ASSUME job' # job PROVE t \in LatestOf(run[t].job)
  <2>1. run[t].job \in Jobs /\ t # 0
    BY <1>0
  <2>2. Fenced(run[t].job, t)
    BY <1>2
  <2>3. job[run[t].job].token = t
    BY <2>2 DEF Fenced
  <2> QED BY <2>1, <2>3 DEF LatestOf, IInv, TokensOrdered
<1>3. LatestCounts
  BY <1>1, <1>2 DEF LatestCounts, Working
<1> QED BY <1>1, <1>3, Assembled DEF StepKept, EndsLeft, EndedLeft

LEMMA SubmitKeeps == ASSUME IInv, NEW j \in Jobs, Submit(j) PROVE StepKept
<1>1. QueueKept /\ EndingsReported /\ TokensLeft /\ EndsLeft
  BY AddDone DEF Submit
<1>2. WorkerTyped'
  BY WorkerFacts DEF Submit, WorkerTyped
<1> QED BY <1>1, <1>2, SameRuns DEF Submit

LEMMA NameChildrenKeeps == ASSUME IInv, NameChildren PROVE StepKept
<1>1. QueueKept /\ EndingsReported /\ TokensLeft /\ EndsLeft
  BY UnchangedDone, WorkerFacts DEF NameChildren, queueVars, Bystanders
<1>2. WorkerTyped'
  BY WorkerFacts DEF NameChildren, WorkerTyped, Children
<1> QED BY <1>1, <1>2, SameRuns DEF NameChildren

LEMMA LaunchKeeps == ASSUME IInv, NEW j \in Jobs, Launch(j) PROVE StepKept
<1> USE QueueAssumption
<1> DEFINE t == claims + 1
<1>t. WorkerTyped /\ claims \in Nat /\ run \in [Tokens -> Run] /\ children \subseteq Jobs
      /\ commands \in Nat
  BY WorkerFacts DEF WorkerTyped
<1>1. /\ t \in Tokens /\ t \in Nat /\ Claim(j, t) /\ claims' = t
      /\ UNCHANGED <<children, submitted, summary, bounces, commands>>
  BY <1>t DEF Launch
<1>2. PICK new : new = [Free EXCEPT !.job = j, !.pc = IF j \in Quiet THEN "quiet" ELSE "running",
                                    !.ids = IF j = Aggregator THEN children ELSE {}]
  OBVIOUS
<1>3. new \in Run /\ new.job = j /\ new.pc \in {"quiet", "running"}
  BY <1>2, <1>t DEF Free, Run
<1>4. run' = [run EXCEPT ![t] = new]
  BY <1>2 DEF Launch
<1>5. run' \in [Tokens -> Run] /\ run'[t] = new /\ \A u \in Tokens \ {t} : run'[u] = run[u]
  BY <1>1, <1>3, <1>4, <1>t
<1>6. QueueKept /\ EndingsReported /\ EndsLeft
  BY <1>1, <1>t, ClaimDone DEF Bystanders
<1>7. WorkerTyped'
  BY <1>1, <1>5, <1>t, WorkerAssumption DEF WorkerTyped, Tokens
<1>8. job' \in [Jobs -> Row] /\ job'[j].token = t /\ job'[j].status = "active"
      /\ \A k \in Jobs \ {j} : job'[k] = job[k]
  BY <1>1, <1>6, RowOf DEF QueueKept, Claim, Row
<1>9. TokensOrdered'
  <2>1. ASSUME NEW u \in Tokens
        PROVE  /\ run'[u].pc # "free" => run'[u].job \in Jobs
               /\ run'[u].job # NoJob => u <= claims'
    <3>1. CASE u = t
      BY <3>1, <1>1, <1>3, <1>5
    <3>2. CASE u # t
      BY <3>2, <1>1, <1>5, <1>t DEF IInv, TokensOrdered, Tokens
    <3> QED BY <3>1, <3>2
  <2>2. ASSUME NEW k \in Jobs
        PROVE  /\ job'[k].token <= claims'
               /\ job'[k].status = "absent" => job'[k].token = 0
    <3>1. job[k].token \in Nat /\ job[k].token <= claims
      BY RowOf DEF Row, IInv, TokensOrdered
    <3> QED BY <3>1, <1>1, <1>8, <1>t DEF IInv, TokensOrdered
  <2>3. ASSUME NEW k \in Jobs, NEW u \in Tokens, run'[u].job = k, job'[k].token # 0
        PROVE  u <= job'[k].token
    <3>1. CASE k = j
      BY <3>1, <2>1, <2>3, <1>1, <1>8
    <3>2. CASE k # j
      <4>1. u # t
        BY <3>2, <2>3, <1>3, <1>5
      <4> QED BY <4>1, <3>2, <2>3, <1>5, <1>8 DEF IInv, TokensOrdered
    <3> QED BY <3>1, <3>2
  <2> QED BY <2>1, <2>2, <2>3 DEF TokensOrdered
<1>10. IInv'
  <2>1. TypeOK'
    BY <1>6, <1>7 DEF QueueKept, WorkerTyped, TypeOK
  <2> QED BY <2>1, <1>6, <1>9 DEF IInv, QueueKept
<1>11. LatestCounts
  BY <1>3, <1>5 DEF LatestCounts, Working
<1> QED BY <1>6, <1>10, <1>11 DEF StepKept, EndsLeft, EndedLeft

LEMMA RunFacts ==
    ASSUME IInv, NEW t \in Tokens, run[t].pc # "free"
    PROVE  t \in Nat \ {0} /\ run[t].job \in Jobs /\ run[t] \in Run
BY WorkerFacts

LEMMA QuietAllowsKeeps == ASSUME IInv, NEW t \in Tokens, QuietAllows(t) PROVE StepKept
<1>1. QueueKept /\ EndingsReported /\ TokensLeft /\ EndsLeft
  BY UnchangedDone, WorkerFacts DEF QuietAllows, queueVars, Bystanders
<1>2. run' \in [Tokens -> Run] /\ RunsLeft /\ \A u \in Tokens : run'[u].pc = "done" => run[u].pc = "done"
  BY StepFacts DEF QuietAllows
<1>3. WorkerTyped'
  BY <1>2, WorkerFacts DEF QuietAllows, WorkerTyped
<1>4. \A u \in Tokens : run'[u].pc = "done" => ~Working(u)
  BY <1>2 DEF Working
<1> QED BY <1>1, <1>2, <1>3, <1>4, NoRunEnds DEF QuietAllows

LEMMA QuietDefersKeeps == ASSUME IInv, NEW t \in Tokens, QuietDefers(t) PROVE StepKept
<1> DEFINE j == run[t].job
<1>1. run[t].pc = "quiet" /\ ~Locked(j) /\ Finish(t) /\ open' = open /\ inbox' = inbox
      /\ UNCHANGED <<claims, children, submitted, summary, bounces, commands>>
  BY DEF QuietDefers
<1>2. j \in Jobs /\ t # 0 /\ Bystanders
  BY <1>1, RunFacts, WorkerFacts DEF Bystanders
<1>3. run' \in [Tokens -> Run] /\ RunsLeft /\ run'[t].pc = "done"
      /\ \A u \in Tokens \ {t} : run'[u] = run[u]
  BY <1>1, FinishFacts
<1>4. WorkerTyped'
  BY <1>1, <1>3, WorkerFacts DEF WorkerTyped
<1>5. QueueKept /\ EndingsReported /\ TokensLeft
      /\ \A k \in Jobs \ {j} : job'[k] = job[k]
  <2>1. CASE job[j].token = t
    <3>1. PICK row : row = [Unlocked(job[j]) EXCEPT !.status = "delayed"]
      OBVIOUS
    <3>2. job' = [job EXCEPT ![j] = row]
      BY <2>1, <3>1 DEF QuietDefers
    <3>3. row \in Row /\ row.status = "delayed" /\ row.token = 0 /\ row.parent = job[j].parent
          /\ row.end = job[j].end
      BY <1>2, <3>1, RowOf, StatusIs, RowFields
    <3>4. job[j].status # "absent"
      BY <1>2, <2>1, RowOf
    <3>5. QueueKept /\ EndingsReported /\ TokensLeft
      BY <1>1, <1>2, <3>2, <3>3, <3>4, StatusIs, UnlockDone
    <3> QED BY <3>2, <3>5, <1>2, RowOf
  <2>2. CASE job[j].token # t
    <3>1. job' = job
      BY <2>2 DEF QuietDefers
    <3> QED BY <1>1, <1>2, <3>1, UnchangedDone
  <2> QED BY <2>1, <2>2
<1>6. EndedLeft
  BY <1>1, <1>3, <1>5 DEF EndedLeft
<1>7. LatestCounts
  BY <1>1, <1>3 DEF LatestCounts, Working
<1> QED BY <1>1, <1>3, <1>4, <1>5, <1>6, <1>7, Assembled DEF StepKept

LEMMA QuietSkipsKeeps == ASSUME IInv, NEW t \in Tokens, QuietSkips(t) PROVE StepKept
<1> DEFINE j == run[t].job
<1>1. run[t].pc = "quiet" /\ ~Locked(j) /\ Step(t, "skipping") /\ open' = open /\ inbox' = inbox
      /\ UNCHANGED <<claims, children, submitted, summary, bounces, commands>>
  BY DEF QuietSkips
<1>2. j \in Jobs /\ t # 0 /\ Bystanders
  BY <1>1, RunFacts, WorkerFacts DEF Bystanders
<1>3. run' \in [Tokens -> Run] /\ RunsLeft /\ \A u \in Tokens : run'[u].pc = "done" => run[u].pc = "done"
  BY <1>1, StepFacts
<1>4. WorkerTyped'
  BY <1>1, <1>3, WorkerFacts DEF WorkerTyped
<1>5. QueueKept /\ EndingsReported /\ TokensLeft /\ EndsLeft
  <2>1. CASE job[j].token = t
    <3>1. PICK row : row = Unlocked(job[j])
      OBVIOUS
    <3>2. job' = [job EXCEPT ![j] = row]
      BY <2>1, <3>1 DEF QuietSkips
    <3>3. row \in Row /\ row.status = job[j].status /\ row.token = 0 /\ row.parent = job[j].parent
          /\ row.end = job[j].end
      BY <1>2, <3>1, RowOf, StatusIs, RowFields
    <3>4. job[j].status # "absent"
      BY <1>2, <2>1, RowOf
    <3> QED BY <1>1, <1>2, <3>2, <3>3, <3>4, UnlockDone
  <2>2. CASE job[j].token # t
    <3>1. job' = job
      BY <2>2 DEF QuietSkips
    <3> QED BY <1>1, <1>2, <3>1, UnchangedDone
  <2> QED BY <2>1, <2>2
<1>6. \A u \in Tokens : run'[u].pc = "done" => ~Working(u)
  BY <1>3 DEF Working
<1> QED BY <1>1, <1>3, <1>4, <1>5, <1>6, NoRunEnds

LEMMA CancelDone ==
    ASSUME IInv, Bystanders, NEW j, CancelJob(j)
    PROVE  QueueKept /\ EndingsReported /\ TokensLeft /\ EndsLeft
<1>1. PICK rows : rows = ToCancel(j)
  OBVIOUS
<1>2. rows \in SUBSET Jobs /\ \A c \in rows : job[c].status \in Cancellable
  BY <1>1 DEF ToCancel
<1>3. Begin("cancelled", rows)
  BY <1>1 DEF CancelJob
<1> QED BY <1>2, <1>3, BeginDone

LEMMA SkipCancelsKeeps == ASSUME IInv, NEW t \in Tokens, SkipCancels(t) PROVE StepKept
<1>1. run[t].pc = "skipping" /\ Finish(t)
      /\ UNCHANGED <<claims, children, submitted, summary, bounces, commands>>
  BY DEF SkipCancels
<1>2. Bystanders
  BY <1>1, WorkerFacts DEF Bystanders
<1>3. run' \in [Tokens -> Run] /\ RunsLeft /\ \A u \in Tokens \ {t} : run'[u] = run[u]
  BY <1>1, FinishFacts
<1>4. WorkerTyped'
  BY <1>1, <1>3, WorkerFacts DEF WorkerTyped
<1>5. QueueKept /\ EndingsReported /\ TokensLeft /\ EndsLeft
  <2>1. CASE ToCancel(run[t].job) = {}
    BY <1>2, <2>1, UnchangedDone DEF SkipCancels, queueVars
  <2>2. CASE ToCancel(run[t].job) # {}
    <3>1. CancelJob(run[t].job)
      BY <2>2 DEF SkipCancels
    <3> QED BY <3>1, <1>2, CancelDone
  <2> QED BY <2>1, <2>2
<1>6. \A u \in Tokens : run'[u].pc = "done" => ~Working(u)
  BY <1>1, <1>3 DEF Working
<1> QED BY <1>1, <1>3, <1>4, <1>5, <1>6, NoRunEnds

LEMMA SkipFallsBackKeeps == ASSUME IInv, NEW t \in Tokens, SkipFallsBack(t) PROVE StepKept
<1> DEFINE j == run[t].job
<1>1. run[t].pc = "skipping" /\ ~Locked(j) /\ Finish(t) /\ open' = open /\ inbox' = inbox
      /\ UNCHANGED <<claims, children, submitted, summary, bounces, commands>>
  BY DEF SkipFallsBack
<1>2. j \in Jobs /\ t # 0 /\ Bystanders
  BY <1>1, RunFacts, WorkerFacts DEF Bystanders
<1>3. run' \in [Tokens -> Run] /\ RunsLeft /\ \A u \in Tokens \ {t} : run'[u] = run[u]
  BY <1>1, FinishFacts
<1>4. WorkerTyped'
  BY <1>1, <1>3, WorkerFacts DEF WorkerTyped
<1>5. QueueKept /\ EndingsReported /\ TokensLeft /\ EndsLeft
  <2>1. CASE job[j].status \notin {"completed", "failed", "dead", "absent"}
    <3>1. PICK row : row = [job[j] EXCEPT !.status = "cancelled", !.end = "skipped"]
      OBVIOUS
    <3>2. job' = [job EXCEPT ![j] = row]
      BY <2>1, <3>1 DEF SkipFallsBack
    <3>3. row \in Row /\ row.status = "cancelled" /\ row.token = job[j].token
          /\ row.parent = job[j].parent /\ row.end = "skipped"
      BY <1>2, <3>1, RowOf, StatusIs DEF Row
    <3>4. RowChange(job[j], row)
      BY <2>1, <3>3, StatusIs DEF RowChange
    <3>5. \A k \in Jobs \ {j} : job'[k] = job[k]
      BY <3>2, <1>2, RowOf
    <3>6. job'[j] = row
      BY <3>2, <1>2, RowOf
    <3>7. TokensLeft
      BY <3>3, <3>5, <3>6, RowOf DEF TokensLeft
    <3>8. EndsLeft
      BY <3>3, <3>5, <3>6, StatusIs DEF EndsLeft
    <3> QED BY <1>1, <1>2, <3>2, <3>4, <3>7, <3>8, OneRowDone
  <2>2. CASE job[j].status \in {"completed", "failed", "dead", "absent"}
    <3>1. job' = job
      BY <2>2 DEF SkipFallsBack
    <3> QED BY <1>1, <1>2, <3>1, UnchangedDone
  <2> QED BY <2>1, <2>2
<1>6. \A u \in Tokens : run'[u].pc = "done" => ~Working(u)
  BY <1>1, <1>3 DEF Working
<1> QED BY <1>1, <1>3, <1>4, <1>5, <1>6, NoRunEnds

LEMMA EvictKeeps == ASSUME IInv, NEW t \in Tokens, Evict(t) PROVE StepKept
<1>1. run[t].pc = "running" /\ FailJob(run[t].job, t, "dead") /\ UNCHANGED workerVars
  BY DEF Evict
<1>2. run[t].job \in Jobs /\ t \in Nat \ {0} /\ Bystanders
  BY <1>1, RunFacts, WorkerFacts DEF Bystanders, workerVars
<1>3. QueueKept /\ EndingsReported /\ TokensLeft /\ EndsLeft
  BY <1>1, <1>2, FailDone
<1>4. WorkerTyped'
  BY <1>1, WorkerFacts DEF WorkerTyped, workerVars
<1> QED BY <1>1, <1>3, <1>4, SameRuns DEF workerVars

LEMMA CheckFenceKeeps == ASSUME IInv, NEW t \in Tokens, CheckFence(t) PROVE StepKept
<1>1. run[t].pc = "running" /\ UNCHANGED <<queueVars, claims, children, submitted, summary, bounces, commands>>
  BY DEF CheckFence
<1>2. PICK pc \in {"fenced", "read"} : Step(t, pc)
  BY DEF CheckFence
<1>3. run' \in [Tokens -> Run] /\ RunsLeft /\ \A u \in Tokens : run'[u].pc = "done" => run[u].pc = "done"
  BY <1>1, <1>2, StepFacts
<1>4. QueueKept /\ EndingsReported /\ TokensLeft /\ EndsLeft
  BY <1>1, UnchangedDone, WorkerFacts DEF queueVars, Bystanders
<1>5. WorkerTyped'
  BY <1>1, <1>3, WorkerFacts DEF WorkerTyped
<1>6. \A u \in Tokens : run'[u].pc = "done" => ~Working(u)
  BY <1>3 DEF Working
<1> QED BY <1>1, <1>3, <1>4, <1>5, <1>6, NoRunEnds

LEMMA TakeMessagesKeeps == ASSUME IInv, NEW t \in Tokens, TakeMessages(t) PROVE StepKept
<1> USE QueueAssumption
<1>t. inbox \in [Jobs -> SUBSET Message] /\ job \in [Jobs -> Row] /\ Aggregator \in Jobs
      /\ run \in [Tokens -> Run] /\ run[t] \in Run
  BY WorkerAssumption DEF IInv, TypeOK
<1>1. PICK got : got = {<<m.child, m.outcome>> : m \in {m \in inbox[Aggregator] : ~m.read}}
  OBVIOUS
<1>2. /\ run[t].pc = "fenced"
      /\ inbox' = [inbox EXCEPT ![Aggregator] = {[m EXCEPT !.read = TRUE] : m \in inbox[Aggregator]}]
      /\ run' = [run EXCEPT ![t].pc = "read", ![t].got = got]
      /\ UNCHANGED <<job, open, claims, children, submitted, summary, bounces, commands>>
  BY <1>1 DEF TakeMessages
<1>3. got \in SUBSET (Jobs \X Ends)
  BY <1>1, <1>t DEF Message
<1>4. PICK next : next = [run[t] EXCEPT !.pc = "read", !.got = got]
  OBVIOUS
<1>5. next \in Run /\ next.job = run[t].job /\ next.pc = "read"
  BY <1>3, <1>4, <1>t DEF Run
<1>6. run' = [run EXCEPT ![t] = next]
  BY <1>2, <1>4, <1>t
<1>7. run' \in [Tokens -> Run] /\ RunsLeft /\ \A u \in Tokens : run'[u].pc = "done" => run[u].pc = "done"
  BY <1>2, <1>5, <1>6, <1>t DEF RunsLeft
<1>8. inbox' \in [Jobs -> SUBSET Message]
  <2>1. \A m \in Message : [m EXCEPT !.read = TRUE] \in Message
    BY DEF Message
  <2>2. PICK marked : marked = {[m EXCEPT !.read = TRUE] : m \in inbox[Aggregator]}
    OBVIOUS
  <2>3. marked \in SUBSET Message
    BY <2>1, <2>2, <1>t
  <2>4. inbox' = [inbox EXCEPT ![Aggregator] = marked]
    BY <2>2, <1>2
  <2> QED BY <2>3, <2>4, <1>t
<1>9. Bystanders
  BY <1>2, WorkerFacts DEF Bystanders
<1>10. QueueKept
  <2>1. /\ RowsKept
        /\ \A c \in Jobs : job[c].parent # NoJob => ChildStep(c, job[c].parent)
    BY <1>2, <1>9, <1>t, RowsStepKeeps DEF Bystanders
  <2> QED BY <2>1, <1>2, <1>8, <1>9, EndingDone
<1>11. EndingsReported /\ TokensLeft /\ EndsLeft
  <2>1. TokensLeft
    BY <1>2, RowOf DEF TokensLeft
  <2>2. EndingsReported
    BY <1>2 DEF EndingsReported, EndingReported, Alive
  <2> QED BY <1>2, <2>1, <2>2 DEF EndsLeft
<1>12. WorkerTyped'
  BY <1>2, <1>7, WorkerFacts DEF WorkerTyped
<1>13. \A u \in Tokens : run'[u].pc = "done" => ~Working(u)
  BY <1>7 DEF Working
<1> QED BY <1>2, <1>7, <1>10, <1>11, <1>12, <1>13, NoRunEnds

LEMMA ReturnsKeeps == ASSUME IInv, NEW t \in Tokens, Returns(t) PROVE StepKept
<1> DEFINE j == run[t].job
<1>1. Working(t) /\ CompleteJob(j, t) /\ Finish(t)
      /\ UNCHANGED <<claims, children, submitted, bounces, commands>>
  BY DEF Returns
<1>2. j \in Jobs /\ t \in Nat \ {0} /\ run[t].pc # "free" /\ Bystanders
  BY <1>1, RunFacts, WorkerFacts DEF Bystanders, Working
<1>3. QueueKept /\ EndingsReported /\ TokensLeft /\ EndsLeft
  BY <1>1, <1>2, CompleteDone
<1>4. summary' \in [Children -> Ends \cup {"missing", "none"}]
  <2>1. \/ summary' \in [Children -> Ends \cup {"missing", "none"}]
        \/ summary' = summary
    BY DEF Returns
  <2> QED BY <2>1, WorkerFacts DEF WorkerTyped
<1>5. WorkerTyped'
  BY <1>1, <1>2, <1>4, FinishFacts, WorkerFacts DEF WorkerTyped
<1>6. job' # job => Fenced(j, t)
  BY <1>1 DEF CompleteJob, queueVars
<1> QED BY <1>1, <1>2, <1>3, <1>5, <1>6, RunEnds

LEMMA ThrowsKeeps ==
    ASSUME IInv, NEW t \in Tokens, Throws(t) \/ ThrowsUnrecoverable(t) PROVE StepKept
<1> DEFINE j == run[t].job
<1>1. PICK status \in {"dead", "delayed"} : FailJob(j, t, status)
  BY DEF Throws, ThrowsUnrecoverable
<1>0. Working(t) /\ Finish(t)
      /\ UNCHANGED <<claims, children, submitted, summary, bounces, commands>>
  BY DEF Throws, ThrowsUnrecoverable
<1>2. j \in Jobs /\ t \in Nat \ {0} /\ run[t].pc # "free" /\ Bystanders
  BY <1>0, RunFacts, WorkerFacts DEF Bystanders, Working
<1>3. QueueKept /\ EndingsReported /\ TokensLeft /\ EndsLeft
  BY <1>1, <1>2, FailDone, DelayDone
<1>5. WorkerTyped'
  BY <1>0, <1>2, FinishFacts, WorkerFacts DEF WorkerTyped
<1>6. job' # job => Fenced(j, t)
  BY <1>1 DEF FailJob, queueVars
<1> QED BY <1>0, <1>2, <1>3, <1>5, <1>6, RunEnds

LEMMA BouncesKeeps == ASSUME IInv, NEW t \in Tokens, Bounces(t) PROVE StepKept
<1> DEFINE j == run[t].job
<1>1. run[t].pc = "running" /\ ReleaseLeaseFull(j, t) /\ Finish(t)
      /\ bounces < MaxBounces /\ bounces' = bounces + 1
      /\ UNCHANGED <<claims, children, submitted, summary, commands>>
  BY DEF Bounces
<1>2. j \in Jobs /\ t \in Nat \ {0} /\ Bystanders
  BY <1>1, RunFacts, WorkerFacts DEF Bystanders
<1>3. QueueKept /\ EndingsReported /\ TokensLeft /\ EndsLeft
  BY <1>1, <1>2, ReleaseDone
<1>4. bounces' \in 0..MaxBounces
  BY <1>1, WorkerFacts, WorkerAssumption DEF WorkerTyped
<1>5. WorkerTyped'
  BY <1>1, <1>4, FinishFacts, WorkerFacts DEF WorkerTyped
<1>6. job' # job => Fenced(j, t)
  BY <1>1 DEF ReleaseLeaseFull
<1> QED BY <1>1, <1>3, <1>5, <1>6, RunEnds

LEMMA AbandonsKeeps == ASSUME IInv, NEW t \in Tokens, Abandons(t) PROVE StepKept
<1>1. run[t].pc # "free" /\ Finish(t)
      /\ UNCHANGED <<queueVars, claims, children, submitted, summary, bounces, commands>>
  BY DEF Abandons
<1>3. QueueKept /\ EndingsReported /\ TokensLeft /\ EndsLeft
  BY <1>1, UnchangedDone, WorkerFacts DEF queueVars, Bystanders
<1>5. WorkerTyped'
  BY <1>1, FinishFacts, WorkerFacts DEF WorkerTyped
<1>6. job' = job
  BY <1>1 DEF queueVars
<1> QED BY <1>1, <1>3, <1>5, <1>6, RunEnds

LEMMA SweepKeeps == ASSUME IInv, Sweep \/ RollsBack PROVE StepKept
<1>1. UNCHANGED workerVars
  BY DEF Sweep, RollsBack
<1>2. Bystanders /\ WorkerTyped'
  BY <1>1, WorkerFacts DEF Bystanders, workerVars, WorkerTyped
<1>3. QueueKept /\ EndingsReported /\ TokensLeft /\ EndsLeft
  <2>1. ASSUME NEW S \in SUBSET Active, HandleStalled(S)
        PROVE  QueueKept /\ EndingsReported /\ TokensLeft /\ EndsLeft
    <3>1. S \in SUBSET Jobs
      BY DEF Active
    <3> QED BY <2>1, <3>1, <1>2, StalledDone
  <2>2. ASSUME NEW S \in SUBSET Active, HandleTimeouts(S) \/ HandleWallClockTimeouts(S)
        PROVE  QueueKept /\ EndingsReported /\ TokensLeft /\ EndsLeft
    <3>1. S \in SUBSET Jobs /\ \A j \in S : job[j].status \in Cancellable
      BY DEF Active, Cancellable
    <3>2. Begin("timeout", S)
      BY <2>2 DEF HandleTimeouts, HandleWallClockTimeouts
    <3> QED BY <3>1, <3>2, <1>2, BeginDone
  <2>3. ASSUME NEW x \in open, Notify(x) \/ Commit(x) \/ Rollback(x)
        PROVE  QueueKept /\ EndingsReported /\ TokensLeft /\ EndsLeft
    BY <2>3, <1>2, NotifyDone, CommitDone, RollbackDone
  <2> QED BY <2>1, <2>2, <2>3 DEF Sweep, RollsBack
<1> QED BY <1>1, <1>2, <1>3, SameRuns DEF workerVars

LEMMA CommandKeeps == ASSUME IInv, NEW j \in Jobs, Command(j) PROVE StepKept
<1>1. commands < MaxCommands /\ commands' = commands + 1
      /\ UNCHANGED <<run, claims, children, submitted, summary, bounces>>
  BY DEF Command
<1>2. Bystanders /\ commands' > 0 /\ commands' \in 0..MaxCommands
  BY <1>1, WorkerFacts, WorkerAssumption DEF Bystanders
<1>3. QueueKept /\ EndingsReported /\ TokensLeft /\ EndsLeft
  BY <1>2, CancelDone, RetryDone, PauseDone, RemoveDone DEF Command
<1>4. WorkerTyped'
  BY <1>1, <1>2, WorkerFacts DEF WorkerTyped
<1> QED BY <1>1, <1>3, <1>4, SameRuns

LEMMA PromoteKeeps == ASSUME IInv, NEW j \in Jobs, Promote(j) \/ Resume(j) PROVE StepKept
<1>1. UNCHANGED workerVars
  BY DEF Promote, Resume
<1>2. Bystanders /\ WorkerTyped'
  BY <1>1, WorkerFacts DEF Bystanders, workerVars, WorkerTyped
<1>3. QueueKept /\ EndingsReported /\ TokensLeft /\ EndsLeft
  BY <1>2, PromoteDone, ResumeDone DEF Promote, Resume
<1> QED BY <1>1, <1>2, <1>3, SameRuns DEF workerVars

----------------------------------------------------------------------------
LEMMA InitIInv == Init => IInv
<1> USE QueueAssumption
<1> SUFFICES ASSUME Init PROVE IInv
  OBVIOUS
<1>1. Absent \in Row /\ Absent.status = "absent" /\ Absent.parent = NoJob /\ Absent.token = 0
      /\ Absent.end = "none"
  BY DEF Absent, Row, Statuses
<1>2. Free \in Run /\ Free.pc = "free" /\ Free.job = NoJob
  BY DEF Free, Run
<1>3. /\ job = [j \in Jobs |-> Absent] /\ inbox = [j \in Jobs |-> {}] /\ open = {}
      /\ run = [t \in Tokens |-> Free] /\ claims = 0 /\ bounces = 0 /\ commands = 0
      /\ children = {} /\ submitted = {} /\ summary = [c \in Children |-> "none"]
  BY DEF Init, QueueInit
<1>4. TypeOK
  BY <1>1, <1>2, <1>3, WorkerAssumption DEF TypeOK
<1>5. TokensOrdered
  BY <1>1, <1>2, <1>3 DEF TokensOrdered
<1>6. Links
  BY <1>1, <1>3, StatusFacts DEF Links
<1>7. OpenRows /\ ParentsTold /\ ParentsExcused
  BY <1>3 DEF OpenRows, ParentsTold, ParentsExcused
<1>8. LastChildWakesParent
  BY <1>1, <1>3 DEF LastChildWakesParent, Stranded
<1> QED BY <1>4, <1>5, <1>6, <1>7, <1>8 DEF IInv

LEMMA StepIInv == IInv /\ [Next]_vars => StepKept
<1> SUFFICES ASSUME IInv, [Next]_vars PROVE StepKept
  OBVIOUS
<1>1. CASE UNCHANGED vars
  <2>1. QueueKept /\ EndingsReported /\ TokensLeft /\ EndsLeft
    BY <1>1, UnchangedDone, WorkerFacts DEF vars, queueVars, workerVars, Bystanders
  <2>2. WorkerTyped'
    BY <1>1, WorkerFacts DEF vars, workerVars, WorkerTyped
  <2> QED BY <1>1, <2>1, <2>2, SameRuns DEF vars, workerVars
<1>2. ASSUME NEW j \in Jobs, Submit(j) \/ Launch(j) \/ Promote(j) \/ Command(j) \/ Resume(j)
      PROVE  StepKept
  BY <1>2, SubmitKeeps, LaunchKeeps, PromoteKeeps, CommandKeeps
<1>3. ASSUME NEW t \in Tokens, RunStep(t) PROVE StepKept
  BY <1>3, QuietAllowsKeeps, QuietDefersKeeps, QuietSkipsKeeps, SkipCancelsKeeps,
     SkipFallsBackKeeps, CheckFenceKeeps, TakeMessagesKeeps, ReturnsKeeps, ThrowsKeeps,
     BouncesKeeps, EvictKeeps, AbandonsKeeps DEF RunStep
<1> QED BY <1>1, <1>2, <1>3, NameChildrenKeeps, SweepKeeps DEF Next

LEMMA InvariantHolds == Spec => []IInv
<1>1. IInv /\ [Next]_vars => IInv'
  BY StepIInv DEF StepKept
<1> QED BY InitIInv, <1>1, PTL DEF Spec

----------------------------------------------------------------------------
(* The theorems.                                                           *)

\* The tables, the messages, the open transactions and the runs keep their
\* types (minion_jobs and minion_inbox).
THEOREM QueueTypeCorrect == Spec => []TypeOK
BY InvariantHolds, PTL DEF IInv

\* completeJob, failJob and releaseLeaseFullJob: a handler's end changes a row
\* only if no later claim of its job has been made.
THEOREM LatestRunCorrect == Spec => OnlyTheLatestRunCounts
<1>1. IInv /\ [Next]_vars =>
        [\A t \in Tokens : (Working(t) /\ run'[t].pc = "done" /\ job' # job)
                              => t \in LatestOf(run[t].job)]_vars
  BY StepIInv DEF StepKept, LatestCounts
<1> QED BY InvariantHolds, <1>1, PTL DEF Spec, OnlyTheLatestRunCounts

\* A terminal row leaves its status by removal, the operator's retry or the
\* deferral of a claim whose parent row failed with its child, and by nothing
\* a late run, a sweep, a promotion or a resolved parent does.
THEOREM FinalityOfJobs == Spec => EndedStaysEnded
<1>1. IInv /\ [Next]_vars =>
        [\A j \in Jobs :
            job[j].status \in Terminal =>
                \/ job'[j].status \in Terminal \cup {"absent"}
                \/ job'[j].end = "revived"
                \/ \E t \in Tokens : run[t].job = j /\ run[t].pc = "quiet" /\ run'[t].pc = "done"]_vars
  BY StepIInv DEF StepKept, EndedLeft
<1> QED BY InvariantHolds, <1>1, PTL DEF Spec, EndedStaysEnded

\* Every ending of a child that is not silent puts its child_done message in
\* the inbox of a parent that is alive (completeJob, failJob, the timeout
\* sweeps and cancelJob), in the step that makes the ending visible.
THEOREM EndingsAreReported == Spec => EndIsReported
<1>1. IInv /\ [Next]_vars =>
        [\A c \in Jobs :
            LET p == job[c].parent IN
            (/\ Alive(job, c) /\ job'[c].status \in Terminal /\ job'[c].end \notin Silent
             /\ Alive(job, p) /\ ~Restarted(p)
             /\ Alive(job', p) \/ job'[p].status = "failed")
                => [child |-> c, outcome |-> job'[c].end, read |-> FALSE] \in inbox'[p]]_vars
  BY StepIInv DEF StepKept, EndingsReported, EndingReported
<1> QED BY InvariantHolds, <1>1, PTL DEF Spec, EndIsReported

\* A parent in waiting-children has a live child, or one of the causes that
\* Unnotified names kept its last child's ending from it.
THEOREM ParentsAreWoken == Spec => []LastChildWakesParent
BY InvariantHolds, PTL DEF IInv
=============================================================================
