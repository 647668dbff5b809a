---------------------------- MODULE CloningProofs ----------------------------
(***************************************************************************)
(* Proofs about clone jobs.  The inductive invariant CloneInv has three    *)
(* parts.  A key is claimed once, its target is its own, and only the      *)
(* handler that claimed it submits.  Every handle that is kept anywhere,   *)
(* in a job, a refresh or a recovery, is that of the job's own task.  And  *)
(* what a refresh found on its way still holds of the job's own machine,   *)
(* because a task that ended well is never run again: a machine that       *)
(* carries the job's marker is the one the refresh looked at.              *)
(***************************************************************************)
EXTENDS Cloning, WellFoundedInduction, TLAPS

Job == [st : {"none", "accepted", "running", "succeeded", "failed"},
        target : Vmids \cup {None}, upid : Jobs \cup {None}]

Desk == [known : BOOLEAN, present : BOOLEAN, enabled : BOOLEAN]

Hand == [ph : {"new", "admitted", "surveyed", "suggested", "reserved", "submitted", "done"},
         occupied : SUBSET Vmids, next : Vmids \cup {None}]

Refresh == [ph : {"idle", "reading", "locked", "network", "dhcp", "gpu", "pci", "register", "upsert", "complete"},
            job : Jobs \cup {None}, upid : Jobs \cup {None}, cfg : VM, fail : BOOLEAN, touched : BOOLEAN]

CloneTypes ==
  /\ job \in [Jobs -> Job]
  /\ desk \in [Vmids -> Desk]
  /\ inventory \in (SUBSET Vmids) \cup {None}
  /\ lock \in [Vmids -> Refreshers \cup {"recovery", None}]
  /\ hand \in [Requests -> Hand]
  /\ work \in [Refreshers -> Refresh]
  /\ cursor \in [Loops -> Jobs \cup {0}]
  /\ page \in [Loops -> SUBSET Jobs]
  /\ recovery \in [job : Jobs \cup {None}, upid : Jobs \cup {None}]
  /\ calls \in SUBSET Jobs
  /\ task \in [Jobs -> {"none", "running", "ok", "failed"}]
  /\ vm \in [Vmids -> VM]
  /\ submitted \in [Jobs -> {0, 1}]

Claimed(k) == job[k].st # "none"

\* A claimed job has a target of its own and follows its own task.
Targets ==
  /\ \A k \in Jobs :
       /\ Claimed(k) => job[k].target \in Vmids
       /\ ~Claimed(k) => job[k].target = None /\ job[k].upid = None /\ submitted[k] = 0
       /\ job[k].upid \in {None, k}
       /\ job[k].st = "running" => job[k].upid # None
       /\ k \in calls => Claimed(k)
  /\ \A k, l \in Jobs : job[k].target = job[l].target /\ k # l => job[k].target = None
  /\ recovery.upid = recovery.job
  /\ recovery.job # None => Claimed(recovery.job)

\* Only the handler that claimed the key has the clone to submit.
Claims ==
  \A r \in Requests :
    /\ hand[r].ph \in {"reserved", "submitted"} => Claimed(JobOf[r])
    /\ hand[r].ph = "suggested" => hand[r].next \in Vmids
    /\ hand[r].ph = "reserved" =>
         /\ submitted[JobOf[r]] = 0
         /\ \A s \in Requests : s # r /\ JobOf[s] = JobOf[r] => hand[s].ph # "reserved"

Machine(k) == vm[job[k].target]

\* The refresh r is in one of the steps, or at its end and has not failed.
Within(r, steps) == r.ph \in steps \/ (r.ph = "complete" /\ ~r.fail)

\* What a refresh has found out about its job, and may still rely on.
Relies(r) ==
  r.ph # "idle" =>
    /\ r.job \in Jobs /\ Claimed(r.job) /\ (r.ph # "reading" => r.upid = r.job)
    /\ Within(r, {"network", "dhcp", "gpu", "pci", "register", "upsert"}) => task[r.job] = "ok"
    /\ Within(r, {"gpu", "pci", "register", "upsert"}) /\ r.job \in NeedsNetwork
         => (Machine(r.job).mark = r.job => Machine(r.job).net)
    /\ Within(r, {"register", "upsert"}) /\ ~r.fail /\ r.job \in NeedsGpu
         => (Machine(r.job).mark = r.job => Machine(r.job).gpu)
    /\ Within(r, {"upsert"}) /\ ~r.touched => MarkerMatches(r.job)
    /\ r.ph = "complete" /\ ~r.fail => desk[job[r.job].target].known

CloneInv == CloneTypes /\ Targets /\ Claims /\ \A w \in Refreshers : Relies(work[w])

-----------------------------------------------------------------------------
(* Operators                                                               *)

\* A set of numbers that is not empty has a least member.
LEMMA MinIsMember ==
  ASSUME NEW S \in SUBSET Nat, S # {}
  PROVE  Min(S) \in S
  <1>1. PICK R : R = OpToRel(<, Nat)
    BY Zenon
  <1>2. IsWellFoundedOn(R, Nat)
    BY Zenon, <1>1, NatLessThanWellFounded
  <1>3. PICK x \in S : \A y \in S : ~(<<y, x>> \in R)
    BY Zenon, <1>2, WFMin
  <1>4. \A y \in S : y < x => <<y, x>> \in R
    BY <1>1 DEF OpToRel
  <1>5. \A y \in S : x =< y
    <2>1. \A y \in S : ~(y < x)
      BY Zenon, <1>3, <1>4
    <2> QED BY <2>1
  <1> QED BY Zenon, <1>5 DEF Min

LEMMA Constants ==
  /\ Jobs \subseteq Nat /\ 0 \notin Jobs /\ Vmids \subseteq Nat /\ None \notin Jobs /\ None \notin Vmids
  /\ \A r \in Requests : JobOf[r] \in Jobs
  BY CloningAssumption

\* A claim is for good.
JobsStay == \A k \in Jobs : Claimed(k) => Claimed(k)' /\ job'[k].target = job[k].target

\* A machine that still carries the marker of a finished clone keeps what was
\* configured on it.
MachineStays(k) ==
  /\ task'[k] = "ok"
  /\ Machine(k)'.mark = k => /\ Machine(k).mark = k
                             /\ Machine(k).net => Machine(k)'.net
                             /\ Machine(k).gpu => Machine(k)'.gpu

DesksStay == \A v \in Vmids : desk[v].known => desk'[v].known

\* Others do not disturb what a refresh relies on.
LEMMA ReliesStays ==
  ASSUME NEW r, Relies(r), JobsStay, DesksStay, Targets,
         \A k \in Jobs : Claimed(k) /\ task[k] = "ok" => MachineStays(k),
         r.touched \/ \A k \in Jobs : k = r.job /\ Claimed(k) /\ task[k] = "ok" /\ MarkerMatches(k)
                                         => MarkerMatches(k)'
  PROVE  Relies(r)'
  <1> SUFFICES ASSUME r.ph # "idle" PROVE Relies(r)'
    BY Zenon DEF Relies
  <1>1. PICK k \in Jobs : k = r.job
    BY Zenon DEF Relies
  <1>2. Claimed(k) /\ Claimed(k)' /\ job'[k].target = job[k].target /\ job[k].target \in Vmids /\ (r.ph # "reading" => r.upid = k)
    BY Zenon, <1>1 DEF Relies, JobsStay, Targets
  <1>3. /\ Within(r, {"upsert"}) => Within(r, {"register", "upsert"})
        /\ Within(r, {"register", "upsert"}) => Within(r, {"gpu", "pci", "register", "upsert"})
        /\ Within(r, {"gpu", "pci", "register", "upsert"}) =>
             Within(r, {"network", "dhcp", "gpu", "pci", "register", "upsert"})
    BY DEF Within
  <1>4. Within(r, {"network", "dhcp", "gpu", "pci", "register", "upsert"}) =>
          Claimed(k) /\ task[k] = "ok" /\ task'[k] = "ok" /\ MachineStays(k)
    BY Zenon, <1>1, <1>2 DEF Relies, MachineStays
  <1>5. Within(r, {"gpu", "pci", "register", "upsert"}) /\ k \in NeedsNetwork
          => (Machine(k)'.mark = k => Machine(k)'.net)
    BY Zenon, <1>1, <1>3, <1>4 DEF Relies, MachineStays
  <1>6. Within(r, {"register", "upsert"}) /\ ~r.fail /\ k \in NeedsGpu
          => (Machine(k)'.mark = k => Machine(k)'.gpu)
    BY Zenon, <1>1, <1>3, <1>4 DEF Relies, MachineStays
  <1>7. Within(r, {"upsert"}) /\ ~r.touched => MarkerMatches(k)'
    BY Zenon, <1>1, <1>3, <1>4 DEF Relies
  <1>8. r.ph = "complete" /\ ~r.fail => desk'[job'[k].target].known
    BY Zenon, <1>1, <1>2 DEF Relies, DesksStay
  <1> HIDE DEF Within
  <1> QED BY Zenon, <1>1, <1>2, <1>4, <1>5, <1>6, <1>7, <1>8 DEF Relies, Machine, Claimed

\* A step that leaves machines, tasks and desktops alone.
LEMMA QuietRelies ==
  ASSUME CloneInv, JobsStay, UNCHANGED <<desk, task, vm>>, NEW r, Relies(r)
  PROVE  Relies(r)'
  <1>1. DesksStay
    BY Zenon DEF DesksStay
  <1>2. ASSUME NEW k \in Jobs, Claimed(k), task[k] = "ok"
        PROVE  MachineStays(k) /\ (MarkerMatches(k) => MarkerMatches(k)')
    BY Zenon, <1>2 DEF MachineStays, Machine, MarkerMatches, JobsStay
  <1> QED BY Zenon, <1>1, <1>2, ReliesStays DEF CloneInv

\* A refresh or a loop takes a step and changes nothing but its own memory and
\* locks.
LEMMA RefreshMoves ==
  ASSUME CloneInv, NEW w \in Refreshers, NEW r \in Refresh, Relies(r), work' = [work EXCEPT ![w] = r],
         UNCHANGED <<job, desk, inventory, hand, recovery, calls, task, vm, submitted>>,
         lock' \in [Vmids -> Refreshers \cup {"recovery", None}],
         cursor' \in [Loops -> Jobs \cup {0}], page' \in [Loops -> SUBSET Jobs]
  PROVE  CloneInv'
  <1>1. CloneTypes'
    BY Zenon DEF CloneInv, CloneTypes
  <1>2. Targets' /\ Claims'
    BY Zenon DEF CloneInv, Targets, Claims, Claimed
  <1>3. ASSUME NEW x \in Refreshers PROVE Relies(work[x])'
    <2>1. PICK s : s = work'[x]
      OBVIOUS
    <2>2. Relies(s)
      <3>1. s = r \/ s = work[x]
        BY Zenon, <2>1 DEF CloneInv, CloneTypes
      <3> QED BY Zenon, <3>1 DEF CloneInv
    <2>3. Relies(s)'
      BY Zenon, <2>2, QuietRelies DEF JobsStay, Claimed
    <2> QED BY <2>1, <2>3
  <1> QED BY Zenon, <1>1, <1>2, <1>3 DEF CloneInv

-----------------------------------------------------------------------------
(* Steps of a refresh that change nothing but its own memory and locks     *)

LEMMA IdleRelies == Idle \in Refresh /\ Relies(Idle)
  BY DEF Idle, Refresh, VM, NoVM, Relies

LEMMA LeaveKeeps ==
  ASSUME CloneInv, NEW w \in Refreshers, Leave(w),
         UNCHANGED <<job, desk, inventory, hand, cursor, page, recovery, calls, task, vm, submitted>>
  PROVE  CloneInv'
  <1>1. lock' \in [Vmids -> Refreshers \cup {"recovery", None}]
    BY Zenon DEF Leave, Unlocked, CloneInv, CloneTypes
  <1> QED BY Zenon, <1>1, IdleRelies, RefreshMoves DEF Leave, CloneInv, CloneTypes

\* A refresh that is under way knows its job, and what it relies on.
LEMMA UnderWay ==
  ASSUME CloneInv, NEW w \in Refreshers, work[w].ph # "idle"
  PROVE  /\ work[w] \in Refresh /\ work[w].job \in Jobs /\ Claimed(work[w].job)
         /\ TargetOf(w) \in Vmids /\ job[work[w].job] \in Job /\ vm[TargetOf(w)] \in VM
         /\ Relies(work[w])
  BY Zenon DEF CloneInv, CloneTypes, Targets, Relies, TargetOf

\* A refresh starts on a job that has a handle.
LEMMA StartKeeps ==
  ASSUME CloneInv, NEW w \in Refreshers, NEW k \in Jobs, Pending(k)
  PROVE  [Idle EXCEPT !.ph = "reading", !.job = k] \in Refresh /\ Relies([Idle EXCEPT !.ph = "reading", !.job = k])
  <1>1. PICK r : r = [Idle EXCEPT !.ph = "reading", !.job = k]
    OBVIOUS
  <1>2. r \in Refresh /\ r.ph = "reading" /\ r.job = k /\ r.upid = None
    BY Zenon, <1>1 DEF Idle, Refresh, VM, NoVM
  <1>3. Claimed(k)
    BY DEF Pending, Claimed
  <1>4. Relies(r)
    BY <1>2, <1>3 DEF Relies, Within
  <1> QED BY Zenon, <1>1, <1>2, <1>4

LEMMA LoopsKeep ==
  ASSUME CloneInv,
         \/ \E w \in Watchers, k \in Jobs : Watch(w, k)
         \/ \E m \in Refreshers : PendingCloneJobIDs(m) \/ ResumeJob(m)
  PROVE  CloneInv'
  <1>0. \A w \in Watchers : w \in Refreshers
    BY DEF Refreshers
  <1>t. /\ cursor \in [Loops -> Jobs \cup {0}] /\ page \in [Loops -> SUBSET Jobs]
        /\ lock \in [Vmids -> Refreshers \cup {"recovery", None}] /\ work \in [Refreshers -> Refresh]
    BY Zenon DEF CloneInv, CloneTypes
  <1>1. ASSUME NEW w \in Watchers, NEW k \in Jobs, Watch(w, k) PROVE CloneInv'
    BY Zenon, <1>0, <1>1, <1>t, StartKeeps, RefreshMoves DEF Watch, RefreshOnly
  <1>2. ASSUME NEW m \in Refreshers, PendingCloneJobIDs(m) PROVE CloneInv'
    <2>1. m \in Loops /\ \A k \in ScanFrom(m) : k \in Jobs
      BY Zenon, <1>2 DEF PendingCloneJobIDs, ScanFrom
    <2>2. cursor' \in [Loops -> Jobs \cup {0}]
      <3>1. cursor' = [cursor EXCEPT ![m] = IF ScanFrom(m) = {} THEN 0 ELSE cursor[m]]
        BY Zenon, <1>2 DEF PendingCloneJobIDs
      <3> QED BY <1>t, <2>1, <3>1
    <2>3. page' \in [Loops -> SUBSET Jobs]
      <3>1. PICK P \in SUBSET Jobs : P = {k \in ScanFrom(m) : Cardinality({l \in ScanFrom(m) : l < k}) < PageSize}
        BY Zenon, <2>1
      <3>2. page' = [page EXCEPT ![m] = P]
        BY Zenon, <1>2, <3>1 DEF PendingCloneJobIDs
      <3> QED BY Zenon, <1>t, <3>2
    <2>4. work' = [work EXCEPT ![m] = work[m]] /\ work[m] \in Refresh /\ Relies(work[m])
      BY Zenon, <1>2, <1>t DEF PendingCloneJobIDs, CloneInv
    <2> QED BY Zenon, <1>2, <1>t, <2>2, <2>3, <2>4, RefreshMoves DEF PendingCloneJobIDs, platform, pve
  <1>3. ASSUME NEW m \in Refreshers, ResumeJob(m) PROVE CloneInv'
    <2>1. PICK k : k = Min(page[m])
      OBVIOUS
    <2>2. /\ m \in Loops /\ page[m] # {} /\ cursor' = [cursor EXCEPT ![m] = k]
          /\ page' = [page EXCEPT ![m] = page[m] \ {k}]
          /\ work' = IF Pending(k) THEN [work EXCEPT ![m] = [Idle EXCEPT !.ph = "reading", !.job = k]] ELSE work
          /\ UNCHANGED <<platform, hand, recovery, lock, pve, submitted>>
      BY Zenon, <1>3, <2>1 DEF ResumeJob
    <2>3. page[m] \in SUBSET Nat
      <3>1. page[m] \in SUBSET Jobs
        BY Zenon, <1>t, <2>2
      <3> QED BY Zenon, <3>1, Constants
    <2>4. k \in Jobs
      <3>1. k \in page[m]
        BY Zenon, <2>1, <2>2, <2>3, MinIsMember
      <3> QED BY Zenon, <1>t, <2>2, <3>1
    <2>5. cursor' \in [Loops -> Jobs \cup {0}]
      BY Zenon, <1>t, <2>2, <2>4
    <2>6. page' \in [Loops -> SUBSET Jobs]
      <3>1. page[m] \ {k} \in SUBSET Jobs
        BY Zenon, <1>t, <2>2
      <3> QED BY Zenon, <1>t, <2>2, <3>1
    <2>7. PICK r \in Refresh : Relies(r) /\ work' = [work EXCEPT ![m] = r]
      <3>1. CASE Pending(k)
        BY Zenon, <1>t, <2>2, <2>4, <3>1, StartKeeps
      <3>2. CASE ~Pending(k)
        <4>1. work' = [work EXCEPT ![m] = work[m]]
          BY Zenon, <1>t, <2>2, <3>2
        <4> QED BY Zenon, <1>t, <4>1 DEF CloneInv
      <3> QED BY Zenon, <3>1, <3>2
    <2> QED BY Zenon, <1>t, <2>2, <2>5, <2>6, <2>7, RefreshMoves DEF platform, pve
  <1> QED BY Zenon, <1>1, <1>2, <1>3

LEMMA LockTargetKeeps ==
  ASSUME CloneInv, NEW w \in Refreshers, LockTarget(w)
  PROVE  CloneInv'
  <1>u. UNCHANGED <<job, desk, inventory, hand, cursor, page, recovery, calls, task, vm, submitted>>
    BY Zenon DEF LockTarget, RefreshOnly
  <1>1. CASE ~Pending(work[w].job)
    BY Zenon, <1>u, <1>1, LeaveKeeps DEF LockTarget
  <1>2. CASE Pending(work[w].job)
    <2>1. work[w].ph = "reading" /\ work[w].ph # "idle"
      BY DEF LockTarget, Does
    <2>2. work[w] \in Refresh /\ work[w].job \in Jobs /\ Claimed(work[w].job) /\ Relies(work[w])
      BY Zenon, <2>1, UnderWay
    <2>3. job[work[w].job].upid = work[w].job
      BY Zenon, <1>2, <2>2 DEF CloneInv, Targets, Pending
    <2>4. PICK r : r = [work[w] EXCEPT !.ph = "locked", !.upid = work[w].job]
      OBVIOUS
    <2>5. work' = [work EXCEPT ![w] = r] /\ lock' = [lock EXCEPT ![TargetOf(w)] = w]
      BY Zenon, <1>2, <2>3, <2>4 DEF LockTarget
    <2>6. r \in Refresh /\ r.ph = "locked" /\ r.job = work[w].job /\ r.upid = work[w].job
      BY Zenon, <2>2, <2>4 DEF Refresh
    <2>7. Relies(r)
      BY <2>2, <2>6 DEF Relies, Within
    <2>8. lock' \in [Vmids -> Refreshers \cup {"recovery", None}]
      BY Zenon, <2>5 DEF CloneInv, CloneTypes
    <2> QED BY Zenon, <1>u, <2>5, <2>6, <2>7, <2>8, RefreshMoves DEF CloneInv, CloneTypes
  <1> QED BY Zenon, <1>1, <1>2

\* A refresh goes on, and relies on what it has just read.
LEMMA ProceedKeeps ==
  ASSUME CloneInv, NEW w \in Refreshers, NEW r \in Refresh, Relies(r), work' = [work EXCEPT ![w] = r],
         UNCHANGED <<job, desk, inventory, lock, hand, cursor, page, recovery, calls, task, vm, submitted>>
  PROVE  CloneInv'
  BY Zenon, RefreshMoves DEF CloneInv, CloneTypes

LEMMA TaskStatusKeeps ==
  ASSUME CloneInv, NEW w \in Refreshers, TaskStatus(w)
  PROVE  CloneInv'
  <1>u. /\ UNCHANGED <<job, desk, inventory, hand, cursor, page, recovery, calls, task, vm, submitted>>
        /\ work[w].ph = "locked" /\ work[w].ph # "idle" /\ work[w].ph # "reading"
    BY DEF TaskStatus, RefreshOnly, Does
  <1>1. work[w] \in Refresh /\ work[w].job \in Jobs /\ Claimed(work[w].job) /\ Relies(work[w]) /\ work[w].upid = work[w].job
    BY Zenon, <1>u, UnderWay DEF Relies
  <1>2. \/ work' = [work EXCEPT ![w].ph = "complete", ![w].fail = TRUE] /\ UNCHANGED lock
        \/ task[work[w].upid] = "ok" /\ Proceed(w, "network") /\ UNCHANGED lock
        \/ Leave(w)
    BY Zenon DEF TaskStatus
  <1>3. CASE work' = [work EXCEPT ![w].ph = "complete", ![w].fail = TRUE] /\ UNCHANGED lock
    <2>1. PICK r : r = [work[w] EXCEPT !.ph = "complete", !.fail = TRUE]
      OBVIOUS
    <2>2. r \in Refresh /\ r.ph = "complete" /\ r.fail /\ r.job = work[w].job /\ r.upid = work[w].upid
      BY Zenon, <1>1, <2>1 DEF Refresh
    <2>3. Relies(r)
      BY <1>1, <2>2 DEF Relies, Within
    <2>4. work' = [work EXCEPT ![w] = r]
      BY Zenon, <1>3, <2>1
    <2> QED BY Zenon, <1>u, <1>3, <2>2, <2>3, <2>4, ProceedKeeps
  <1>4. CASE task[work[w].upid] = "ok" /\ Proceed(w, "network") /\ UNCHANGED lock
    <2>1. PICK r : r = [work[w] EXCEPT !.ph = "network"]
      BY Zenon
    <2>2. r \in Refresh /\ r.ph = "network" /\ r.job = work[w].job /\ r.upid = work[w].upid
      BY <1>1, <2>1 DEF Refresh
    <2>3. task[r.job] = "ok"
      BY Zenon, <1>1, <1>4, <2>2
    <2>4. Relies(r)
      BY <1>1, <2>2, <2>3 DEF Relies, Within
    <2>5. work' = [work EXCEPT ![w] = r]
      BY Zenon, <1>4, <2>1 DEF Proceed
    <2> QED BY Zenon, <1>u, <1>4, <2>2, <2>4, <2>5, ProceedKeeps
  <1> QED BY Zenon, <1>u, <1>2, <1>3, <1>4, LeaveKeeps

LEMMA ReadNetworkKeeps ==
  ASSUME CloneInv, NEW w \in Refreshers, ReadNetwork(w)
  PROVE  CloneInv'
  <1>u. /\ UNCHANGED <<job, desk, inventory, hand, cursor, page, recovery, calls, task, vm, submitted>>
        /\ work[w].ph = "network" /\ work[w].ph # "idle"
    BY DEF ReadNetwork, RefreshOnly, Does
  <1>1. /\ work[w] \in Refresh /\ work[w].job \in Jobs /\ Claimed(work[w].job) /\ vm[TargetOf(w)] \in VM
        /\ Relies(work[w])
    BY Zenon, <1>u, UnderWay
  <1>2. work[w].upid = work[w].job /\ task[work[w].job] = "ok"
    BY <1>u, <1>1 DEF Relies, Within
  <1>3. CASE /\ work[w].job \notin NeedsNetwork \/ vm[TargetOf(w)].net
             /\ Proceed(w, "gpu") /\ UNCHANGED lock
    <2>1. PICK r : r = [work[w] EXCEPT !.ph = "gpu"]
      BY Zenon
    <2>2. r \in Refresh /\ r.ph = "gpu" /\ r.job = work[w].job /\ r.upid = work[w].upid
      BY <1>1, <2>1 DEF Refresh
    <2>3. r.job \in NeedsNetwork => Machine(r.job).net
      BY Zenon, <1>3, <2>2 DEF Machine, TargetOf
    <2>4. Relies(r)
      BY <1>1, <1>2, <2>2, <2>3 DEF Relies, Within
    <2>5. work' = [work EXCEPT ![w] = r]
      BY Zenon, <1>3, <2>1 DEF Proceed
    <2> QED BY Zenon, <1>u, <1>3, <2>2, <2>4, <2>5, ProceedKeeps
  <1>4. CASE work' = [work EXCEPT ![w].ph = "dhcp", ![w].cfg = vm[TargetOf(w)]] /\ UNCHANGED lock
    <2>1. PICK r : r = [work[w] EXCEPT !.ph = "dhcp", !.cfg = vm[TargetOf(w)]]
      OBVIOUS
    <2>2. r \in Refresh /\ r.ph = "dhcp" /\ r.job = work[w].job /\ r.upid = work[w].upid
      BY Zenon, <1>1, <2>1 DEF Refresh
    <2>3. Relies(r)
      BY <1>1, <1>2, <2>2 DEF Relies, Within
    <2>4. work' = [work EXCEPT ![w] = r]
      BY Zenon, <1>4, <2>1
    <2> QED BY Zenon, <1>u, <1>4, <2>2, <2>3, <2>4, ProceedKeeps
  <1> QED BY Zenon, <1>u, <1>3, <1>4, LeaveKeeps DEF ReadNetwork

LEMMA ReadGpuKeeps ==
  ASSUME CloneInv, NEW w \in Refreshers, ReadGpu(w)
  PROVE  CloneInv'
  <1>u. /\ UNCHANGED <<job, desk, inventory, hand, cursor, page, recovery, calls, task, vm, submitted>>
        /\ work[w].ph = "gpu" /\ work[w].ph # "idle"
    BY DEF ReadGpu, RefreshOnly, Does
  <1>1. /\ work[w] \in Refresh /\ work[w].job \in Jobs /\ Claimed(work[w].job) /\ vm[TargetOf(w)] \in VM
        /\ Relies(work[w])
    BY Zenon, <1>u, UnderWay
  <1>2. /\ work[w].upid = work[w].job /\ task[work[w].job] = "ok"
        /\ work[w].job \in NeedsNetwork => (Machine(work[w].job).mark = work[w].job => Machine(work[w].job).net)
    BY <1>u, <1>1 DEF Relies, Within
  <1>3. CASE /\ work[w].job \notin NeedsGpu \/ vm[TargetOf(w)].gpu
             /\ Proceed(w, "register") /\ UNCHANGED lock
    <2>1. PICK r : r = [work[w] EXCEPT !.ph = "register"]
      BY Zenon
    <2>2. r \in Refresh /\ r.ph = "register" /\ r.job = work[w].job /\ r.upid = work[w].upid
      BY <1>1, <2>1 DEF Refresh
    <2>3. r.job \in NeedsGpu => Machine(r.job).gpu
      BY Zenon, <1>3, <2>2 DEF Machine, TargetOf
    <2>4. Relies(r)
      BY <1>1, <1>2, <2>2, <2>3 DEF Relies, Within
    <2>5. work' = [work EXCEPT ![w] = r]
      BY Zenon, <1>3, <2>1 DEF Proceed
    <2> QED BY Zenon, <1>u, <1>3, <2>2, <2>4, <2>5, ProceedKeeps
  <1>4. CASE work' = [work EXCEPT ![w].ph = "pci", ![w].cfg = vm[TargetOf(w)]] /\ UNCHANGED lock
    <2>1. PICK r : r = [work[w] EXCEPT !.ph = "pci", !.cfg = vm[TargetOf(w)]]
      OBVIOUS
    <2>2. r \in Refresh /\ r.ph = "pci" /\ r.job = work[w].job /\ r.upid = work[w].upid
      BY Zenon, <1>1, <2>1 DEF Refresh
    <2>3. Relies(r)
      BY <1>1, <1>2, <2>2 DEF Relies, Within
    <2>4. work' = [work EXCEPT ![w] = r]
      BY Zenon, <1>4, <2>1
    <2> QED BY Zenon, <1>u, <1>4, <2>2, <2>3, <2>4, ProceedKeeps
  <1> QED BY Zenon, <1>u, <1>3, <1>4, LeaveKeeps DEF ReadGpu

LEMMA RequireCloneTargetKeeps ==
  ASSUME CloneInv, NEW w \in Refreshers, RequireCloneTarget(w)
  PROVE  CloneInv'
  <1>u. /\ UNCHANGED <<job, desk, inventory, hand, cursor, page, recovery, calls, task, vm, submitted>>
        /\ work[w].ph = "register" /\ work[w].ph # "idle"
    BY DEF RequireCloneTarget, RefreshOnly, Does
  <1>1. CASE ~MarkerMatches(work[w].job)
    BY Zenon, <1>u, <1>1, LeaveKeeps DEF RequireCloneTarget
  <1>2. CASE MarkerMatches(work[w].job)
    <2>1. work[w] \in Refresh /\ work[w].job \in Jobs /\ Claimed(work[w].job) /\ Relies(work[w])
      BY Zenon, <1>u, UnderWay
    <2>2. PICK r : r = [work[w] EXCEPT !.ph = "upsert", !.touched = FALSE]
      OBVIOUS
    <2>3. /\ r \in Refresh /\ r.ph = "upsert" /\ r.job = work[w].job /\ r.upid = work[w].upid
          /\ r.fail = work[w].fail
      BY Zenon, <2>1, <2>2 DEF Refresh
    <2>4. Relies(r)
      BY <1>u, <1>2, <2>1, <2>3 DEF Relies, Within
    <2>5. work' = [work EXCEPT ![w] = r] /\ lock' = lock
      BY Zenon, <1>2, <2>2 DEF RequireCloneTarget
    <2> QED BY Zenon, <1>u, <2>3, <2>4, <2>5, ProceedKeeps
  <1> QED BY Zenon, <1>1, <1>2

LEMMA RefreshFailsKeeps ==
  ASSUME CloneInv, NEW w \in Refreshers, RefreshFails(w)
  PROVE  CloneInv'
  BY Zenon, LeaveKeeps DEF RefreshFails, RefreshOnly

-----------------------------------------------------------------------------
(* Steps of a refresh that configure the machine or write the platform     *)

\* A machine gets an address or a device.
LEMMA MachineMoves ==
  ASSUME CloneInv, NEW w \in Refreshers, NEW r \in Refresh, Relies(r)', work' = [work EXCEPT ![w] = r],
         UNCHANGED <<job, desk, inventory, lock, hand, cursor, page, recovery, calls, task, submitted>>,
         vm' \in [Vmids -> VM],
         \A v \in Vmids : /\ vm'[v].mark = vm[v].mark /\ vm'[v].lock = vm[v].lock
                          /\ vm[v].net => vm'[v].net
                          /\ vm[v].gpu => vm'[v].gpu
  PROVE  CloneInv'
  <1>1. CloneTypes'
    BY Zenon DEF CloneInv, CloneTypes
  <1>2. Targets' /\ Claims'
    BY Zenon DEF CloneInv, Targets, Claims, Claimed
  <1>3. JobsStay /\ DesksStay
    BY Zenon DEF JobsStay, DesksStay, Claimed
  <1>4. ASSUME NEW k \in Jobs, Claimed(k), task[k] = "ok"
        PROVE  MachineStays(k) /\ (MarkerMatches(k) => MarkerMatches(k)')
    <2>1. job[k].target \in Vmids
      BY Zenon, <1>4 DEF CloneInv, Targets
    <2> QED BY Zenon, <1>4, <2>1 DEF MachineStays, Machine, MarkerMatches
  <1>5. ASSUME NEW x \in Refreshers PROVE Relies(work[x])'
    <2>1. PICK s : s = work'[x]
      OBVIOUS
    <2>2. CASE x = w
      BY <2>1, <2>2 DEF CloneInv, CloneTypes
    <2>3. CASE x # w
      <3>1. s = work[x] /\ Relies(s)
        BY Zenon, <2>1, <2>3 DEF CloneInv, CloneTypes
      <3>2. Relies(s)'
        BY Zenon, <1>3, <1>4, <3>1, ReliesStays DEF CloneInv
      <3> QED BY <2>1, <3>2
    <2> QED BY Zenon, <2>2, <2>3
  <1> QED BY Zenon, <1>1, <1>2, <1>5 DEF CloneInv

LEMMA ConfigureVMPrimaryDHCPKeeps ==
  ASSUME CloneInv, NEW w \in Refreshers, ConfigureVMPrimaryDHCP(w)
  PROVE  CloneInv'
  <1>u. /\ UNCHANGED <<job, desk, inventory, hand, cursor, page, recovery, calls, task, submitted>>
        /\ work[w].ph = "dhcp" /\ work[w].ph # "idle"
    BY DEF ConfigureVMPrimaryDHCP, RefreshOnly, Does
  <1>1. CASE ~DigestMatches(w)
    BY Zenon, <1>u, <1>1, LeaveKeeps DEF ConfigureVMPrimaryDHCP
  <1>2. CASE DigestMatches(w)
    <2>1. /\ work[w] \in Refresh /\ work[w].job \in Jobs /\ Claimed(work[w].job) /\ Relies(work[w])
          /\ TargetOf(w) \in Vmids
      BY Zenon, <1>u, UnderWay
    <2>2. PICK r : r = [work[w] EXCEPT !.ph = "gpu"]
      BY Zenon
    <2>3. r \in Refresh /\ r.ph = "gpu" /\ r.job = work[w].job /\ r.upid = work[w].upid
      BY <2>1, <2>2 DEF Refresh
    <2>4. work' = [work EXCEPT ![w] = r] /\ lock' = lock /\ vm' = [vm EXCEPT ![TargetOf(w)].net = TRUE]
      BY Zenon, <1>2, <2>2 DEF ConfigureVMPrimaryDHCP, Proceed
    <2>5. /\ vm' \in [Vmids -> VM] /\ vm'[TargetOf(w)].net
          /\ \A v \in Vmids : /\ vm'[v].mark = vm[v].mark /\ vm'[v].lock = vm[v].lock
                              /\ vm[v].net => vm'[v].net
                              /\ vm[v].gpu => vm'[v].gpu
      <3>1. vm \in [Vmids -> VM]
        BY Zenon DEF CloneInv, CloneTypes
      <3> QED BY Zenon, <2>1, <2>4, <3>1 DEF VM
    <2>6. Machine(r.job)'.net
      BY Zenon, <1>u, <2>3, <2>5 DEF Machine, TargetOf
    <2>7. work[w].upid = work[w].job /\ task[work[w].job] = "ok"
      BY <1>u, <2>1 DEF Relies, Within
    <2>8. Relies(r)'
      BY <1>u, <2>1, <2>3, <2>6, <2>7 DEF Relies, Within, Claimed
    <2> QED BY Zenon, <1>u, <2>3, <2>4, <2>5, <2>8, MachineMoves
  <1> QED BY Zenon, <1>1, <1>2

LEMMA ConfigureVMPCIResourceMappingKeeps ==
  ASSUME CloneInv, NEW w \in Refreshers, ConfigureVMPCIResourceMapping(w)
  PROVE  CloneInv'
  <1>u. /\ UNCHANGED <<job, desk, inventory, lock, hand, cursor, page, recovery, calls, task, submitted>>
        /\ work[w].ph = "pci" /\ work[w].ph # "idle"
    BY DEF ConfigureVMPCIResourceMapping, RefreshOnly, Does
  <1>1. PICK ok \in BOOLEAN :
          /\ work' = [work EXCEPT ![w].ph = "register", ![w].fail = ~ok]
          /\ IF DigestMatches(w) THEN vm' = [vm EXCEPT ![TargetOf(w)].gpu = TRUE] ELSE ~ok /\ vm' = vm
    BY Zenon DEF ConfigureVMPCIResourceMapping
  <1>2. /\ work[w] \in Refresh /\ work[w].job \in Jobs /\ Claimed(work[w].job) /\ Relies(work[w])
        /\ TargetOf(w) \in Vmids
    BY Zenon, <1>u, UnderWay
  <1>3. PICK bad \in BOOLEAN : bad = ~ok
    BY Zenon
  <1>4. PICK r : r = [work[w] EXCEPT !.ph = "register", !.fail = bad]
    OBVIOUS
  <1>5. r \in Refresh /\ r.ph = "register" /\ r.job = work[w].job /\ r.upid = work[w].upid /\ r.fail = bad
    BY Zenon, <1>2, <1>4 DEF Refresh
  <1>6. work' = [work EXCEPT ![w] = r]
    BY Zenon, <1>1, <1>3, <1>4
  <1>7. /\ vm' \in [Vmids -> VM] /\ (~bad => vm'[TargetOf(w)].gpu)
        /\ \A v \in Vmids : /\ vm'[v].mark = vm[v].mark /\ vm'[v].lock = vm[v].lock
                            /\ vm[v].net => vm'[v].net
                            /\ vm[v].gpu => vm'[v].gpu
    <2>1. vm \in [Vmids -> VM]
      BY Zenon DEF CloneInv, CloneTypes
    <2>2. CASE vm' = [vm EXCEPT ![TargetOf(w)].gpu = TRUE]
      BY Zenon, <1>2, <2>1, <2>2 DEF VM
    <2>3. CASE bad /\ vm' = vm
      BY Zenon, <2>1, <2>3
    <2> QED BY Zenon, <1>1, <1>3, <2>2, <2>3
  <1>8. /\ ~r.fail => Machine(r.job)'.gpu
        /\ Machine(r.job)'.mark = r.job => Machine(r.job).mark = r.job
        /\ Machine(r.job).net => Machine(r.job)'.net
    BY Zenon, <1>u, <1>2, <1>5, <1>7 DEF Machine, TargetOf
  <1>9. /\ work[w].upid = work[w].job /\ task[work[w].job] = "ok"
        /\ r.job \in NeedsNetwork => (Machine(r.job).mark = r.job => Machine(r.job).net)
    BY <1>u, <1>2, <1>5 DEF Relies, Within
  <1>10. Claimed(r.job)' /\ task'[r.job] = "ok"
    BY Zenon, <1>u, <1>2, <1>5, <1>9 DEF Claimed
  <1>11. Relies(r)'
    <2>1. ~Within(r, {"upsert"}) /\ r.ph # "complete"
      BY <1>5 DEF Within
    <2> QED BY Zenon, <1>2, <1>5, <1>8, <1>9, <1>10, <2>1 DEF Relies
  <1> QED BY Zenon, <1>u, <1>5, <1>6, <1>7, <1>11, MachineMoves

\* What the refreshes rely on that take no part in a step.
LEMMA OthersRely ==
  ASSUME CloneInv, JobsStay, DesksStay, NEW x \in Refreshers, work'[x] = work[x],
         \A k \in Jobs : Claimed(k) /\ task[k] = "ok"
                           => MachineStays(k) /\ (MarkerMatches(k) => MarkerMatches(k)')
  PROVE  Relies(work[x])'
  <1>1. PICK s : s = work[x]
    OBVIOUS
  <1>2. Relies(s)'
    BY Zenon, <1>1, ReliesStays DEF CloneInv
  <1> QED BY <1>1, <1>2

LEMMA OthersRelyQuietly ==
  ASSUME CloneInv, JobsStay, UNCHANGED <<desk, task, vm>>, NEW x \in Refreshers, work'[x] = work[x]
  PROVE  Relies(work[x])'
  <1>1. PICK s : s = work[x]
    OBVIOUS
  <1>2. Relies(s)'
    BY Zenon, <1>1, QuietRelies DEF CloneInv
  <1> QED BY <1>1, <1>2

\* The state and the handle of a claimed job are written.
LEMMA JobWritten ==
  ASSUME CloneInv, NEW k \in Jobs, Claimed(k), NEW st \in {"accepted", "running", "succeeded", "failed"},
         NEW upid \in {None, k}, st = "running" => upid # None,
         job' = [job EXCEPT ![k] = [job[k] EXCEPT !.st = st, !.upid = upid]],
         UNCHANGED <<calls, submitted>>,
         recovery'.upid = recovery'.job, recovery'.job \in Jobs \cup {None},
         recovery'.job # None => recovery'.job = recovery.job
  PROVE  /\ job' \in [Jobs -> Job] /\ Targets' /\ JobsStay /\ \A l \in Jobs : Claimed(l)' <=> Claimed(l)
  <1>t. job \in [Jobs -> Job] /\ job[k] \in Job
    BY Zenon DEF CloneInv, CloneTypes
  <1>1. PICK r : r = [job[k] EXCEPT !.st = st, !.upid = upid]
    OBVIOUS
  <1>2. r \in Job /\ r.st = st /\ r.upid = upid /\ r.target = job[k].target
    BY Zenon, <1>t, <1>1, Constants DEF Job
  <1>3. job' = [job EXCEPT ![k] = r]
    BY Zenon, <1>1
  <1>4. job' \in [Jobs -> Job] /\ job'[k] = r /\ \A l \in Jobs : l # k => job'[l] = job[l]
    BY Zenon, <1>t, <1>2, <1>3
  <1>5. \A l \in Jobs : (Claimed(l)' <=> Claimed(l)) /\ job'[l].target = job[l].target
    <2>1. st # "none"
      OBVIOUS
    <2> QED BY Zenon, <1>2, <1>4, <2>1 DEF Claimed
  <1>6. JobsStay
    BY Zenon, <1>5 DEF JobsStay
  <1>7. Targets'
    <2>1. ASSUME NEW l \in Jobs
          PROVE  /\ Claimed(l)' => job'[l].target \in Vmids
                 /\ ~Claimed(l)' => job'[l].target = None /\ job'[l].upid = None /\ submitted'[l] = 0
                 /\ job'[l].upid \in {None, l}
                 /\ job'[l].st = "running" => job'[l].upid # None
                 /\ l \in calls' => Claimed(l)'
      <3>0. /\ Claimed(l) => job[l].target \in Vmids
            /\ ~Claimed(l) => job[l].target = None /\ job[l].upid = None /\ submitted[l] = 0
            /\ job[l].upid \in {None, l}
            /\ job[l].st = "running" => job[l].upid # None
            /\ l \in calls => Claimed(l)
        BY Zenon DEF CloneInv, Targets
      <3>1. CASE l = k
        BY Zenon, <1>2, <1>4, <1>5, <3>0, <3>1
      <3>2. CASE l # k
        BY Zenon, <1>4, <1>5, <3>0, <3>2
      <3> QED BY Zenon, <3>1, <3>2
    <2>2. \A j, l \in Jobs : job'[j].target = job'[l].target /\ j # l => job'[j].target = None
      BY ZenonT(40), <1>5 DEF CloneInv, Targets
    <2>3. recovery'.job # None => Claimed(recovery.job)'
      <3>1. PICK j : j = recovery'.job
        OBVIOUS
      <3>2. j # None => j \in Jobs /\ Claimed(j)
        BY Zenon, <3>1 DEF CloneInv, Targets
      <3>3. j # None => Claimed(j)'
        BY Zenon, <1>5, <3>2
      <3> QED BY Zenon, <3>1, <3>3 DEF Claimed
    <2> QED BY Zenon, <2>1, <2>2, <2>3 DEF Targets
  <1> QED BY Zenon, <1>4, <1>5, <1>6, <1>7

LEMMA RegisterDesktopKeeps ==
  ASSUME CloneInv, NEW w \in Refreshers, RegisterDesktop(w)
  PROVE  CloneInv'
  <1>u. /\ UNCHANGED <<job, inventory, lock, hand, cursor, page, recovery, calls, task, vm, submitted>>
        /\ work[w].ph = "upsert" /\ work[w].ph # "idle"
    BY DEF RegisterDesktop, RefreshOnly, Does
  <1>1. /\ work[w] \in Refresh /\ work[w].job \in Jobs /\ Claimed(work[w].job) /\ Relies(work[w])
        /\ TargetOf(w) \in Vmids
    BY Zenon, <1>u, UnderWay
  <1>2. PICK v \in Vmids : v = TargetOf(w)
    BY Zenon, <1>1
  <1>3. PICK d : d = IF work[w].fail THEN [known |-> TRUE, present |-> desk[v].present \/ ~desk[v].known, enabled |-> FALSE]
                     ELSE [known |-> TRUE, present |-> TRUE, enabled |-> desk[v].enabled]
    BY Zenon
  <1>4. desk' = [desk EXCEPT ![v] = d]
    BY Zenon, <1>2, <1>3 DEF RegisterDesktop
  <1>5. desk \in [Vmids -> Desk] /\ desk[v] \in Desk
    BY Zenon DEF CloneInv, CloneTypes
  <1>6. d \in Desk /\ d.known = TRUE
    <2>1. PICK b \in BOOLEAN : b = (desk[v].present \/ ~desk[v].known)
      BY Zenon
    <2>2. d = IF work[w].fail THEN [known |-> TRUE, present |-> b, enabled |-> FALSE]
              ELSE [known |-> TRUE, present |-> TRUE, enabled |-> desk[v].enabled]
      BY Zenon, <1>3, <2>1
    <2> QED BY <1>5, <2>2 DEF Desk
  <1>7. desk' \in [Vmids -> Desk] /\ DesksStay /\ desk'[v].known
    BY Zenon, <1>4, <1>5, <1>6 DEF DesksStay
  <1>8. PICK r : r = [work[w] EXCEPT !.ph = "complete"]
    BY Zenon
  <1>9. /\ r \in Refresh /\ r.ph = "complete" /\ r.job = work[w].job /\ r.upid = work[w].upid
        /\ r.fail = work[w].fail /\ r.touched = work[w].touched
    BY <1>1, <1>8 DEF Refresh
  <1>10. work' = [work EXCEPT ![w] = r]
    BY Zenon, <1>8 DEF RegisterDesktop, Proceed
  <1>11. Relies(r)'
    <2>1. /\ work[w].upid = r.job /\ task[r.job] = "ok"
          /\ r.job \in NeedsNetwork => (Machine(r.job).mark = r.job => Machine(r.job).net)
          /\ ~r.fail /\ r.job \in NeedsGpu => (Machine(r.job).mark = r.job => Machine(r.job).gpu)
          /\ ~r.touched => MarkerMatches(r.job)
      BY <1>u, <1>1, <1>9 DEF Relies, Within
    <2>2. desk'[job'[r.job].target].known
      BY Zenon, <1>u, <1>2, <1>7, <1>9 DEF TargetOf
    <2>3. Claimed(r.job)' /\ task'[r.job] = "ok" /\ Machine(r.job)' = Machine(r.job)
          /\ (MarkerMatches(r.job)' <=> MarkerMatches(r.job))
      BY Zenon, <1>u, <1>1, <1>9, <2>1 DEF Claimed, Machine, MarkerMatches
    <2> QED BY Zenon, <1>1, <1>9, <2>1, <2>2, <2>3 DEF Relies, Within
  <1>12. ASSUME NEW x \in Refreshers PROVE Relies(work[x])'
    <2>1. JobsStay
      BY Zenon, <1>u DEF JobsStay, Claimed
    <2>2. CASE x = w
      <3>1. work'[x] = r
        BY Zenon, <1>10, <2>2 DEF CloneInv, CloneTypes
      <3> QED BY <1>11, <3>1
    <2>3. CASE x # w
      <3>1. work'[x] = work[x]
        BY Zenon, <1>10, <2>3 DEF CloneInv, CloneTypes
      <3>2. \A k \in Jobs : Claimed(k) /\ task[k] = "ok"
                              => MachineStays(k) /\ (MarkerMatches(k) => MarkerMatches(k)')
        BY Zenon, <1>u DEF MachineStays, Machine, MarkerMatches
      <3> QED BY Zenon, <1>7, <2>1, <3>1, <3>2, OthersRely
    <2> QED BY Zenon, <2>2, <2>3
  <1>13. CloneTypes'
    BY Zenon, <1>u, <1>7, <1>9, <1>10 DEF CloneInv, CloneTypes
  <1>14. Targets' /\ Claims'
    BY Zenon, <1>u DEF CloneInv, Targets, Claims, Claimed
  <1> QED BY Zenon, <1>12, <1>13, <1>14 DEF CloneInv

\* Jobs, handlers and the recovery move, and refreshes at most end.
LEMMA JobMoves ==
  ASSUME CloneInv, JobsStay, Targets', Claims',
         job' \in [Jobs -> Job], lock' \in [Vmids -> Refreshers \cup {"recovery", None}],
         hand' \in [Requests -> Hand], recovery' \in [job : Jobs \cup {None}, upid : Jobs \cup {None}],
         calls' \in SUBSET Jobs, submitted' \in [Jobs -> {0, 1}],
         UNCHANGED <<desk, inventory, cursor, page, task, vm>>,
         work' = work \/ \E w \in Refreshers : work' = [work EXCEPT ![w] = Idle]
  PROVE  CloneInv'
  <1>1. \A x \in Refreshers : work'[x] = work[x] \/ work'[x] = Idle
    BY Zenon DEF CloneInv, CloneTypes
  <1>2. work' \in [Refreshers -> Refresh]
    BY Zenon, IdleRelies DEF CloneInv, CloneTypes
  <1>3. ASSUME NEW x \in Refreshers PROVE Relies(work[x])'
    <2>1. CASE work'[x] = work[x]
      BY Zenon, <2>1, OthersRelyQuietly
    <2>2. CASE work'[x] = Idle
      <3>1. work'[x].ph = "idle"
        BY <2>2 DEF Idle
      <3> QED BY Zenon, <3>1 DEF Relies
    <2> QED BY Zenon, <1>1, <2>1, <2>2
  <1>4. CloneTypes'
    BY Zenon, <1>2 DEF CloneInv, CloneTypes
  <1> QED BY Zenon, <1>3, <1>4 DEF CloneInv

LEMMA CompleteJobTaskKeeps ==
  ASSUME CloneInv, NEW w \in Refreshers, CompleteJobTask(w)
  PROVE  CloneInv'
  <1>u. /\ UNCHANGED <<desk, inventory, hand, cursor, page, recovery, calls, task, vm, submitted>> /\ Leave(w)
        /\ work[w].ph = "complete" /\ work[w].ph # "idle" /\ work[w].ph # "reading"
    BY DEF CompleteJobTask, RefreshOnly, Does
  <1>1. work[w] \in Refresh /\ work[w].job \in Jobs /\ Claimed(work[w].job) /\ work[w].upid = work[w].job
    BY Zenon, <1>u, UnderWay DEF Relies
  <1>2. CASE ~Pending(work[w].job)
    BY Zenon, <1>u, <1>2, LeaveKeeps DEF CompleteJobTask
  <1>3. CASE Pending(work[w].job)
    <2>1. PICK k \in Jobs : k = work[w].job /\ Claimed(k)
      BY Zenon, <1>1
    <2>2. PICK st \in {"failed", "succeeded"} : st = IF work[w].fail THEN "failed" ELSE "succeeded"
      BY Zenon
    <2>3. job' = [job EXCEPT ![k].st = st, ![k].upid = k]
      BY Zenon, <1>1, <1>3, <2>1, <2>2 DEF CompleteJobTask
    <2>4. job' = [job EXCEPT ![k] = [job[k] EXCEPT !.st = st, !.upid = k]]
      BY Zenon, <2>3
    <2>5. st \in {"accepted", "running", "succeeded", "failed"} /\ k \in {None, k} /\ st # "running"
      BY <2>2
    <2>6. /\ recovery'.upid = recovery'.job /\ recovery'.job \in Jobs \cup {None} /\ recovery'.job = recovery.job
          /\ recovery' \in [job : Jobs \cup {None}, upid : Jobs \cup {None}]
      BY <1>u DEF CloneInv, CloneTypes, Targets
    <2>7. job' \in [Jobs -> Job] /\ Targets' /\ JobsStay /\ \A l \in Jobs : Claimed(l)' <=> Claimed(l)
      BY Zenon, <1>u, <2>1, <2>4, <2>5, <2>6, JobWritten
    <2>8. Claims'
      BY Zenon, <1>u, <2>7, Constants DEF CloneInv, Claims
    <2>9. lock' \in [Vmids -> Refreshers \cup {"recovery", None}]
      BY Zenon, <1>u DEF Leave, Unlocked, CloneInv, CloneTypes
    <2> QED BY Zenon, <1>u, <2>6, <2>7, <2>8, <2>9, JobMoves DEF Leave, CloneInv, CloneTypes
  <1> QED BY Zenon, <1>2, <1>3

-----------------------------------------------------------------------------
(* PVE, its administrators and the database                                *)

\* Machines change where no finished clone of a claimed job looks for its own.
LEMMA PveMoves ==
  ASSUME CloneInv, UNCHANGED <<platform, processes, submitted>>,
         calls' \in SUBSET calls, task' \in [Jobs -> {"none", "running", "ok", "failed"}], vm' \in [Vmids -> VM],
         \A k \in Jobs : Claimed(k) /\ task[k] = "ok" => task'[k] = "ok" /\ vm'[job[k].target] = vm[job[k].target]
  PROVE  CloneInv'
  <1>u. UNCHANGED <<job, desk, inventory, hand, work, cursor, page, recovery, lock, submitted>>
    BY Zenon DEF platform, processes
  <1>1. JobsStay /\ DesksStay
    BY Zenon, <1>u DEF JobsStay, DesksStay, Claimed
  <1>2. \A k \in Jobs : Claimed(k) /\ task[k] = "ok"
                          => MachineStays(k) /\ (MarkerMatches(k) => MarkerMatches(k)')
    BY Zenon, <1>u DEF MachineStays, Machine, MarkerMatches
  <1>3. \A x \in Refreshers : Relies(work[x])'
    BY Zenon, <1>u, <1>1, <1>2, OthersRely
  <1>4. CloneTypes' /\ Targets' /\ Claims'
    <2>1. CloneTypes'
      BY ZenonT(40), <1>u DEF CloneInv, CloneTypes
    <2>2. Targets'
      BY Zenon, <1>u DEF CloneInv, Targets, Claimed
    <2>3. Claims'
      BY Zenon, <1>u DEF CloneInv, Claims, Claimed
    <2> QED BY Zenon, <2>1, <2>2, <2>3
  <1> QED BY Zenon, <1>3, <1>4 DEF CloneInv

LEMMA ExecuteCloneKeeps ==
  ASSUME CloneInv, NEW k \in Jobs, ExecuteClone(k)
  PROVE  CloneInv'
  <1>u. UNCHANGED <<platform, processes, submitted>> /\ k \in calls /\ calls' \in SUBSET calls
    BY Zenon DEF ExecuteClone, PveOnly
  <1>t. /\ task \in [Jobs -> {"none", "running", "ok", "failed"}] /\ vm \in [Vmids -> VM]
        /\ Claimed(k) /\ job[k].target \in Vmids
    BY Zenon, <1>u DEF CloneInv, CloneTypes, Targets
  <1>1. CASE UNCHANGED <<task, vm>>
    BY Zenon, <1>u, <1>t, <1>1, PveMoves
  <1>2. CASE ~(UNCHANGED <<task, vm>>)
    <2>1. PICK m : m = [mark |-> k, lock |-> TRUE, net |-> FALSE, gpu |-> FALSE]
      BY Zenon
    <2>2. m \in VM
      BY <2>1 DEF VM
    <2>3. task[k] = "none" /\ task' = [task EXCEPT ![k] = "running"] /\ vm' = [vm EXCEPT ![job[k].target] = m]
      BY Zenon, <1>2, <2>1 DEF ExecuteClone
    <2>4. task' \in [Jobs -> {"none", "running", "ok", "failed"}] /\ vm' \in [Vmids -> VM]
      BY Zenon, <1>t, <2>2, <2>3
    <2>5. ASSUME NEW l \in Jobs, Claimed(l), task[l] = "ok"
          PROVE  task'[l] = "ok" /\ vm'[job[l].target] = vm[job[l].target]
      <3>1. l # k
        BY <2>3, <2>5
      <3>2. job[l].target \in Vmids /\ job[l].target # job[k].target
        BY Zenon, <1>t, <2>5, <3>1, Constants DEF CloneInv, Targets
      <3> QED BY Zenon, <1>t, <2>3, <2>5, <3>1, <3>2
    <2> QED BY Zenon, <1>u, <2>4, <2>5, PveMoves
  <1> QED BY Zenon, <1>1, <1>2

LEMMA TaskEndsKeeps ==
  ASSUME CloneInv, NEW k \in Jobs, TaskEnds(k)
  PROVE  CloneInv'
  <1>u. UNCHANGED <<platform, processes, submitted, calls>> /\ task[k] = "running"
    BY Zenon DEF TaskEnds, PveOnly
  <1>t. task \in [Jobs -> {"none", "running", "ok", "failed"}] /\ vm \in [Vmids -> VM]
    BY Zenon DEF CloneInv, CloneTypes
  <1>1. PICK t \in {"ok", "failed"} : task' = [task EXCEPT ![k] = t]
    BY Zenon DEF TaskEnds
  <1>2. \/ vm' = vm \/ vm' = [vm EXCEPT ![job[k].target].lock = FALSE]
        \/ vm' = [vm EXCEPT ![job[k].target] = NoVM]
    BY Zenon DEF TaskEnds
  <1>3. task' \in [Jobs -> {"none", "running", "ok", "failed"}]
    BY <1>t, <1>1
  <1>4. vm' \in [Vmids -> VM] /\ \A v \in Vmids : v # job[k].target => vm'[v] = vm[v]
    <2>1. NoVM \in VM
      BY DEF NoVM, VM
    <2>2. CASE vm' = vm \/ vm' = [vm EXCEPT ![job[k].target] = NoVM]
      BY Zenon, <1>t, <2>1, <2>2
    <2>3. CASE vm' = [vm EXCEPT ![job[k].target].lock = FALSE]
      BY Zenon, <1>t, <2>3 DEF VM
    <2> QED BY Zenon, <1>2, <2>2, <2>3
  <1>5. ASSUME NEW l \in Jobs, Claimed(l), task[l] = "ok"
        PROVE  task'[l] = "ok" /\ vm'[job[l].target] = vm[job[l].target]
    <2>1. l # k
      BY <1>u, <1>5
    <2>2. job[l].target \in Vmids /\ job[l].target # job[k].target
      BY Zenon, <1>5, <2>1, Constants DEF CloneInv, Targets
    <2> QED BY Zenon, <1>t, <1>1, <1>4, <1>5, <2>1, <2>2
  <1> QED BY Zenon, <1>u, <1>3, <1>4, <1>5, PveMoves

LEMMA ForeignMachineKeeps ==
  ASSUME CloneInv, NEW v \in Vmids, ForeignMachine(v)
  PROVE  CloneInv'
  <1>u. UNCHANGED <<job, desk, inventory, hand, cursor, page, recovery, lock, calls, task, submitted>>
    BY Zenon DEF ForeignMachine, platform
  <1>t. vm \in [Vmids -> VM] /\ work \in [Refreshers -> Refresh]
    BY Zenon DEF CloneInv, CloneTypes
  <1>1. PICK m : m = [mark |-> 0, lock |-> FALSE, net |-> TRUE, gpu |-> FALSE]
    BY Zenon
  <1>2. m \in VM /\ m.mark = 0
    BY <1>1 DEF VM
  <1>3. vm' = [vm EXCEPT ![v] = m] /\ work' = Touched(v)
    BY Zenon, <1>1 DEF ForeignMachine
  <1>4. vm' \in [Vmids -> VM] /\ vm'[v] = m /\ \A z \in Vmids : z # v => vm'[z] = vm[z]
    BY Zenon, <1>t, <1>2, <1>3
  <1>5. JobsStay /\ DesksStay /\ Targets
    BY Zenon, <1>u DEF JobsStay, DesksStay, Claimed, CloneInv
  <1>6. ASSUME NEW k \in Jobs, Claimed(k), task[k] = "ok"
        PROVE  MachineStays(k) /\ (job[k].target # v => (MarkerMatches(k) => MarkerMatches(k)'))
    <2>1. job[k].target \in Vmids /\ k # 0
      BY Zenon, <1>6, Constants DEF CloneInv, Targets
    <2>2. CASE job[k].target = v
      <3>1. Machine(k)'.mark # k
        BY Zenon, <1>u, <1>2, <1>4, <2>1, <2>2 DEF Machine
      <3> QED BY Zenon, <1>u, <1>6, <2>2, <3>1 DEF MachineStays
    <2>3. CASE job[k].target # v
      BY Zenon, <1>u, <1>4, <1>6, <2>1, <2>3 DEF MachineStays, Machine, MarkerMatches
    <2> QED BY Zenon, <2>2, <2>3
  <1>7. ASSUME NEW x \in Refreshers PROVE work'[x] \in Refresh /\ Relies(work[x])'
    <2>1. work[x] \in Refresh /\ Relies(work[x])
      BY Zenon, <1>t DEF CloneInv
    <2>2. PICK s : s = work'[x]
      OBVIOUS
    <2>3. CASE work[x].job \in Jobs /\ job[work[x].job].target = v
      <3>1. s = [work[x] EXCEPT !.touched = TRUE]
        BY Zenon, <1>3, <2>2, <2>3 DEF Touched
      <3>2. /\ s \in Refresh /\ s.touched /\ s.ph = work[x].ph /\ s.job = work[x].job /\ s.upid = work[x].upid
            /\ s.fail = work[x].fail
        BY Zenon, <2>1, <3>1 DEF Refresh
      <3>3. Relies(s)
        BY Zenon, <2>1, <3>2 DEF Relies, Within
      <3>4. Relies(s)'
        BY Zenon, <1>5, <1>6, <3>2, <3>3, ReliesStays
      <3> QED BY <2>2, <3>2, <3>4
    <2>4. CASE ~(work[x].job \in Jobs /\ job[work[x].job].target = v)
      <3>1. s = work[x]
        BY Zenon, <1>3, <2>2, <2>4 DEF Touched
      <3>2. Relies(s)'
        BY Zenon, <1>5, <1>6, <2>1, <2>4, <3>1, ReliesStays
      <3> QED BY <2>1, <2>2, <3>1, <3>2
    <2> QED BY Zenon, <2>3, <2>4
  <1>8. work' \in [Refreshers -> Refresh]
    <2>1. work' = [x \in Refreshers |-> work'[x]]
      BY Zenon, <1>3 DEF Touched
    <2> QED BY Zenon, <1>7, <2>1
  <1>9. CloneTypes' /\ Targets' /\ Claims'
    BY Zenon, <1>u, <1>4, <1>8 DEF CloneInv, CloneTypes, Targets, Claims, Claimed
  <1> QED BY Zenon, <1>7, <1>9 DEF CloneInv

LEMMA QuietTargets ==
  ASSUME CloneInv, UNCHANGED <<job, hand, recovery, calls, submitted>>
  PROVE  Targets' /\ Claims' /\ JobsStay
  BY Zenon DEF CloneInv, Targets, Claims, Claimed, JobsStay

LEMMA DatabaseKeeps ==
  ASSUME CloneInv, (\E v \in Vmids : LockLost(v)) \/ ReadInventory \/ ReconcileManagedDesktops
  PROVE  CloneInv'
  <1>1. ASSUME NEW v \in Vmids, LockLost(v) PROVE CloneInv'
    <2>1. UNCHANGED <<job, desk, inventory, hand, work, cursor, page, recovery, calls, task, vm, submitted>>
      BY Zenon, <1>1 DEF LockLost, platform, pve
    <2>2. lock' \in [Vmids -> Refreshers \cup {"recovery", None}]
      BY Zenon, <1>1 DEF LockLost, CloneInv, CloneTypes
    <2> QED BY Zenon, <2>1, <2>2, QuietTargets, JobMoves DEF CloneInv, CloneTypes
  <1>2. ASSUME desk' \in [Vmids -> Desk], DesksStay, inventory' \in (SUBSET Vmids) \cup {None},
               UNCHANGED <<job, processes, pve, submitted>>
        PROVE  CloneInv'
    <2>1. UNCHANGED <<job, hand, work, cursor, page, recovery, lock, calls, task, vm, submitted>>
      BY Zenon, <1>2 DEF processes, pve
    <2>2. Targets' /\ Claims' /\ JobsStay
      BY Zenon, <2>1, QuietTargets
    <2>3. \A k \in Jobs : Claimed(k) /\ task[k] = "ok"
                            => MachineStays(k) /\ (MarkerMatches(k) => MarkerMatches(k)')
      BY Zenon, <2>1 DEF MachineStays, Machine, MarkerMatches
    <2>4. \A x \in Refreshers : Relies(work[x])'
      BY Zenon, <1>2, <2>1, <2>2, <2>3, OthersRely
    <2>5. CloneTypes'
      BY Zenon, <1>2, <2>1 DEF CloneInv, CloneTypes
    <2> QED BY Zenon, <2>2, <2>4, <2>5 DEF CloneInv
  <1>3. CASE ReadInventory
    <2>1. {v \in Vmids : Exists(v)} \in SUBSET Vmids
      BY Zenon
    <2> QED BY Zenon, <1>2, <1>3, <2>1 DEF ReadInventory, CloneInv, CloneTypes, DesksStay
  <1>4. CASE ReconcileManagedDesktops
    <2>1. desk \in [Vmids -> Desk]
      BY Zenon DEF CloneInv, CloneTypes
    <2>2. desk' = [v \in Vmids |-> IF v \in inventory THEN [desk[v] EXCEPT !.known = TRUE, !.present = TRUE]
                                   ELSE [desk[v] EXCEPT !.present = FALSE]]
      BY Zenon, <1>4 DEF ReconcileManagedDesktops
    <2>3. ASSUME NEW v \in Vmids PROVE desk'[v] \in Desk /\ (desk[v].known => desk'[v].known)
      <3>1. desk[v] \in Desk
        BY Zenon, <2>1
      <3>2. PICK d : d = desk[v]
        OBVIOUS
      <3>3. desk'[v] = [d EXCEPT !.known = TRUE, !.present = TRUE] \/ desk'[v] = [d EXCEPT !.present = FALSE]
        BY Zenon, <2>2, <3>2
      <3> QED BY Zenon, <3>1, <3>2, <3>3 DEF Desk
    <2>4. desk' \in [Vmids -> Desk] /\ DesksStay
      <3>1. desk' = [v \in Vmids |-> desk'[v]]
        BY Zenon, <2>2
      <3> QED BY Zenon, <2>3, <3>1 DEF DesksStay
    <2>5. inventory' \in (SUBSET Vmids) \cup {None} /\ UNCHANGED <<job, processes, pve, submitted>>
      BY Zenon, <1>4 DEF ReconcileManagedDesktops
    <2> QED BY Zenon, <1>2, <2>4, <2>5
  <1> QED BY Zenon, <1>1, <1>3, <1>4

-----------------------------------------------------------------------------
(* The recovery of a lost handle                                           *)

\* Only the job's own task names the job's target.
LEMMA InspectRecoveryKeeps ==
  ASSUME CloneInv, NEW k \in Jobs, NEW t \in Jobs, InspectRecovery(k, t)
  PROVE  CloneInv'
  <1>u. UNCHANGED <<job, desk, inventory, hand, work, cursor, page, calls, task, vm, submitted>>
    BY Zenon DEF InspectRecovery, platform, pve
  <1>1. Claimed(k) /\ job[t].target = job[k].target
    BY DEF InspectRecovery, Unattached, Evidence, Claimed
  <1>2. t = k
    BY Zenon, <1>1, Constants DEF CloneInv, Targets
  <1>3. PICK rec : rec = [job |-> k, upid |-> t]
    BY Zenon
  <1>4. recovery' = rec
    BY Zenon, <1>3 DEF InspectRecovery
  <1>5. rec \in [job : Jobs \cup {None}, upid : Jobs \cup {None}] /\ rec.job = k /\ rec.upid = k
    BY <1>2, <1>3
  <1>6. Targets'
    BY Zenon, <1>u, <1>1, <1>4, <1>5 DEF CloneInv, Targets, Claimed
  <1>7. Claims' /\ JobsStay
    BY Zenon, <1>u DEF CloneInv, Claims, Claimed, JobsStay
  <1>8. lock' \in [Vmids -> Refreshers \cup {"recovery", None}]
    BY Zenon DEF InspectRecovery, CloneInv, CloneTypes
  <1> QED BY Zenon, <1>u, <1>4, <1>5, <1>6, <1>7, <1>8, JobMoves DEF CloneInv, CloneTypes

LEMMA RecoveryKeeps ==
  ASSUME CloneInv, CommitCloneRecovery \/ RecoveryFails
  PROVE  CloneInv'
  <1>u. /\ UNCHANGED <<desk, inventory, hand, work, cursor, page, calls, task, vm, submitted>>
        /\ RecoveryEnds /\ recovery.job # None
    BY Zenon DEF CommitCloneRecovery, RecoveryFails, RecoveryEnds, pve
  <1>1. recovery' \in [job : Jobs \cup {None}, upid : Jobs \cup {None}] /\ recovery'.job = None /\ recovery'.upid = None
    BY <1>u DEF RecoveryEnds
  <1>2. lock' \in [Vmids -> Refreshers \cup {"recovery", None}]
    BY Zenon, <1>u DEF RecoveryEnds, CloneInv, CloneTypes
  <1>3. CASE job' = job
    <2>1. Targets'
      BY Zenon, <1>u, <1>1, <1>3 DEF CloneInv, Targets, Claimed
    <2>2. Claims' /\ JobsStay
      BY Zenon, <1>u, <1>3 DEF CloneInv, Claims, Claimed, JobsStay
    <2> QED BY Zenon, <1>u, <1>1, <1>2, <1>3, <2>1, <2>2, JobMoves DEF CloneInv, CloneTypes
  <1>4. CASE job' # job
    <2>1. PICK k : k = recovery.job
      OBVIOUS
    <2>2. k \in Jobs /\ Claimed(k) /\ recovery.upid = k
      <3>1. recovery.job \in Jobs \cup {None}
        BY DEF CloneInv, CloneTypes
      <3> QED BY Zenon, <1>u, <2>1, <3>1 DEF CloneInv, Targets
    <2>3. job' = [job EXCEPT ![k].st = "running", ![k].upid = k]
      BY Zenon, <1>4, <2>1, <2>2 DEF CommitCloneRecovery, RecoveryFails
    <2>4. job' = [job EXCEPT ![k] = [job[k] EXCEPT !.st = "running", !.upid = k]]
      BY Zenon, <2>3
    <2>5. "running" \in {"accepted", "running", "succeeded", "failed"} /\ k \in {None, k} /\ k # None
      BY <2>2, Constants
    <2>6. job' \in [Jobs -> Job] /\ Targets' /\ JobsStay /\ \A l \in Jobs : Claimed(l)' <=> Claimed(l)
      BY Zenon, <1>u, <1>1, <2>2, <2>4, <2>5, JobWritten
    <2>7. Claims'
      BY Zenon, <1>u, <2>6, Constants DEF CloneInv, Claims
    <2> QED BY Zenon, <1>u, <1>1, <1>2, <2>6, <2>7, JobMoves DEF CloneInv, CloneTypes
  <1> QED BY Zenon, <1>3, <1>4

-----------------------------------------------------------------------------
(* The handlers of requests                                                *)

LEMMA GotoMoves ==
  ASSUME CloneInv, NEW r \in Requests, NEW ph \in {"new", "admitted", "surveyed", "suggested", "reserved", "submitted", "done"},
         Goto(r, ph)
  PROVE  /\ hand' \in [Requests -> Hand] /\ hand'[r].ph = ph /\ hand'[r].next = hand[r].next
         /\ \A s \in Requests : s # r => hand'[s] = hand[s]
  <1>1. hand \in [Requests -> Hand]
    BY Zenon DEF CloneInv, CloneTypes
  <1> QED BY <1>1 DEF Goto, Hand

\* A handler moves on without a claim of its own.
LEMMA HandMoves ==
  ASSUME CloneInv, NEW r \in Requests, hand' \in [Requests -> Hand],
         \A s \in Requests : s # r => hand'[s] = hand[s],
         hand'[r].ph # "reserved",
         hand'[r].ph = "submitted" => Claimed(JobOf[r])',
         hand'[r].ph = "suggested" => hand'[r].next \in Vmids,
         \A k \in Jobs : Claimed(k) => Claimed(k)',
         \A s \in Requests : s # r /\ hand[s].ph = "reserved" => submitted'[JobOf[s]] = 0
  PROVE  Claims'
  <1>1. "submitted" # "reserved"
    OBVIOUS
  <1>2. ASSUME NEW s \in Requests
        PROVE  /\ hand'[s].ph \in {"reserved", "submitted"} => Claimed(JobOf[s])'
               /\ hand'[s].ph = "suggested" => hand'[s].next \in Vmids
               /\ hand'[s].ph = "reserved" =>
                    /\ submitted'[JobOf[s]] = 0
                    /\ \A q \in Requests : q # s /\ JobOf[q] = JobOf[s] => hand'[q].ph # "reserved"
    <2>1. CASE s = r
      BY Zenon, <1>1, <2>1
    <2>2. CASE s # r
      <3>1. hand'[s] = hand[s] /\ JobOf[s] \in Jobs
        BY Zenon, <2>2, Constants
      <3>2. \A q \in Requests : hand'[q].ph = "reserved" => hand[q].ph = "reserved"
        BY Zenon
      <3> QED BY Zenon, <2>2, <3>1, <3>2 DEF CloneInv, Claims
    <2> QED BY Zenon, <2>1, <2>2
  <1> QED BY Zenon, <1>2 DEF Claims

\* The jobs are left alone, or one job of a claimed key is written.
LEMMA HandlerMoves ==
  ASSUME CloneInv, NEW r \in Requests, HandlerOnly, hand' \in [Requests -> Hand], Claims', Targets', JobsStay,
         job' \in [Jobs -> Job], calls' \in SUBSET Jobs, submitted' \in [Jobs -> {0, 1}]
  PROVE  CloneInv'
  <1>1. UNCHANGED <<desk, inventory, lock, work, cursor, page, recovery, task, vm>>
    BY Zenon DEF HandlerOnly
  <1> QED BY Zenon, <1>1, JobMoves DEF CloneInv, CloneTypes

LEMMA SearchKeeps ==
  ASSUME CloneInv, NEW r \in Requests,
         PrepareJobRequest(r) \/ ValidateClone(r) \/ NextVMID(r) \/ HandlerDies(r)
  PROVE  CloneInv'
  <1>u. HandlerOnly /\ UNCHANGED <<job, calls, submitted>>
    BY Zenon DEF PrepareJobRequest, ValidateClone, NextVMID, HandlerDies
  <1>t. hand \in [Requests -> Hand] /\ hand[r] \in Hand
    BY Zenon DEF CloneInv, CloneTypes
  <1>1. PICK n \in Hand : /\ hand' = [hand EXCEPT ![r] = n]
                          /\ n.ph \notin {"reserved", "submitted"}
                          /\ n.ph = "suggested" => n.next \in Vmids
    <2>1. CASE PrepareJobRequest(r) \/ HandlerDies(r)
      <3>1. PICK ph \in {"admitted", "done"} : hand' = [hand EXCEPT ![r] = [hand[r] EXCEPT !.ph = ph]]
        BY Zenon, <2>1 DEF PrepareJobRequest, HandlerDies, Goto
      <3>2. PICK n : n = [hand[r] EXCEPT !.ph = ph]
        BY Zenon
      <3>3. n \in Hand /\ n.ph = ph /\ ph \notin {"reserved", "submitted", "suggested"}
        BY <1>t, <3>2 DEF Hand
      <3> QED BY Zenon, <3>1, <3>2, <3>3
    <2>2. CASE ValidateClone(r)
      <3>1. PICK V \in SUBSET Vmids : V = {v \in Vmids : Exists(v)}
        BY Zenon
      <3>2. PICK n : n = [hand[r] EXCEPT !.ph = "surveyed", !.occupied = V]
        OBVIOUS
      <3>3. hand' = [hand EXCEPT ![r] = n]
        BY Zenon, <2>2, <3>1, <3>2 DEF ValidateClone
      <3>4. n \in Hand /\ n.ph = "surveyed" /\ n.ph \notin {"reserved", "submitted", "suggested"}
        BY Zenon, <1>t, <3>2 DEF Hand
      <3> QED BY Zenon, <3>3, <3>4
    <2>3. CASE NextVMID(r)
      <3>1. PICK free \in SUBSET Vmids : free = {v \in Vmids : ~Exists(v)}
        BY Zenon
      <3>2. hand' = [hand EXCEPT ![r] = IF free = {} THEN [hand[r] EXCEPT !.ph = "done"]
                                        ELSE [hand[r] EXCEPT !.ph = "suggested", !.next = Min(free)]]
        BY Zenon, <2>3, <3>1 DEF NextVMID
      <3>3. CASE free = {}
        <4>1. PICK n : n = [hand[r] EXCEPT !.ph = "done"]
          BY Zenon
        <4>2. n \in Hand /\ n.ph \notin {"reserved", "submitted", "suggested"}
          BY <1>t, <4>1 DEF Hand
        <4> QED BY Zenon, <3>2, <3>3, <4>1, <4>2
      <3>4. CASE free # {}
        <4>1. PICK v : v = Min(free)
          OBVIOUS
        <4>2. v \in Vmids
          BY Zenon, <3>4, <4>1, MinIsMember, Constants
        <4>3. PICK n : n = [hand[r] EXCEPT !.ph = "suggested", !.next = v]
          OBVIOUS
        <4>4. n \in Hand /\ n.ph \notin {"reserved", "submitted"} /\ n.next = v
          BY Zenon, <1>t, <4>2, <4>3 DEF Hand
        <4> QED BY Zenon, <3>2, <3>4, <4>1, <4>2, <4>3, <4>4
      <3> QED BY Zenon, <3>3, <3>4
    <2> QED BY Zenon, <2>1, <2>2, <2>3
  <1>2. hand' \in [Requests -> Hand] /\ hand'[r] = n /\ \A s \in Requests : s # r => hand'[s] = hand[s]
    BY Zenon, <1>t, <1>1
  <1>3. Claims'
    <2>1. \A k \in Jobs : Claimed(k) => Claimed(k)'
      BY Zenon, <1>u DEF Claimed
    <2>2. n.ph # "reserved" /\ n.ph # "submitted"
      BY <1>1
    <2>3. \A s \in Requests : s # r /\ hand[s].ph = "reserved" => submitted'[JobOf[s]] = 0
      BY Zenon, <1>u DEF CloneInv, Claims
    <2> QED BY Zenon, <1>1, <1>2, <2>1, <2>2, <2>3, HandMoves
  <1>4. Targets' /\ JobsStay
    BY Zenon, <1>u DEF CloneInv, Targets, Claimed, JobsStay, HandlerOnly
  <1> QED BY Zenon, <1>u, <1>2, <1>3, <1>4, HandlerMoves DEF CloneInv, CloneTypes

\* The key was not claimed and the target nobody's, so neither is shared now.
LEMMA ReserveDesktopCloneJobKeeps ==
  ASSUME CloneInv, NEW r \in Requests, ReserveDesktopCloneJob(r)
  PROVE  CloneInv'
  <1>u. HandlerOnly /\ UNCHANGED <<calls, submitted, recovery>>
    BY Zenon DEF ReserveDesktopCloneJob, HandlerOnly
  <1>t. job \in [Jobs -> Job] /\ hand \in [Requests -> Hand]
    BY Zenon DEF CloneInv, CloneTypes
  <1>p. PICK k \in Jobs : k = JobOf[r]
    BY Zenon, Constants
  <1>1. CASE Goto(r, "done") /\ UNCHANGED job
    <2>1. hand' \in [Requests -> Hand] /\ hand'[r].ph = "done" /\ \A s \in Requests : s # r => hand'[s] = hand[s]
      BY <1>1, GotoMoves
    <2>2. \A l \in Jobs : Claimed(l) => Claimed(l)'
      BY Zenon, <1>1 DEF Claimed
    <2>3. "done" # "reserved" /\ "done" # "submitted" /\ "done" # "suggested"
      OBVIOUS
    <2>4. \A s \in Requests : s # r /\ hand[s].ph = "reserved" => submitted'[JobOf[s]] = 0
      BY Zenon, <1>u DEF CloneInv, Claims
    <2>5. Claims'
      BY Zenon, <2>1, <2>2, <2>3, <2>4, HandMoves
    <2>6. Targets' /\ JobsStay
      BY Zenon, <1>u, <1>1 DEF CloneInv, Targets, Claimed, JobsStay
    <2> QED BY Zenon, <1>u, <1>1, <2>1, <2>5, <2>6, HandlerMoves DEF CloneInv, CloneTypes
  <1>2. CASE /\ job[k].st = "none" /\ Candidates(r) # {}
             /\ job' = [job EXCEPT ![k] = [st |-> "accepted", target |-> Min(Candidates(r)), upid |-> None]]
             /\ Goto(r, "reserved")
    <2>1. PICK v : v = Min(Candidates(r))
      OBVIOUS
    <2>2. v \in Candidates(r)
      <3>1. Candidates(r) \in SUBSET Nat
        BY Zenon, Constants DEF Candidates
      <3> QED BY Zenon, <1>2, <2>1, <3>1, MinIsMember
    <2>3. v \in Vmids /\ \A l \in Jobs : job[l].target # v
      BY Zenon, <2>2 DEF Candidates, Reserved
    <2>4. PICK n : n = [st |-> "accepted", target |-> v, upid |-> None]
      BY Zenon
    <2>5. n \in Job /\ n.st = "accepted" /\ n.target = v /\ n.upid = None /\ n.st # "none" /\ n.st # "running"
      BY <2>3, <2>4 DEF Job
    <2>6. job' = [job EXCEPT ![k] = n]
      BY Zenon, <1>2, <2>1, <2>4
    <2>7. job' \in [Jobs -> Job] /\ job'[k] = n /\ \A l \in Jobs : l # k => job'[l] = job[l]
      BY Zenon, <1>t, <2>5, <2>6
    <2>8. ~Claimed(k) /\ Claimed(k)' /\ \A l \in Jobs : l # k => (Claimed(l)' <=> Claimed(l))
      BY Zenon, <1>2, <2>5, <2>7 DEF Claimed
    <2>9. hand' \in [Requests -> Hand] /\ hand'[r].ph = "reserved" /\ \A s \in Requests : s # r => hand'[s] = hand[s]
      BY <1>2, GotoMoves
    <2>10. JobsStay
      BY Zenon, <2>7, <2>8 DEF JobsStay
    <2>11. Targets'
      <3>1. ASSUME NEW l \in Jobs
            PROVE  /\ Claimed(l)' => job'[l].target \in Vmids
                   /\ ~Claimed(l)' => job'[l].target = None /\ job'[l].upid = None /\ submitted'[l] = 0
                   /\ job'[l].upid \in {None, l}
                   /\ job'[l].st = "running" => job'[l].upid # None
                   /\ l \in calls' => Claimed(l)'
        <4>1. CASE l = k
          BY Zenon, <2>3, <2>5, <2>7, <2>8, <4>1
        <4>2. CASE l # k
          <5>1. /\ Claimed(l) => job[l].target \in Vmids
                /\ ~Claimed(l) => job[l].target = None /\ job[l].upid = None /\ submitted[l] = 0
                /\ job[l].upid \in {None, l}
                /\ job[l].st = "running" => job[l].upid # None
                /\ l \in calls => Claimed(l)
            BY Zenon DEF CloneInv, Targets
          <5> QED BY Zenon, <1>u, <2>7, <2>8, <4>2, <5>1
        <4> QED BY Zenon, <4>1, <4>2
      <3>2. \A j, l \in Jobs : job'[j].target = job'[l].target /\ j # l => job'[j].target = None
        <4>1. \A j, l \in Jobs : job[j].target = job[l].target /\ j # l => job[j].target = None
          BY Zenon DEF CloneInv, Targets
        <4> QED BY Zenon, <2>3, <2>5, <2>7, <4>1
      <3>3. recovery'.upid = recovery'.job
        BY Zenon, <1>u DEF CloneInv, Targets
      <3>4. recovery'.job # None => Claimed(recovery.job)'
        <4>1. PICK j : j = recovery.job
          OBVIOUS
        <4>2. j # None => j \in Jobs /\ Claimed(j)
          <5>1. recovery.job \in Jobs \cup {None}
            BY DEF CloneInv, CloneTypes
          <5> QED BY Zenon, <4>1, <5>1 DEF CloneInv, Targets
        <4>3. j # None => Claimed(j)'
          BY Zenon, <4>2, <2>8
        <4> QED BY Zenon, <1>u, <4>1, <4>3 DEF Claimed
      <3> QED BY Zenon, <3>1, <3>2, <3>3, <3>4 DEF Targets
    <2>12. Claims'
      <3>1. \A s \in Requests : JobOf[s] = k => hand[s].ph # "reserved" /\ hand[s].ph # "submitted"
        BY <2>8 DEF CloneInv, Claims
      <3>2. submitted'[k] = 0
        BY Zenon, <1>u, <2>8 DEF CloneInv, Targets
      <3>3. "reserved" # "suggested"
        OBVIOUS
      <3>4. ASSUME NEW s \in Requests
            PROVE  /\ hand'[s].ph \in {"reserved", "submitted"} => Claimed(JobOf[s])'
                   /\ hand'[s].ph = "suggested" => hand'[s].next \in Vmids
                   /\ hand'[s].ph = "reserved" =>
                        /\ submitted'[JobOf[s]] = 0
                        /\ \A q \in Requests : q # s /\ JobOf[q] = JobOf[s] => hand'[q].ph # "reserved"
        <4>1. CASE s = r
          BY Zenon, <1>p, <2>8, <2>9, <3>1, <3>2, <3>3, <4>1
        <4>2. CASE s # r
          <5>1. hand'[s] = hand[s] /\ JobOf[s] \in Jobs
            BY Zenon, <2>9, <4>2, Constants
          <5>2. hand[s].ph = "reserved" => JobOf[s] # k
            BY Zenon, <3>1
          <5>3. hand[s].ph \in {"reserved", "submitted"} => Claimed(JobOf[s])'
            BY Zenon, <5>1, <2>8 DEF CloneInv, Claims
          <5> QED BY Zenon, <1>u, <1>p, <2>9, <5>1, <5>2, <5>3 DEF CloneInv, Claims
        <4> QED BY Zenon, <4>1, <4>2
      <3> QED BY Zenon, <3>4 DEF Claims
    <2> QED BY Zenon, <1>u, <2>7, <2>9, <2>10, <2>11, <2>12, HandlerMoves DEF CloneInv, CloneTypes
  <1> QED BY Zenon, <1>1, <1>2, <1>p DEF ReserveDesktopCloneJob

\* The one clone call of a job.
LEMMA CloneTemplateKeeps ==
  ASSUME CloneInv, NEW r \in Requests, CloneTemplate(r)
  PROVE  CloneInv'
  <1>u. HandlerOnly /\ UNCHANGED <<job, recovery>>
    BY Zenon DEF CloneTemplate, HandlerOnly
  <1>p. PICK k \in Jobs : k = JobOf[r]
    BY Zenon, Constants
  <1>1. Claimed(k) /\ submitted[k] = 0 /\ \A s \in Requests : s # r /\ JobOf[s] = k => hand[s].ph # "reserved"
    BY <1>p DEF CloneTemplate, At, CloneInv, Claims
  <1>2. submitted' \in [Jobs -> {0, 1}] /\ \A l \in Jobs : l # k => submitted'[l] = submitted[l]
    <2>1. submitted \in [Jobs -> {0, 1}] /\ submitted' = [submitted EXCEPT ![k] = submitted[k] + 1]
      BY Zenon, <1>p DEF CloneInv, CloneTypes, CloneTemplate
    <2>2. submitted[k] + 1 = 1
      BY <1>1
    <2> QED BY <2>1, <2>2
  <1>3. calls' \in SUBSET Jobs /\ \A l \in calls' : l \in calls \/ l = k
    BY Zenon, <1>p DEF CloneTemplate, CloneInv, CloneTypes
  <1>4. Goto(r, "submitted")
    BY Zenon DEF CloneTemplate
  <1>5. hand' \in [Requests -> Hand] /\ hand'[r].ph = "submitted" /\ \A s \in Requests : s # r => hand'[s] = hand[s]
    BY <1>4, GotoMoves
  <1>6. \A l \in Jobs : Claimed(l)' <=> Claimed(l)
    BY Zenon, <1>u DEF Claimed
  <1>7. Claims'
    <2>1. "submitted" # "reserved" /\ "submitted" # "suggested"
      OBVIOUS
    <2>2. \A s \in Requests : s # r /\ hand[s].ph = "reserved" => submitted'[JobOf[s]] = 0
      BY Zenon, <1>1, <1>2, Constants DEF CloneInv, Claims
    <2> QED BY Zenon, <1>p, <1>1, <1>5, <1>6, <2>1, <2>2, HandMoves
  <1>8. Targets' /\ JobsStay
    BY Zenon, <1>u, <1>1, <1>2, <1>3, <1>6 DEF CloneInv, Targets, Claimed, JobsStay
  <1> QED BY Zenon, <1>u, <1>2, <1>3, <1>5, <1>7, <1>8, HandlerMoves DEF CloneInv, CloneTypes

\* The answer to the call, or its loss, is written to a job that is claimed.
LEMMA AnswerKeeps ==
  ASSUME CloneInv, NEW r \in Requests, CloneAnswered(r) \/ CloneUncertain(r)
  PROVE  CloneInv'
  <1>u. HandlerOnly /\ UNCHANGED <<calls, submitted, recovery>> /\ Goto(r, "done") /\ hand[r].ph = "submitted"
    BY Zenon DEF CloneAnswered, CloneUncertain, HandlerOnly, At
  <1>p. PICK k \in Jobs : k = JobOf[r]
    BY Zenon, Constants
  <1>1. Claimed(k)
    BY Zenon, <1>p, <1>u DEF CloneInv, Claims
  <1>2. job' \in [Jobs -> Job] /\ Targets' /\ JobsStay /\ \A l \in Jobs : Claimed(l)' <=> Claimed(l)
    <2>r. /\ recovery'.upid = recovery'.job /\ recovery'.job \in Jobs \cup {None}
          /\ recovery'.job # None => recovery'.job = recovery.job
      BY <1>u DEF CloneInv, CloneTypes, Targets
    <2>1. CASE UNCHANGED job
      BY Zenon, <1>u, <2>1 DEF CloneInv, CloneTypes, Targets, Claimed, JobsStay
    <2>2. CASE job' = [job EXCEPT ![k].st = "running", ![k].upid = k]
      <3>1. job' = [job EXCEPT ![k] = [job[k] EXCEPT !.st = "running", !.upid = k]]
        BY Zenon, <2>2
      <3>2. "running" \in {"accepted", "running", "succeeded", "failed"} /\ k \in {None, k} /\ k # None
        BY Constants
      <3> QED BY Zenon, <1>u, <1>1, <2>r, <3>1, <3>2, JobWritten
    <2>3. CASE job' = [job EXCEPT ![k].st = "accepted", ![k].upid = None]
      <3>1. job' = [job EXCEPT ![k] = [job[k] EXCEPT !.st = "accepted", !.upid = None]]
        BY Zenon, <2>3
      <3>2. "accepted" \in {"accepted", "running", "succeeded", "failed"} /\ None \in {None, k} /\ "accepted" # "running"
        OBVIOUS
      <3> QED BY Zenon, <1>u, <1>1, <2>r, <3>1, <3>2, JobWritten
    <2> QED BY Zenon, <1>p, <2>1, <2>2, <2>3 DEF CloneAnswered, CloneUncertain, RecordCloneTaskHandle
  <1>3. hand' \in [Requests -> Hand] /\ hand'[r].ph = "done" /\ \A s \in Requests : s # r => hand'[s] = hand[s]
    BY <1>u, GotoMoves
  <1>4. Claims'
    <2>1. "done" # "reserved" /\ "done" # "submitted" /\ "done" # "suggested"
      OBVIOUS
    <2>2. \A s \in Requests : s # r /\ hand[s].ph = "reserved" => submitted'[JobOf[s]] = 0
      BY Zenon, <1>u DEF CloneInv, Claims
    <2> QED BY Zenon, <1>2, <1>3, <2>1, <2>2, HandMoves
  <1> QED BY Zenon, <1>u, <1>2, <1>3, <1>4, HandlerMoves DEF CloneInv, CloneTypes

-----------------------------------------------------------------------------
(* The invariant                                                           *)

LEMMA InitClone == Init => CloneInv
  <1> SUFFICES ASSUME Init PROVE CloneInv
    OBVIOUS
  <1>1. NoJob \in Job /\ NoDesk \in Desk /\ NoVM \in VM /\ Idle \in Refresh
    BY DEF NoJob, NoDesk, NoVM, Idle, Job, Desk, VM, Refresh
  <1>2. [ph |-> "new", occupied |-> {}, next |-> None] \in Hand
    BY DEF Hand
  <1>3. CloneTypes
    <2>1. job \in [Jobs -> Job] /\ desk \in [Vmids -> Desk] /\ vm \in [Vmids -> VM] /\ work \in [Refreshers -> Refresh]
      BY Zenon, <1>1 DEF Init
    <2>2. hand \in [Requests -> Hand]
      BY Zenon, <1>2 DEF Init
    <2>3. /\ inventory \in (SUBSET Vmids) \cup {None}
          /\ lock \in [Vmids -> Refreshers \cup {"recovery", None}]
          /\ recovery \in [job : Jobs \cup {None}, upid : Jobs \cup {None}]
      BY DEF Init
    <2>4. /\ cursor \in [Loops -> Jobs \cup {0}] /\ page \in [Loops -> SUBSET Jobs] /\ calls \in SUBSET Jobs
          /\ task \in [Jobs -> {"none", "running", "ok", "failed"}] /\ submitted \in [Jobs -> {0, 1}]
      BY DEF Init
    <2> QED BY Zenon, <2>1, <2>2, <2>3, <2>4 DEF CloneTypes
  <1>4. Targets
    <2>1. \A k \in Jobs : job[k].st = "none" /\ job[k].target = None /\ job[k].upid = None /\ submitted[k] = 0
      BY DEF Init, NoJob
    <2>2. recovery.job = None /\ recovery.upid = None /\ calls = {} /\ "none" # "running"
      BY DEF Init
    <2>3. \A k \in Jobs : k \notin calls
      BY <2>2
    <2> QED BY Zenon, <2>1, <2>2, <2>3 DEF Targets, Claimed
  <1>5. Claims
    BY DEF Init, Claims
  <1>6. \A w \in Refreshers : Relies(work[w])
    <2>1. \A w \in Refreshers : work[w].ph = "idle"
      BY DEF Init, Idle
    <2> QED BY Zenon, <2>1 DEF Relies
  <1> QED BY Zenon, <1>3, <1>4, <1>5, <1>6 DEF CloneInv

LEMMA StepClone == CloneInv /\ [Next]_vars => CloneInv'
  <1> SUFFICES ASSUME CloneInv, [Next]_vars PROVE CloneInv'
    OBVIOUS
  <1>1. CASE UNCHANGED vars
    <2>1. UNCHANGED <<job, desk, inventory, lock, hand, work, cursor, page, recovery, calls, task, vm, submitted>>
      BY Zenon, <1>1 DEF vars, platform, processes, pve
    <2>2. Targets' /\ Claims' /\ JobsStay
      BY Zenon, <2>1, QuietTargets
    <2> QED BY Zenon, <2>1, <2>2, JobMoves DEF CloneInv, CloneTypes
  <1>2. ASSUME NEW r \in Requests, HandlerStep(r) \/ CloneUncertain(r) \/ HandlerDies(r) PROVE CloneInv'
    BY Zenon, <1>2, SearchKeeps, ReserveDesktopCloneJobKeeps, CloneTemplateKeeps, AnswerKeeps DEF HandlerStep
  <1>3. ASSUME NEW w \in Refreshers, RefreshStep(w) \/ RefreshFails(w) PROVE CloneInv'
    BY Zenon, <1>3, LoopsKeep, LockTargetKeeps, TaskStatusKeeps, ReadNetworkKeeps, ConfigureVMPrimaryDHCPKeeps,
       ReadGpuKeeps, ConfigureVMPCIResourceMappingKeeps, RequireCloneTargetKeeps, RegisterDesktopKeeps,
       CompleteJobTaskKeeps, RefreshFailsKeeps DEF RefreshStep
  <1>4. ASSUME NEW k \in Jobs, ExecuteClone(k) \/ TaskEnds(k) PROVE CloneInv'
    BY Zenon, <1>4, ExecuteCloneKeeps, TaskEndsKeeps
  <1>5. ASSUME NEW v \in Vmids, ForeignMachine(v) \/ LockLost(v) PROVE CloneInv'
    BY Zenon, <1>5, ForeignMachineKeeps, DatabaseKeeps
  <1>6. ASSUME NEW k \in Jobs, NEW t \in Jobs, InspectRecovery(k, t) PROVE CloneInv'
    BY Zenon, <1>6, InspectRecoveryKeeps
  <1>7. ASSUME \E w \in Watchers, k \in Jobs : Watch(w, k) PROVE CloneInv'
    BY Zenon, <1>7, LoopsKeep
  <1>8. ASSUME CommitCloneRecovery \/ RecoveryFails \/ ReadInventory \/ ReconcileManagedDesktops PROVE CloneInv'
    BY Zenon, <1>8, RecoveryKeeps, DatabaseKeeps
  <1> QED BY Zenon, <1>1, <1>2, <1>3, <1>4, <1>5, <1>6, <1>7, <1>8 DEF Next

\* The job k is completed by a refresh that is at its end.
CompletedBy(k, w) ==
  /\ work[w].job = k /\ work[w].ph = "complete" /\ Pending(k)
  /\ job'[k].st = IF work[w].fail THEN "failed" ELSE "succeeded"

\* All the ways a job can change: it is claimed, a handle is attached to it,
\* its own clone call fails, or a refresh completes it.
LEMMA JobSteps ==
  ASSUME CloneInv, [Next]_vars, NEW k \in Jobs, job'[k] # job[k]
  PROVE  \/ job[k].st \in {"none", "accepted"} /\ job'[k].st \in {"accepted", "running"}
         \/ /\ job'[k].st = "accepted"
            /\ \E r \in Requests : JobOf[r] = k /\ At(r, "submitted") /\ hand'[r].ph = "done"
         \/ \E w \in Refreshers : CompletedBy(k, w)
  <1>t. job \in [Jobs -> Job] /\ hand \in [Requests -> Hand]
    BY Zenon DEF CloneInv, CloneTypes
  <1>1. \/ \E r \in Requests : ReserveDesktopCloneJob(r) \/ CloneAnswered(r) \/ CloneUncertain(r)
        \/ \E w \in Refreshers : CompleteJobTask(w)
        \/ CommitCloneRecovery
    <2>1. job' # job
      BY Zenon
    <2> QED BY Zenon, <2>1 DEF Next, vars, platform, HandlerStep, RefreshStep, PrepareJobRequest, ValidateClone, NextVMID,
         CloneTemplate, HandlerDies, LockTarget, TaskStatus, ReadNetwork, ConfigureVMPrimaryDHCP, ReadGpu,
         ConfigureVMPCIResourceMapping, RequireCloneTarget, RegisterDesktop, RefreshFails, Watch, PendingCloneJobIDs,
         ResumeJob, ExecuteClone, TaskEnds, PveOnly, ForeignMachine, LockLost, InspectRecovery, RecoveryFails,
         ReadInventory, ReconcileManagedDesktops
  <1>2. ASSUME NEW r \in Requests, ReserveDesktopCloneJob(r)
        PROVE  job[k].st \in {"none", "accepted"} /\ job'[k].st \in {"accepted", "running"}
    <2>1. PICK l \in Jobs : l = JobOf[r]
      BY Zenon, Constants
    <2>2. PICK n : n = [st |-> "accepted", target |-> Min(Candidates(r)), upid |-> None]
      BY Zenon
    <2>3. job[l].st = "none" /\ job' = [job EXCEPT ![l] = n]
      BY Zenon, <1>2, <2>1, <2>2 DEF ReserveDesktopCloneJob
    <2>4. k = l /\ job'[k] = n
      BY Zenon, <1>t, <2>3
    <2> QED BY <2>2, <2>3, <2>4
  <1>3. ASSUME NEW l \in Jobs, job[l].st = "accepted", NEW u, job' = [job EXCEPT ![l].st = "running", ![l].upid = u]
        PROVE  job[k].st \in {"none", "accepted"} /\ job'[k].st \in {"accepted", "running"}
    <2>1. k = l
      BY Zenon, <1>t, <1>3
    <2> QED BY <1>t, <1>3, <2>1 DEF Job
  <1>4. ASSUME NEW r \in Requests, CloneAnswered(r)
        PROVE  job[k].st \in {"none", "accepted"} /\ job'[k].st \in {"accepted", "running"}
    <2>1. PICK l \in Jobs : l = JobOf[r]
      BY Zenon, Constants
    <2>2. job[l].st = "accepted" /\ job' = [job EXCEPT ![l].st = "running", ![l].upid = l]
      BY Zenon, <1>4, <2>1 DEF CloneAnswered, RecordCloneTaskHandle
    <2> QED BY Zenon, <2>2, <1>3
  <1>5. ASSUME CommitCloneRecovery
        PROVE  job[k].st \in {"none", "accepted"} /\ job'[k].st \in {"accepted", "running"}
    <2>1. PICK l : l = recovery.job
      OBVIOUS
    <2>2. PICK u : u = recovery.upid
      OBVIOUS
    <2>3. l \in Jobs
      <3>1. recovery.job \in Jobs \cup {None}
        BY DEF CloneInv, CloneTypes
      <3> QED BY Zenon, <1>5, <2>1, <3>1 DEF CommitCloneRecovery, RecoveryEnds
    <2>4. job[l].st = "accepted" /\ job' = [job EXCEPT ![l].st = "running", ![l].upid = u]
      BY Zenon, <1>5, <2>1, <2>2 DEF CommitCloneRecovery, Unattached
    <2> QED BY Zenon, <2>3, <2>4, <1>3
  <1>6. ASSUME NEW r \in Requests, CloneUncertain(r)
        PROVE  /\ job'[k].st = "accepted"
               /\ JobOf[r] = k /\ At(r, "submitted") /\ hand'[r].ph = "done"
    <2>1. PICK l \in Jobs : l = JobOf[r]
      BY Zenon, Constants
    <2>2. job' = [job EXCEPT ![l].st = "accepted", ![l].upid = None] /\ At(r, "submitted") /\ Goto(r, "done")
      BY Zenon, <1>6, <2>1 DEF CloneUncertain
    <2>3. k = l
      BY Zenon, <1>t, <2>2
    <2>4. job'[k].st = "accepted"
      BY <1>t, <2>2, <2>3 DEF Job
    <2>5. hand'[r].ph = "done"
      BY <2>2, GotoMoves
    <2> QED BY Zenon, <2>1, <2>2, <2>3, <2>4, <2>5
  <1>7. ASSUME NEW w \in Refreshers, CompleteJobTask(w)
        PROVE  CompletedBy(k, w)
    <2>1. work[w].ph = "complete" /\ work[w].job \in Jobs
      <3>1. work[w].ph = "complete" /\ work[w].ph # "idle"
        BY <1>7 DEF CompleteJobTask, Does
      <3> QED BY Zenon, <3>1, UnderWay DEF Relies
    <2>2. PICK l \in Jobs : l = work[w].job
      BY Zenon, <2>1
    <2>3. PICK u : u = work[w].upid
      OBVIOUS
    <2>4. PICK st : st = IF work[w].fail THEN "failed" ELSE "succeeded"
      OBVIOUS
    <2>5. Pending(l) /\ job' = [job EXCEPT ![l].st = st, ![l].upid = u]
      BY Zenon, <1>7, <2>2, <2>3, <2>4 DEF CompleteJobTask
    <2>6. k = l
      BY Zenon, <1>t, <2>5
    <2>7. job'[k].st = st
      BY <1>t, <2>5, <2>6 DEF Job
    <2> QED BY Zenon, <2>1, <2>2, <2>4, <2>5, <2>6, <2>7 DEF CompletedBy
  <1> QED BY Zenon, <1>1, <1>2, <1>4, <1>5, <1>6, <1>7

-----------------------------------------------------------------------------
(* The theorems                                                            *)

\* A key has one target and one submitter, a handle is that of the job's own
\* task, and what a refresh has found still holds of the job's own machine:
\* the invariant behind reserveDesktopCloneJob, refreshPVEJob and
\* recoverCloneTask, whatever fails and whoever changes machines meanwhile.
THEOREM CloneInvariant == Spec => []CloneInv
  BY InitClone, StepClone, PTL DEF Spec

\* The rows of the job, desktop and lock tables, the state of every refresh
\* and what PVE keeps have their types, and a running job has a handle.
THEOREM TypeCorrect == Spec => []TypeOK
  <1>1. CloneInv => TypeOK
    <2> SUFFICES ASSUME CloneInv PROVE TypeOK
      OBVIOUS
    <2>1. \A k \in Jobs : /\ job[k].st \in {"none", "accepted", "running", "succeeded", "failed"}
                          /\ job[k].target \in Vmids \cup {None}
                          /\ job[k].upid \in Jobs \cup {None}
                          /\ job[k].st = "running" => job[k].upid # None
      BY DEF CloneInv, CloneTypes, Targets, Job
    <2>2. \A w \in Refreshers : work[w].ph # "idle" => work[w].job \in Jobs
      BY Zenon DEF CloneInv, Relies
    <2>3. \A m \in Loops : cursor[m] \in Jobs \cup {0} /\ page[m] \subseteq Jobs
      BY DEF CloneInv, CloneTypes
    <2>4. calls \subseteq Jobs /\ \A v \in Vmids : vm[v] \in VM
      BY DEF CloneInv, CloneTypes
    <2> QED BY Zenon, <2>1, <2>2, <2>3, <2>4 DEF CloneInv, CloneTypes, Desk, TypeOK
  <1> QED BY <1>1, CloneInvariant, PTL

\* createDesktopInstance asks PVE for at most one clone for each key, and
\* reserveDesktopCloneJob gives no two jobs the same target, however many
\* requests retry and wherever their handlers die.
THEOREM CloneOnceAlways == Spec => []CloneOnce
  <1>1. CloneInv => CloneOnce
    <2> SUFFICES ASSUME CloneInv PROVE CloneOnce
      OBVIOUS
    <2>1. \A k \in Jobs : submitted[k] <= 1
      BY DEF CloneInv, CloneTypes
    <2> QED BY Zenon, <2>1 DEF CloneInv, Targets, CloneOnce
  <1> QED BY <1>1, CloneInvariant, PTL

\* RecordCloneTaskHandle and recoverCloneTask attach to a job the handle of
\* its own clone task and no other.
THEOREM FollowsOwnTaskAlways == Spec => []FollowsOwnTask
  <1>1. CloneInv => FollowsOwnTask
    BY Zenon DEF CloneInv, Targets, FollowsOwnTask
  <1> QED BY <1>1, CloneInvariant, PTL

\* A job that succeeded or failed changes only when its own clone call fails
\* after all and createDesktopInstance writes that down.
THEOREM SettledIsFinalAlways == Spec => SettledIsFinal
  <1>1. CloneInv /\ [Next]_vars =>
          [\A k \in Jobs : job[k].st \in {"succeeded", "failed"} =>
             \/ job'[k] = job[k]
             \/ /\ job'[k].st = "accepted"
                /\ \E r \in Requests : JobOf[r] = k /\ At(r, "submitted") /\ hand'[r].ph = "done"]_vars
    <2> SUFFICES ASSUME CloneInv, [Next]_vars, NEW k \in Jobs, job[k].st \in {"succeeded", "failed"}, job'[k] # job[k]
                 PROVE  /\ job'[k].st = "accepted"
                        /\ \E r \in Requests : JobOf[r] = k /\ At(r, "submitted") /\ hand'[r].ph = "done"
      BY Zenon
    <2>1. job[k].st \notin {"none", "accepted"} /\ job[k].st # "running"
      OBVIOUS
    <2> QED BY Zenon, <2>1, JobSteps DEF CompletedBy, Pending
  <1> QED BY <1>1, CloneInvariant, PTL DEF Spec, SettledIsFinal

\* refreshPVEJob lets a job succeed only with its own machine in place,
\* registered, addressed and with its device, or with a change made behind
\* the program since it last looked.
THEOREM SucceedsWhenConfiguredAlways == Spec => SucceedsWhenConfigured
  <1>1. CloneInv /\ [Next]_vars =>
          [\A k \in Jobs : job[k].st # "succeeded" /\ job'[k].st = "succeeded"
             => \/ Configured(k) /\ desk[job[k].target].known
                \/ \E w \in Refreshers : work[w].job = k /\ work[w].touched]_vars
    <2> SUFFICES ASSUME CloneInv, [Next]_vars, NEW k \in Jobs, job[k].st # "succeeded", job'[k].st = "succeeded",
                        ~ \E w \in Refreshers : work[w].job = k /\ work[w].touched
                 PROVE  Configured(k) /\ desk[job[k].target].known
      BY Zenon
    <2>1. job'[k] # job[k] /\ job'[k].st # "accepted" /\ job'[k].st \notin {"accepted", "running"}
      OBVIOUS
    <2>2. PICK w \in Refreshers : CompletedBy(k, w)
      BY Zenon, <2>1, JobSteps
    <2>3. PICK r : r = work[w]
      OBVIOUS
    <2>4. r.job = k /\ r.ph = "complete" /\ r.ph # "idle" /\ ~r.fail /\ ~r.touched /\ Relies(r)
      BY <2>2, <2>3 DEF CompletedBy, CloneInv
    <2>5. MarkerMatches(k) /\ desk[job[k].target].known
      BY Zenon, <2>4 DEF Relies, Within
    <2>6. (k \in NeedsNetwork => vm[job[k].target].net) /\ (k \in NeedsGpu => vm[job[k].target].gpu)
      BY Zenon, <2>4, <2>5 DEF Relies, Within, Machine, MarkerMatches
    <2> QED BY Zenon, <2>5, <2>6 DEF Configured
  <1> QED BY <1>1, CloneInvariant, PTL DEF Spec, SucceedsWhenConfigured

=============================================================================
