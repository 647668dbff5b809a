------------------------------- MODULE Cloning -------------------------------
(***************************************************************************)
(* Cloning a desktop from a template.  A request reserves a VMID in the    *)
(* job table before PVE is asked to do anything, then submits the clone    *)
(* once and records the handle of its task.  The handle may be lost: the   *)
(* answer of PVE, the write of the handle or the whole process can fail,   *)
(* and an administrator attaches the task later.  A job with a handle is   *)
(* completed by whoever gets the desktop lock: the goroutine that watches  *)
(* it, a poll by an administrator, or the maintenance loop of a replica.   *)
(* PVE and its administrators are outside the program and may do what they *)
(* like to a virtual machine between any two steps.                        *)
(***************************************************************************)
EXTENDS Integers, FiniteSets, FiniteSetsExt, TLC

CONSTANTS
    Jobs,           \* idempotency keys, in the order of the ids of their jobs
    Requests,       \* HTTP requests to create a desktop
    JobOf,          \* the idempotency key a request carries
    Vmids,          \* the VMIDs the search for a free one may use
    Watchers,       \* goroutines and polls that refresh a job
    Loops,          \* maintenance loops, one for each replica
    NeedsNetwork,   \* jobs whose clone has a cloud-init disk and no address
    NeedsGpu,       \* jobs whose profile maps a device
    PageSize,       \* jobs read by one scan
    MaxFaults,      \* bound on failures of calls, processes and locks
    MaxForeign,     \* bound on changes made outside the program
    None

Refreshers == Watchers \cup Loops

ASSUME CloningAssumption ==
    /\ Jobs \subseteq Nat \ {0} /\ Vmids \subseteq Nat
    /\ JobOf \in [Requests -> Jobs]
    /\ NeedsNetwork \subseteq Jobs /\ NeedsGpu \subseteq Jobs
    /\ PageSize \in Nat \ {0}
    /\ MaxFaults \in Nat /\ MaxForeign \in Nat
    /\ None \notin Jobs \cup Vmids \cup Refreshers
    /\ Watchers \cap Loops = {}

VARIABLES
    job,        \* pve_jobs: state, target and task handle
    desk,       \* managed_desktops: is it registered, present, enabled
    inventory,  \* the VMIDs an inventory pass has read, until it is written
    lock,       \* desktop control locks: who holds them
    hand,       \* request handlers
    work,       \* refreshes
    cursor,     \* the last job id a maintenance loop handled
    page,       \* the ids of its current page it has still to handle
    recovery,   \* the recovery an administrator has under way
    calls,      \* clone calls on their way to PVE
    task,       \* PVE: the clone task of a job
    vm,         \* PVE: the virtual machines
    submitted,  \* history: how many clone calls a job has made
    foreign,    \* how many changes were made outside the program
    faults      \* how many calls, processes and locks have failed

platform == <<job, desk, inventory>>
processes == <<hand, work, cursor, page, recovery, lock>>
pve == <<calls, task, vm>>
vars == <<platform, processes, pve, submitted, foreign, faults>>

NoVM == [mark |-> None, lock |-> FALSE, net |-> FALSE, gpu |-> FALSE]
VM == [mark : Jobs \cup {None, 0}, lock : BOOLEAN, net : BOOLEAN, gpu : BOOLEAN]
NoDesk == [known |-> FALSE, present |-> FALSE, enabled |-> TRUE]
NoJob == [st |-> "none", target |-> None, upid |-> None]
Idle == [ph |-> "idle", job |-> None, upid |-> None, cfg |-> NoVM, fail |-> FALSE, touched |-> FALSE]

TypeOK ==
    /\ \A k \in Jobs :
        /\ job[k].st \in {"none", "accepted", "running", "succeeded", "failed"}
        /\ job[k].target \in Vmids \cup {None}
        /\ job[k].upid \in Jobs \cup {None}
        /\ job[k].st = "running" => job[k].upid # None
    /\ desk \in [Vmids -> [known : BOOLEAN, present : BOOLEAN, enabled : BOOLEAN]]
    /\ lock \in [Vmids -> Refreshers \cup {"recovery", None}]
    /\ \A w \in Refreshers : work[w].ph # "idle" => work[w].job \in Jobs
    /\ \A m \in Loops : cursor[m] \in Jobs \cup {0} /\ page[m] \subseteq Jobs
    /\ calls \subseteq Jobs
    /\ task \in [Jobs -> {"none", "running", "ok", "failed"}]
    /\ \A v \in Vmids : vm[v] \in VM

Init ==
    /\ job = [k \in Jobs |-> NoJob]
    /\ desk = [v \in Vmids |-> NoDesk]
    /\ inventory = None
    /\ lock = [v \in Vmids |-> None]
    /\ hand = [r \in Requests |-> [ph |-> "new", occupied |-> {}, next |-> None]]
    /\ work = [w \in Refreshers |-> Idle]
    /\ cursor = [m \in Loops |-> 0]
    /\ page = [m \in Loops |-> {}]
    /\ recovery = [job |-> None, upid |-> None]
    /\ calls = {}
    /\ task = [k \in Jobs |-> "none"]
    /\ vm = [v \in Vmids |-> NoVM]
    /\ submitted = [k \in Jobs |-> 0]
    /\ foreign = 0
    /\ faults = 0

Exists(v) == vm[v] # NoVM
Fault == faults < MaxFaults /\ faults' = faults + 1

-----------------------------------------------------------------------------
(* The handler of a clone request.                                         *)

At(r, ph) == hand[r].ph = ph
Goto(r, ph) == hand' = [hand EXCEPT ![r].ph = ph]
HandlerOnly == UNCHANGED <<desk, inventory, lock, work, cursor, page, recovery, task, vm, foreign>>

\* A job that has the key answers a retry of its request and refuses another.
PrepareJobRequest(r) ==
    /\ At(r, "new")
    /\ Goto(r, IF job[JobOf[r]].st = "none" THEN "admitted" ELSE "done")
    /\ HandlerOnly /\ UNCHANGED <<job, calls, submitted, faults>>

\* The template, node, device and storage are valid; the inventory is read.
ValidateClone(r) ==
    /\ At(r, "admitted")
    /\ hand' = [hand EXCEPT ![r] = [@ EXCEPT !.ph = "surveyed", !.occupied = {v \in Vmids : Exists(v)}]]
    /\ HandlerOnly /\ UNCHANGED <<job, calls, submitted, faults>>

NextVMID(r) ==
    LET free == {v \in Vmids : ~Exists(v)} IN
    /\ At(r, "surveyed")
    /\ hand' = [hand EXCEPT ![r] = IF free = {} THEN [@ EXCEPT !.ph = "done"]
                                   ELSE [@ EXCEPT !.ph = "suggested", !.next = Min(free)]]
    /\ HandlerOnly /\ UNCHANGED <<job, calls, submitted, faults>>

Reserved(v) == \E k \in Jobs : job[k].target = v

Candidates(r) ==
    {v \in Vmids : v >= hand[r].next /\ v \notin hand[r].occupied /\ ~desk[v].known /\ ~Reserved(v)}

\* (mutant) The key is not looked up again in the reserving transaction.
ReserveUnchecked(r) ==
    LET k == JobOf[r] IN
    /\ At(r, "suggested")
    /\ IF Candidates(r) # {}
       THEN /\ job' = [job EXCEPT ![k] = [st |-> "accepted", target |-> Min(Candidates(r)), upid |-> None]]
            /\ Goto(r, "reserved")
       ELSE Goto(r, "done") /\ UNCHANGED job
    /\ HandlerOnly /\ UNCHANGED <<calls, submitted, faults>>

\* One transaction under the authorisation lock: a key claims one target.
ReserveDesktopCloneJob(r) ==
    LET k == JobOf[r] IN
    /\ At(r, "suggested")
    /\ IF job[k].st = "none" /\ Candidates(r) # {}
       THEN /\ job' = [job EXCEPT ![k] = [st |-> "accepted", target |-> Min(Candidates(r)), upid |-> None]]
            /\ Goto(r, "reserved")
       ELSE Goto(r, "done") /\ UNCHANGED job
    /\ HandlerOnly /\ UNCHANGED <<calls, submitted, faults>>

CloneTemplate(r) ==
    /\ At(r, "reserved")
    /\ calls' = calls \cup {JobOf[r]}
    /\ submitted' = [submitted EXCEPT ![JobOf[r]] = @ + 1]
    /\ Goto(r, "submitted")
    /\ HandlerOnly /\ UNCHANGED <<job, faults>>

\* (mutant) The handle is written into a job of any state.
RecordHandleAlways(k) == job' = [job EXCEPT ![k].st = "running", ![k].upid = k]

RecordCloneTaskHandle(k) ==
    IF job[k].st = "accepted" /\ job[k].upid = None
    THEN job' = [job EXCEPT ![k].st = "running", ![k].upid = k]
    ELSE UNCHANGED job

\* The answer with the task's handle arrives.
CloneAnswered(r) ==
    /\ At(r, "submitted")
    /\ task[JobOf[r]] # "none"
    /\ RecordCloneTaskHandle(JobOf[r])
    /\ Goto(r, "done")
    /\ HandlerOnly /\ UNCHANGED <<calls, submitted, faults>>

\* (mutant) Only the handle is cleared.
CloneUncertainHandle(r) ==
    /\ At(r, "submitted")
    /\ Fault
    /\ job' = [job EXCEPT ![JobOf[r]].upid = None]
    /\ Goto(r, "done")
    /\ HandlerOnly /\ UNCHANGED <<calls, submitted>>

\* An error says nothing of what PVE did or may still do.  The job is
\* written back as accepted and without a handle, whatever its state.
CloneUncertain(r) ==
    /\ At(r, "submitted")
    /\ \/ JobOf[r] \notin calls /\ task[JobOf[r]] = "none" /\ UNCHANGED faults
       \/ Fault
    /\ job' = [job EXCEPT ![JobOf[r]].st = "accepted", ![JobOf[r]].upid = None]
    /\ Goto(r, "done")
    /\ HandlerOnly /\ UNCHANGED <<calls, submitted>>

\* The process dies, or a write of the handler fails.
HandlerDies(r) ==
    /\ ~At(r, "done") /\ ~At(r, "new")
    /\ Fault
    /\ Goto(r, "done")
    /\ HandlerOnly /\ UNCHANGED <<job, calls, submitted>>

-----------------------------------------------------------------------------
(* PVE, and administrators who change virtual machines behind the program. *)

PveOnly == UNCHANGED <<platform, processes, submitted, faults>>

\* A VMID that is taken is refused; otherwise a task starts on a locked VM.
ExecuteClone(k) ==
    /\ k \in calls
    /\ calls' = calls \ {k}
    /\ IF Exists(job[k].target) \/ task[k] # "none"
       THEN UNCHANGED <<task, vm>>
       ELSE /\ task' = [task EXCEPT ![k] = "running"]
            /\ vm' = [vm EXCEPT ![job[k].target] = [mark |-> k, lock |-> TRUE, net |-> FALSE, gpu |-> FALSE]]
    /\ UNCHANGED foreign /\ PveOnly

TaskEnds(k) ==
    /\ task[k] = "running"
    /\ LET own == vm[job[k].target].mark = k
       IN \/ /\ task' = [task EXCEPT ![k] = "ok"]
             /\ vm' = IF own THEN [vm EXCEPT ![job[k].target].lock = FALSE] ELSE vm
          \/ /\ task' = [task EXCEPT ![k] = "failed"]
             /\ vm' = IF own THEN [vm EXCEPT ![job[k].target] = NoVM] ELSE vm
    /\ UNCHANGED <<calls, foreign>> /\ PveOnly

Touched(v) ==
    [w \in Refreshers |-> IF work[w].job \in Jobs /\ job[work[w].job].target = v
                          THEN [work[w] EXCEPT !.touched = TRUE] ELSE work[w]]

\* A machine the program did not make takes the VMID, or replaces what is there.
ForeignMachine(v) ==
    /\ foreign < MaxForeign
    /\ foreign' = foreign + 1
    /\ vm' = [vm EXCEPT ![v] = [mark |-> 0, lock |-> FALSE, net |-> TRUE, gpu |-> FALSE]]
    /\ work' = Touched(v)
    /\ UNCHANGED <<platform, hand, cursor, page, recovery, lock, calls, task, submitted, faults>>

-----------------------------------------------------------------------------
(* refreshPVEJob, under the desktop lock of the job's target.              *)

TargetOf(w) == job[work[w].job].target
Does(w, ph) == work[w].ph = ph
Proceed(w, ph) == work' = [work EXCEPT ![w].ph = ph]
Unlocked(w) == IF lock[TargetOf(w)] = w THEN [lock EXCEPT ![TargetOf(w)] = None] ELSE lock
Leave(w) == work' = [work EXCEPT ![w] = Idle] /\ lock' = Unlocked(w)
RefreshOnly == UNCHANGED <<inventory, hand, cursor, page, recovery, calls, task, submitted, foreign>>

\* The machine at the job's target carries its marker and is not locked.
MarkerMatches(k) == vm[job[k].target].mark = k /\ ~vm[job[k].target].lock
Pending(k) == job[k].st = "running"

\* The goroutine of a submission or a recovery, or a poll by an administrator.
Watch(w, k) ==
    /\ w \in Watchers /\ Does(w, "idle") /\ Pending(k)
    /\ work' = [work EXCEPT ![w] = [Idle EXCEPT !.ph = "reading", !.job = k]]
    /\ RefreshOnly /\ UNCHANGED <<job, desk, lock, vm, faults>>

\* (mutant) Every scan starts with the oldest job.
ScanFrom0(m) == {k \in Jobs : Pending(k)}

ScanFrom(m) == {k \in Jobs : Pending(k) /\ k > cursor[m]}

\* A scan that finds nothing beyond its cursor starts over.
PendingCloneJobIDs(m) ==
    /\ m \in Loops /\ Does(m, "idle") /\ page[m] = {}
    /\ page' = [page EXCEPT ![m] = {k \in ScanFrom(m) :
                                       Cardinality({l \in ScanFrom(m) : l < k}) < PageSize}]
    /\ cursor' = [cursor EXCEPT ![m] = IF ScanFrom(m) = {} THEN 0 ELSE @]
    /\ UNCHANGED <<platform, hand, work, recovery, lock, pve, submitted, foreign, faults>>

ResumeJob(m) ==
    /\ m \in Loops /\ Does(m, "idle") /\ page[m] # {}
    /\ LET k == Min(page[m])
       IN /\ cursor' = [cursor EXCEPT ![m] = k]
          /\ page' = [page EXCEPT ![m] = @ \ {k}]
          /\ work' = IF Pending(k) THEN [work EXCEPT ![m] = [Idle EXCEPT !.ph = "reading", !.job = k]]
                     ELSE work
    /\ UNCHANGED <<platform, hand, recovery, lock, pve, submitted, foreign, faults>>

\* The job is read again once the lock is held.
LockTarget(w) ==
    /\ Does(w, "reading")
    /\ lock[TargetOf(w)] = None
    /\ IF Pending(work[w].job)
       THEN /\ lock' = [lock EXCEPT ![TargetOf(w)] = w]
            /\ work' = [work EXCEPT ![w].ph = "locked", ![w].upid = job[work[w].job].upid]
       ELSE Leave(w)
    /\ RefreshOnly /\ UNCHANGED <<job, desk, vm, faults>>

\* A stopped task says what became of the clone, not what is there today.
TaskStatus(w) ==
    /\ Does(w, "locked")
    /\ LET k == work[w].job  t == work[w].upid
       IN CASE task[t] = "failed" -> /\ work' = [work EXCEPT ![w].ph = "complete", ![w].fail = TRUE]
                                     /\ UNCHANGED lock
            [] task[t] = "ok" /\ MarkerMatches(k) -> Proceed(w, "network") /\ UNCHANGED lock
            [] OTHER -> Leave(w)
    /\ RefreshOnly /\ UNCHANGED <<job, desk, vm, faults>>

ReadNetwork(w) ==
    LET k == work[w].job IN
    /\ Does(w, "network")
    /\ \/ /\ k \notin NeedsNetwork \/ (MarkerMatches(k) /\ vm[TargetOf(w)].net)
          /\ Proceed(w, "gpu") /\ UNCHANGED lock
       \/ /\ k \in NeedsNetwork /\ MarkerMatches(k) /\ ~vm[TargetOf(w)].net
          /\ work' = [work EXCEPT ![w].ph = "dhcp", ![w].cfg = vm[TargetOf(w)]]
          /\ UNCHANGED lock
       \/ k \in NeedsNetwork /\ ~MarkerMatches(k) /\ Leave(w)
    /\ RefreshOnly /\ UNCHANGED <<job, desk, vm, faults>>

\* The digest makes PVE refuse a write to a configuration that has changed.
DigestMatches(w) == vm[TargetOf(w)] = work[w].cfg

ConfigureVMPrimaryDHCP(w) ==
    /\ Does(w, "dhcp")
    /\ IF DigestMatches(w)
       THEN vm' = [vm EXCEPT ![TargetOf(w)].net = TRUE] /\ Proceed(w, "gpu") /\ UNCHANGED lock
       ELSE Leave(w) /\ UNCHANGED vm
    /\ RefreshOnly /\ UNCHANGED <<job, desk, faults>>

ReadGpu(w) ==
    LET k == work[w].job IN
    /\ Does(w, "gpu")
    /\ \/ /\ k \notin NeedsGpu \/ (MarkerMatches(k) /\ vm[TargetOf(w)].gpu)
          /\ Proceed(w, "register") /\ UNCHANGED lock
       \/ /\ k \in NeedsGpu /\ MarkerMatches(k) /\ ~vm[TargetOf(w)].gpu
          /\ work' = [work EXCEPT ![w].ph = "pci", ![w].cfg = vm[TargetOf(w)]]
          /\ UNCHANGED lock
       \/ k \in NeedsGpu /\ ~MarkerMatches(k) /\ Leave(w)
    /\ RefreshOnly /\ UNCHANGED <<job, desk, vm, faults>>

\* An error fails the job, also when PVE has made the change.
ConfigureVMPCIResourceMapping(w) ==
    /\ Does(w, "pci")
    /\ \E ok \in BOOLEAN :
        /\ work' = [work EXCEPT ![w].ph = "register", ![w].fail = ~ok]
        /\ IF DigestMatches(w) THEN vm' = [vm EXCEPT ![TargetOf(w)].gpu = TRUE]
                               ELSE ~ok /\ UNCHANGED vm
        /\ IF ok \/ ~DigestMatches(w) THEN UNCHANGED faults ELSE Fault
    /\ RefreshOnly /\ UNCHANGED <<job, desk, lock>>

\* (mutant) The target is not looked at again before it is registered.
RequireAnyTarget(w) ==
    /\ Does(w, "register")
    /\ work' = [work EXCEPT ![w].ph = "upsert", ![w].touched = FALSE]
    /\ UNCHANGED lock
    /\ RefreshOnly /\ UNCHANGED <<job, desk, vm, faults>>

RequireCloneTarget(w) ==
    /\ Does(w, "register")
    /\ IF MarkerMatches(work[w].job)
       THEN work' = [work EXCEPT ![w].ph = "upsert", ![w].touched = FALSE] /\ UNCHANGED lock
       ELSE Leave(w)
    /\ RefreshOnly /\ UNCHANGED <<job, desk, vm, faults>>

\* UpsertManagedDesktop leaves "enabled" alone, QuarantineClonedDesktop clears it.
RegisterDesktop(w) ==
    LET v == TargetOf(w) IN
    /\ Does(w, "upsert")
    /\ desk' = [desk EXCEPT ![v] =
                  IF work[w].fail
                  THEN [known |-> TRUE, present |-> @.present \/ ~@.known, enabled |-> FALSE]
                  ELSE [known |-> TRUE, present |-> TRUE, enabled |-> @.enabled]]
    /\ Proceed(w, "complete")
    /\ RefreshOnly /\ UNCHANGED <<job, lock, vm, faults>>

\* Only a running job is completed.
CompleteJobTask(w) ==
    LET k == work[w].job IN
    /\ Does(w, "complete")
    /\ job' = IF Pending(k)
              THEN [job EXCEPT ![k].st = IF work[w].fail THEN "failed" ELSE "succeeded", ![k].upid = work[w].upid]
              ELSE job
    /\ Leave(w)
    /\ RefreshOnly /\ UNCHANGED <<desk, vm, faults>>

\* A call fails, a deadline passes or the process dies: the lock is given up.
RefreshFails(w) ==
    /\ ~Does(w, "idle")
    /\ Fault
    /\ Leave(w)
    /\ RefreshOnly /\ UNCHANGED <<job, desk, vm>>

\* PostgreSQL drops the session that holds a lock; its holder does not notice.
LockLost(v) ==
    /\ lock[v] # None
    /\ Fault
    /\ lock' = [lock EXCEPT ![v] = None]
    /\ UNCHANGED <<platform, hand, work, cursor, page, recovery, pve, submitted, foreign>>

-----------------------------------------------------------------------------
(* The recovery of a lost handle, and the inventory.                       *)

\* (mutant) The target the task's log declares is not compared.
EvidenceOfAnyTask(k, t) == task[t] = "ok" /\ MarkerMatches(k)

\* The administrator's task ended well, its log names the job's target, and
\* the machine there carries the job's marker.
Evidence(k, t) == task[t] = "ok" /\ job[t].target = job[k].target /\ MarkerMatches(k)

Unattached(k) == job[k].st = "accepted" /\ job[k].upid = None

InspectRecovery(k, t) ==
    /\ recovery.job = None
    /\ Unattached(k)
    /\ lock[job[k].target] = None
    /\ Evidence(k, t)
    /\ recovery' = [job |-> k, upid |-> t]
    /\ lock' = [lock EXCEPT ![job[k].target] = "recovery"]
    /\ UNCHANGED <<platform, hand, work, cursor, page, pve, submitted, foreign, faults>>

RecoveryEnds ==
    LET v == job[recovery.job].target IN
    /\ recovery.job # None
    /\ recovery' = [job |-> None, upid |-> None]
    /\ lock' = IF lock[v] = "recovery" THEN [lock EXCEPT ![v] = None] ELSE lock
    /\ UNCHANGED <<desk, inventory, hand, work, cursor, page, pve, submitted, foreign>>

CommitCloneRecovery ==
    /\ RecoveryEnds
    /\ job' = IF Unattached(recovery.job)
              THEN [job EXCEPT ![recovery.job].st = "running", ![recovery.job].upid = recovery.upid]
              ELSE job
    /\ UNCHANGED faults

RecoveryFails == RecoveryEnds /\ Fault /\ UNCHANGED job

ReadInventory ==
    /\ inventory = None
    /\ inventory' = {v \in Vmids : Exists(v)}
    /\ UNCHANGED <<job, desk, processes, pve, submitted, foreign, faults>>

\* Every machine seen is registered, also one a clone has yet to finish.
ReconcileManagedDesktops ==
    /\ inventory # None
    /\ desk' = [v \in Vmids |-> IF v \in inventory THEN [desk[v] EXCEPT !.known = TRUE, !.present = TRUE]
                                ELSE [desk[v] EXCEPT !.present = FALSE]]
    /\ inventory' = None
    /\ UNCHANGED <<job, processes, pve, submitted, foreign, faults>>

-----------------------------------------------------------------------------
HandlerStep(r) ==
    \/ PrepareJobRequest(r) \/ ValidateClone(r) \/ NextVMID(r) \/ ReserveDesktopCloneJob(r)
    \/ CloneTemplate(r) \/ CloneAnswered(r)

RefreshStep(w) ==
    \/ PendingCloneJobIDs(w) \/ ResumeJob(w) \/ LockTarget(w) \/ TaskStatus(w)
    \/ ReadNetwork(w) \/ ConfigureVMPrimaryDHCP(w) \/ ReadGpu(w) \/ ConfigureVMPCIResourceMapping(w)
    \/ RequireCloneTarget(w) \/ RegisterDesktop(w) \/ CompleteJobTask(w)

Next ==
    \/ \E r \in Requests : HandlerStep(r) \/ CloneUncertain(r) \/ HandlerDies(r)
    \/ \E w \in Refreshers : RefreshStep(w) \/ RefreshFails(w)
    \/ \E w \in Watchers, k \in Jobs : Watch(w, k)
    \/ \E k \in Jobs : ExecuteClone(k) \/ TaskEnds(k)
    \/ \E v \in Vmids : ForeignMachine(v) \/ LockLost(v)
    \/ \E k, t \in Jobs : InspectRecovery(k, t)
    \/ CommitCloneRecovery \/ RecoveryFails
    \/ ReadInventory \/ ReconcileManagedDesktops

Spec == Init /\ [][Next]_vars

\* Loops and refreshes go on while their process lives, a recovery ends within
\* its thirty seconds, and PostgreSQL queues who waits for a lock, so nobody is
\* overtaken for ever.
Fairness ==
    /\ WF_vars(CommitCloneRecovery)
    /\ \A w \in Refreshers : WF_vars(RefreshStep(w)) /\ SF_vars(LockTarget(w))

FairSpec == Spec /\ Fairness

-----------------------------------------------------------------------------
\* However often a request is retried and wherever a handler dies, PVE is
\* asked to clone for a job at most once, and no two jobs share a target
\* (createDesktopInstance, reserveDesktopCloneJob).
CloneOnce ==
    /\ \A k \in Jobs : submitted[k] <= 1
    /\ \A k, l \in Jobs : job[k].target = job[l].target /\ k # l => job[k].target = None

\* A job only ever follows the task of its own clone, however its handle got
\* lost and was attached again (RecordCloneTaskHandle, recoverCloneTask).
FollowsOwnTask == \A k \in Jobs : job[k].upid \in {None, k}

\* What a job needs before people may be let in.
Configured(k) ==
    LET m == vm[job[k].target] IN
    MarkerMatches(k) /\ (k \in NeedsNetwork => m.net) /\ (k \in NeedsGpu => m.gpu)

\* A job succeeds only with its own machine in place, registered, addressed
\* and with its device, whatever refreshes raced for it; only a change made
\* behind the program after the last look at the machine escapes it
\* (refreshPVEJob).
SucceedsWhenConfigured ==
    [][\A k \in Jobs : job[k].st # "succeeded" /\ job'[k].st = "succeeded"
         => \/ Configured(k) /\ desk[job[k].target].known
            \/ \E w \in Refreshers : work[w].job = k /\ work[w].touched]_vars

\* A job whose task has stopped is settled in the end, by the maintenance
\* loop alone if its watcher died, and though other jobs are stuck; unless
\* its machine is not the one it made (RunPVEJobMaintenance).
PendingJobsSettle ==
    \A k \in Jobs : Pending(k) /\ task[k] \in {"ok", "failed"}
                    ~> ~Pending(k) \/ (task[k] = "ok" /\ ~MarkerMatches(k))

\* A settled job is not reopened by answers, recoveries or refreshes, however
\* late.  The one exception is the failure of its own clone call, which is
\* written whatever the state (RecordCloneTaskHandle, recoverCloneTask,
\* createDesktopInstance).
SettledIsFinal ==
    [][\A k \in Jobs : job[k].st \in {"succeeded", "failed"} =>
          \/ job'[k] = job[k]
          \/ /\ job'[k].st = "accepted"
             /\ \E r \in Requests : JobOf[r] = k /\ At(r, "submitted") /\ hand'[r].ph = "done"]_vars

=============================================================================
