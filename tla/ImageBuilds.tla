---------------------------- MODULE ImageBuilds ----------------------------
(***************************************************************************)
(* Template images: the requests that build them, the goroutine that runs  *)
(* Packer for each accepted build, administrators who edit the profiles at *)
(* the same time, and the inventory that keeps what a build makes out of   *)
(* the desktops.                                                           *)
(*                                                                         *)
(* A profile is the part of its row the operations depend on: the status   *)
(* and the VMID. Requests and edits read the row, check it and later write *)
(* the whole of it back. A job is named by its idempotency key. What       *)
(* happens on the cluster outside these operations (clones that appear,    *)
(* leftovers that are removed by hand) is left open; templates stay.       *)
(***************************************************************************)
EXTENDS Naturals, FiniteSets

CONSTANTS
  Profiles, VMIDs, Keys,
  Handlers, Editors,  \* concurrent build requests and profile edits
  EditedStatus,       \* statuses an edit may ask for
  MaxFaults,          \* crashes, requests cut off, and settling writes that fail
  None

ASSUME ImageAssumption ==
  /\ MaxFaults \in Nat
  /\ None \notin Profiles \cup VMIDs \cup Keys
  /\ None \notin {"accepted", "running", "succeeded", "failed", "starting", "building", "desktop", "leftover", "template",
                "testing", "broken"}

Statuses == {"draft", "blocked", "building", "testing", "ready", "failed"}

VARIABLES
  profile,    \* image_profiles
  job,        \* pve_jobs of operation image.build
  vm,         \* the cluster, by VMID
  handler,    \* startImageBuild
  editor,     \* updateImageProfile
  runner,     \* runImageBuild, by job
  inventory,  \* desktopInventory: the VMs it has read from the cluster, if any
  faults

vars == <<profile, job, vm, handler, editor, runner, inventory, faults>>

NoJob == [state |-> None, profile |-> None, vmid |-> None]
IdleHandler == [phase |-> "idle", key |-> None, profile |-> None, vmid |-> None]
IdleEditor == [phase |-> "idle", profile |-> None, row |-> [status |-> "draft", vmid |-> None]]

Init ==
  /\ profile = [p \in Profiles |-> [status |-> "draft", vmid |-> None]]
  /\ job = [k \in Keys |-> NoJob]
  /\ vm = [v \in VMIDs |-> None]
  /\ handler = [h \in Handlers |-> IdleHandler]
  /\ editor = [e \in Editors |-> IdleEditor]
  /\ runner = [k \in Keys |-> None]
  /\ inventory = None
  /\ faults = 0

\* (mutant) only a job that has started counts
Started(k) == job[k].state = "running"

\* The states of the partial unique index and of ActiveImageBuildJob.
Active(k) == job[k].state \in {"accepted", "running"}

ActiveImageBuild(p) == \E k \in Keys : Active(k) /\ job[k].profile = p

-----------------------------------------------------------------------------
(* startImageBuild                                                         *)

Goes(h, phase) == handler' = [handler EXCEPT ![h].phase = phase]

Returns(h) == handler' = [handler EXCEPT ![h] = IdleHandler]

\* A key that already has a job is answered with that job. The body may name
\* another VMID than the profile; a build needs one.
StartImageBuild(h, k, p, v) ==
  /\ handler[h].phase = "idle" /\ job[k] = NoJob
  /\ LET vmid == IF v = None THEN profile[p].vmid ELSE v IN
       /\ vmid # None
       /\ handler' = [handler EXCEPT ![h] = [phase |-> "read", key |-> k, profile |-> p, vmid |-> vmid]]
  /\ UNCHANGED <<profile, job, vm, editor, runner, inventory, faults>>

\* The cluster is writable, the node is up, the storage fits, and no VM has
\* the VMID.
ValidateImageBuildInventory(h) ==
  /\ handler[h].phase = "read"
  /\ \/ vm[handler[h].vmid] = None /\ Goes(h, "checked")
     \/ Returns(h)
  /\ UNCHANGED <<profile, job, vm, editor, runner, inventory, faults>>

\* One statement: the key and the partial index are both unique.
CreateJob(h) ==
  LET r == handler[h] IN
  /\ r.phase = "checked"
  /\ IF job[r.key] # NoJob \/ ActiveImageBuild(r.profile)
       THEN Returns(h) /\ UNCHANGED job
       ELSE /\ Goes(h, "created")
            /\ job' = [job EXCEPT ![r.key] = [state |-> "accepted", profile |-> r.profile, vmid |-> r.vmid]]
  /\ UNCHANGED <<profile, vm, editor, runner, inventory, faults>>

MarkRunning(h) ==
  /\ handler[h].phase = "created"
  /\ Goes(h, "running")
  /\ job' = [job EXCEPT ![handler[h].key].state = "running"]
  /\ UNCHANGED <<profile, vm, editor, runner, inventory, faults>>

\* (mutant) the goroutine is forgotten
MarkBuildingOnly(h) ==
  /\ handler[h].phase = "running"
  /\ Returns(h)
  /\ profile' = [profile EXCEPT ![handler[h].profile] = [status |-> "building", vmid |-> handler[h].vmid]]
  /\ UNCHANGED <<job, vm, editor, runner, inventory, faults>>

\* The profile's row is written whole, then the goroutine starts.
MarkBuilding(h) ==
  LET r == handler[h] IN
  /\ r.phase = "running"
  /\ Returns(h)
  /\ profile' = [profile EXCEPT ![r.profile] = [status |-> "building", vmid |-> r.vmid]]
  /\ runner' = [runner EXCEPT ![r.key] = "starting"]
  /\ UNCHANGED <<job, vm, editor, inventory, faults>>

\* The request is cut off while its job exists: its statements fail from then
\* on. A profile that cannot be written fails the job, if that can be written.
RequestFails(h, recorded) ==
  /\ handler[h].phase \in {"created", "running"} /\ faults < MaxFaults
  /\ recorded => handler[h].phase = "running"
  /\ Returns(h)
  /\ job' = IF recorded THEN [job EXCEPT ![handler[h].key].state = "failed"] ELSE job
  /\ faults' = faults + 1
  /\ UNCHANGED <<profile, vm, editor, runner, inventory>>

-----------------------------------------------------------------------------
(* runImageBuild and Packer                                                *)

WriteStatus(k, status) == profile' = [profile EXCEPT ![job[k].profile].status = status]

\* PVE refuses to create a VM that exists, and Packer exits.
PackerCreates(k) ==
  /\ runner[k] = "starting"
  /\ IF vm[job[k].vmid] = None
       THEN vm' = [vm EXCEPT ![job[k].vmid] = "building"] /\ runner' = [runner EXCEPT ![k] = "building"]
       ELSE UNCHANGED vm /\ runner' = [runner EXCEPT ![k] = "failed"]
  /\ UNCHANGED <<profile, job, handler, editor, inventory, faults>>

Progress(k) ==
  /\ runner[k] \in {"starting", "building"}
  /\ job' = [job EXCEPT ![k].state = "running"]
  /\ WriteStatus(k, "building")
  /\ UNCHANGED <<vm, handler, editor, runner, inventory, faults>>

PackerSucceeds(k) ==
  /\ runner[k] = "building"
  /\ vm' = [vm EXCEPT ![job[k].vmid] = "template"]
  /\ runner' = [runner EXCEPT ![k] = "succeeded"]
  /\ UNCHANGED <<profile, job, handler, editor, inventory, faults>>

\* Packer exits with an error or is killed at the time limit, and may leave
\* its VM behind.
PackerFails(k, left) ==
  /\ runner[k] = "building"
  /\ vm' = [vm EXCEPT ![job[k].vmid] = left]
  /\ runner' = [runner EXCEPT ![k] = "failed"]
  /\ UNCHANGED <<profile, job, handler, editor, inventory, faults>>

\* One statement, tried once: an error is dropped, and the goroutine goes on.
Tried(written) ==
  /\ written \/ faults < MaxFaults
  /\ faults' = IF written THEN faults ELSE faults + 1

SettleJob(k, written) ==
  /\ runner[k] \in {"succeeded", "failed"}
  /\ Tried(written)
  /\ job' = IF written THEN [job EXCEPT ![k].state = runner[k]] ELSE job
  /\ runner' = [runner EXCEPT ![k] = IF runner[k] = "succeeded" THEN "testing" ELSE "broken"]
  /\ UNCHANGED <<profile, vm, handler, editor, inventory>>

\* (mutant) the profile gets the state of the job
JobState(k) == IF runner[k] = "testing" THEN "succeeded" ELSE "failed"

BuildStatus(k) == IF runner[k] = "testing" THEN "testing" ELSE "failed"

SettleProfile(k, written) ==
  /\ runner[k] \in {"testing", "broken"}
  /\ Tried(written)
  /\ IF written THEN WriteStatus(k, BuildStatus(k)) ELSE UNCHANGED profile
  /\ runner' = [runner EXCEPT ![k] = None]
  /\ UNCHANGED <<job, vm, handler, editor, inventory>>

Settles(k) == \E written \in BOOLEAN : SettleJob(k, written) \/ SettleProfile(k, written)

-----------------------------------------------------------------------------
(* updateImageProfile                                                      *)

ValidImageProfile(row) == row.status \in Statuses /\ (row.status = "ready" => row.vmid # None)

Applied(row, status, vmid) ==
  [status |-> IF status = None THEN row.status ELSE status, vmid |-> IF vmid = None THEN row.vmid ELSE vmid]

\* (mutant) only a new VMID is looked up
ValidatesVMID(row, status, vmid) == row.status = "ready" /\ vmid # None

\* The request names the status or the VMID, and the row is a ready one.
ValidatesTemplate(row, status, vmid) == row.status = "ready" /\ (status # None \/ vmid # None)

UpdateImageProfile(e, p, status, vmid) ==
  LET row == Applied(profile[p], status, vmid) IN
  /\ editor[e].phase = "idle"
  /\ ValidImageProfile(row)
  /\ editor' = [editor EXCEPT ![e] = [phase |-> IF ValidatesTemplate(row, status, vmid) THEN "validating" ELSE "writing",
                                      profile |-> p, row |-> row]]
  /\ UNCHANGED <<profile, job, vm, handler, runner, inventory, faults>>

ValidateImageTemplateInventory(e) ==
  /\ editor[e].phase = "validating"
  /\ editor' = IF vm[editor[e].row.vmid] = "template"
                 THEN [editor EXCEPT ![e].phase = "writing"]
                 ELSE [editor EXCEPT ![e] = IdleEditor]
  /\ UNCHANGED <<profile, job, vm, handler, runner, inventory, faults>>

WriteProfile(e) ==
  /\ editor[e].phase = "writing"
  /\ profile' = [profile EXCEPT ![editor[e].profile] = editor[e].row]
  /\ editor' = [editor EXCEPT ![e] = IdleEditor]
  /\ UNCHANGED <<job, vm, handler, runner, inventory, faults>>

-----------------------------------------------------------------------------
(* desktopInventory                                                        *)

\* What a VM made by Packer carries from the start, tags included, makes it
\* look like a desktop until it is a template.
LooksManaged == {v \in VMIDs : vm[v] \in {"desktop", "building", "leftover"}}

\* (mutant) a failed build gives its VMID back
ReservedWhileActive ==
  {profile[p].vmid : p \in Profiles} \cup {job[k].vmid : k \in {j \in Keys : Active(j)}}

ImageReservedVMIDs ==
  {profile[p].vmid : p \in Profiles} \cup {job[k].vmid : k \in {j \in Keys : Active(j) \/ job[j].state = "failed"}}

Summary ==
  /\ inventory = None
  /\ inventory' = LooksManaged
  /\ UNCHANGED <<profile, job, vm, handler, editor, runner, faults>>

\* What an inventory that reads the reservations now answers.
Managed == inventory \ ImageReservedVMIDs

DesktopInventory ==
  /\ inventory # None
  /\ inventory' = None
  /\ UNCHANGED <<profile, job, vm, handler, editor, runner, faults>>

-----------------------------------------------------------------------------
(* The cluster, and a crash of the control plane                           *)

DesktopAppears(v) ==
  /\ vm[v] = None
  /\ vm' = [vm EXCEPT ![v] = "desktop"]
  /\ UNCHANGED <<profile, job, handler, editor, runner, inventory, faults>>

Removed(v) ==
  /\ vm[v] \in {"leftover", "desktop"}
  /\ vm' = [vm EXCEPT ![v] = None]
  /\ UNCHANGED <<profile, job, handler, editor, runner, inventory, faults>>

\* A Packer process that outlived the control plane converts its VM.
OrphanConverts(v) ==
  /\ vm[v] = "leftover"
  /\ vm' = [vm EXCEPT ![v] = "template"]
  /\ UNCHANGED <<profile, job, handler, editor, runner, inventory, faults>>

\* Nothing in memory survives; the VM under construction does.
Crash ==
  /\ faults < MaxFaults
  /\ faults' = faults + 1
  /\ handler' = [h \in Handlers |-> IdleHandler]
  /\ editor' = [e \in Editors |-> IdleEditor]
  /\ runner' = [k \in Keys |-> None]
  /\ inventory' = None
  /\ vm' = [v \in VMIDs |-> IF vm[v] = "building" THEN "leftover" ELSE vm[v]]
  /\ UNCHANGED <<profile, job>>

-----------------------------------------------------------------------------
HandlerStep(h) ==
  \/ ValidateImageBuildInventory(h) \/ CreateJob(h) \/ MarkRunning(h) \/ MarkBuilding(h)

Finishes(k) ==
  \/ PackerSucceeds(k)
  \/ \E left \in {None, "leftover", "template"} : PackerFails(k, left)

RunnerStep(k) == PackerCreates(k) \/ Finishes(k) \/ Settles(k)

Next ==
  \/ \E h \in Handlers :
       \/ \E k \in Keys, p \in Profiles, v \in VMIDs \cup {None} : StartImageBuild(h, k, p, v)
       \/ HandlerStep(h)
       \/ \E recorded \in BOOLEAN : RequestFails(h, recorded)
  \/ \E k \in Keys : RunnerStep(k) \/ Progress(k)
  \/ \E e \in Editors :
       \/ \E p \in Profiles, status \in EditedStatus \cup {None}, v \in VMIDs \cup {None} :
            UpdateImageProfile(e, p, status, v)
       \/ ValidateImageTemplateInventory(e) \/ WriteProfile(e)
  \/ Summary \/ DesktopInventory
  \/ \E v \in VMIDs : DesktopAppears(v) \/ Removed(v) \/ OrphanConverts(v)
  \/ Crash

Spec == Init /\ [][Next]_vars

\* Requests and goroutines run, and a build has a time limit.
FairSpec ==
  /\ Spec
  /\ \A h \in Handlers : WF_vars(HandlerStep(h))
  /\ \A k \in Keys : WF_vars(RunnerStep(k))

-----------------------------------------------------------------------------
Rows == [status : Statuses, vmid : VMIDs \cup {None}]

\* Rows, jobs and VMs hold values of their columns, a goroutine runs only for
\* a job of its own, and Packer's VM is there while it builds.
TypeOK ==
  /\ profile \in [Profiles -> Rows]
  /\ job \in [Keys -> [state : {"accepted", "running", "succeeded", "failed"},
                       profile : Profiles, vmid : VMIDs] \cup {NoJob}]
  /\ vm \in [VMIDs -> {None, "desktop", "building", "leftover", "template"}]
  /\ handler \in [Handlers -> [phase : {"idle", "read", "checked", "created", "running"},
                               key : Keys \cup {None}, profile : Profiles \cup {None}, vmid : VMIDs \cup {None}]]
  /\ editor \in [Editors -> [phase : {"idle", "validating", "writing"}, profile : Profiles \cup {None}, row : Rows]]
  /\ runner \in [Keys -> {None, "starting", "building", "succeeded", "failed", "testing", "broken"}]
  /\ inventory \in (SUBSET VMIDs) \cup {None}
  /\ faults \in 0..MaxFaults
  /\ \A k \in Keys : runner[k] # None => job[k] # NoJob
  /\ \A k \in Keys : runner[k] = "building" => vm[job[k].vmid] = "building"

Building(k) == runner[k] \in {"starting", "building"}

\* At most one build of a profile runs Packer at a time, and its job is the
\* running one: through retries, concurrent requests and crashes.
OneBuildPerProfile ==
  \A k \in Keys : Building(k) =>
    /\ job[k].state = "running"
    /\ \A j \in Keys : Building(j) /\ job[j].profile = job[k].profile => j = k

\* The VM of an unfinished or failed build is never listed as a desktop, also
\* after the control plane crashed under it or the profile names another VMID.
CandidatesAreExcluded ==
  inventory # None => \A v \in Managed : vm[v] \notin {"building", "leftover"}

\* A profile that is ready names a template, however edits of its VMID and
\* status interleave with builds of the same profile.
ReadyIsTemplate ==
  \A p \in Profiles : profile[p].status = "ready" => profile[p].vmid # None /\ vm[profile[p].vmid] = "template"

\* Every accepted build is settled, succeeded or failed, unless the control
\* plane died, a request was cut off, or the one write that settles the job
\* failed: nothing takes up a build afterwards (startImageBuild,
\* runImageBuild).
BuildsSettle == \A k \in Keys : Active(k) ~> (~Active(k) \/ faults > 0)
=============================================================================
