-------------------------- MODULE ImageBuildProofs --------------------------
(***************************************************************************)
(* Proofs about image builds.  The inductive invariant BuildInv says who   *)
(* owns an accepted job: the request that made it until its goroutine      *)
(* starts, the goroutine afterwards, and nobody once either was lost.  A   *)
(* VM that Packer made always has a job that keeps its VMID reserved, and  *)
(* a template stays one, which is what makes a check of it that is made    *)
(* long before the write good enough.                                      *)
(***************************************************************************)
EXTENDS ImageBuilds, TLAPS

Jobs == [state : {"accepted", "running", "succeeded", "failed"}, profile : Profiles, vmid : VMIDs]

Requests == [phase : {"idle", "read", "checked", "created", "running"},
             key : Keys \cup {None}, profile : Profiles \cup {None}, vmid : VMIDs \cup {None}]

Edits == [phase : {"idle", "validating", "writing"}, profile : Profiles \cup {None}, row : Rows]

BuildTypes ==
  /\ profile \in [Profiles -> Rows]
  /\ job \in [Keys -> Jobs \cup {NoJob}]
  /\ vm \in [VMIDs -> {None, "desktop", "building", "leftover", "template"}]
  /\ handler \in [Handlers -> Requests]
  /\ editor \in [Editors -> Edits]
  /\ runner \in [Keys -> {None, "starting", "building", "succeeded", "failed", "testing", "broken"}]
  /\ inventory \in (SUBSET VMIDs) \cup {None}
  /\ faults \in 0..MaxFaults

\* A request has what it needs, and its job to itself until it has handed it
\* to the goroutine.
Owns(h) == handler[h].phase \in {"created", "running"}

Owners ==
  \A h \in Handlers :
    /\ handler[h].phase # "idle" =>
         handler[h].key \in Keys /\ handler[h].profile \in Profiles /\ handler[h].vmid \in VMIDs
    /\ Owns(h) =>
         /\ job[handler[h].key] \in Jobs /\ runner[handler[h].key] = None
         /\ job[handler[h].key].profile = handler[h].profile /\ job[handler[h].key].vmid = handler[h].vmid
         /\ job[handler[h].key].state = IF handler[h].phase = "created" THEN "accepted" ELSE "running"
    /\ \A g \in Handlers : Owns(g) /\ Owns(h) /\ handler[g].key = handler[h].key => g = h

\* A goroutine's job is running while Packer is, and succeeds over a template.
Runs ==
  \A k \in Keys :
    /\ runner[k] # None => job[k] \in Jobs
    /\ Building(k) => job[k].state = "running"
    /\ runner[k] = "succeeded" \/ job[k].state = "succeeded" => vm[job[k].vmid] = "template"

OneActive ==
  \A j, k \in Keys : Active(j) /\ Active(k) /\ job[j].profile = job[k].profile => j = k

\* The build k makes the VM v.
Makes(k, v) == runner[k] = "building" /\ job[k].vmid = v

\* The job k keeps the VMID v out of the desktops.
Reserves(k, v) == job[k].vmid = v /\ (Active(k) \/ job[k].state = "failed")

\* What Packer made keeps its VMID reserved until it is gone or a template.
Machines ==
  /\ \A k \in Keys : runner[k] = "building" => vm[job[k].vmid] = "building"
  /\ \A v \in VMIDs, j, k \in Keys : Makes(j, v) /\ Makes(k, v) => j = k
  /\ \A v \in VMIDs : vm[v] = "building" => \E k \in Keys : Makes(k, v)
  /\ \A v \in VMIDs : vm[v] = "leftover" => \E k \in Keys : Reserves(k, v)

IsTemplate(v) == v \in VMIDs /\ vm[v] = "template"

\* A row that is ready names a template, and so does one about to be written.
Templates ==
  /\ \A p \in Profiles : profile[p].status = "ready" => IsTemplate(profile[p].vmid)
  /\ \A e \in Editors :
       /\ editor[e].phase # "idle" => editor[e].profile \in Profiles
       /\ editor[e].phase = "validating" => editor[e].row.vmid \in VMIDs
       /\ editor[e].phase = "writing" /\ editor[e].row.status = "ready" => IsTemplate(editor[e].row.vmid)

BuildInv == BuildTypes /\ Owners /\ Runs /\ OneActive /\ Machines /\ Templates

-----------------------------------------------------------------------------
(* Operators and frames                                                    *)

LEMMA Constants ==
  /\ None \notin Profiles /\ None \notin VMIDs /\ None \notin Keys
  /\ None \notin {"accepted", "running", "succeeded", "failed", "starting", "building", "desktop", "leftover", "template",
                  "testing", "broken"}
  BY ImageAssumption

LEMMA NoJobFacts == NoJob.state = None /\ NoJob.profile = None /\ NoJob.vmid = None /\ NoJob \notin Jobs
  BY Constants DEF NoJob, Jobs

\* A job in some state is one that was created.
LEMMA MadeJob ==
  ASSUME BuildTypes, NEW k \in Keys, job[k].state # None
  PROVE  job[k] \in Jobs /\ job[k].vmid \in VMIDs /\ job[k].profile \in Profiles
  <1>1. job[k] \in Jobs \cup {NoJob}
    BY Zenon DEF BuildTypes
  <1>2. job[k] # NoJob
    BY Zenon, NoJobFacts
  <1>3. job[k] \in Jobs
    BY <1>1, <1>2
  <1> QED BY <1>3 DEF Jobs

LEMMA ActiveJob ==
  ASSUME BuildTypes, NEW k \in Keys, Active(k)
  PROVE  job[k].state # None /\ job[k] \in Jobs /\ job[k].vmid \in VMIDs /\ job[k].profile \in Profiles
  <1>1. job[k].state # None
    BY Constants DEF Active
  <1> QED BY Zenon, <1>1, MadeJob

\* A goroutine has a job, and its VMID.
LEMMA RunnerJob ==
  ASSUME BuildInv, NEW k \in Keys, runner[k] # None
  PROVE  job[k] \in Jobs /\ job[k].vmid \in VMIDs /\ job[k].profile \in Profiles
  <1>1. job[k] \in Jobs
    BY Zenon DEF BuildInv, Runs
  <1> QED BY <1>1 DEF Jobs

\* No step takes a template away.
TemplatesStay == \A v \in VMIDs : vm[v] = "template" => vm'[v] = "template"

LEMMA TemplatesKept ==
  ASSUME BuildInv, TemplatesStay, UNCHANGED <<profile, editor>>
  PROVE  Templates'
  <1>1. \A v : IsTemplate(v) => IsTemplate(v)'
    BY Zenon DEF IsTemplate, TemplatesStay
  <1>2. Templates
    BY Zenon DEF BuildInv
  <1> QED BY Zenon, <1>1, <1>2 DEF Templates

\* The machines and who builds them stay, and so do the reservations of what
\* was left behind.
LEMMA MachinesKept ==
  ASSUME BuildInv, vm' = vm,
         \A k \in Keys : /\ runner'[k] = "building" <=> runner[k] = "building"
                         /\ runner[k] = "building" => job'[k].vmid = job[k].vmid,
         \A k \in Keys, v \in VMIDs : vm[v] = "leftover" /\ Reserves(k, v) => Reserves(k, v)'
  PROVE  Machines'
  <1>1. \A v \in VMIDs, k \in Keys : Makes(k, v)' <=> Makes(k, v)
    BY Zenon DEF Makes
  <1>2. ASSUME NEW k \in Keys, runner'[k] = "building" PROVE vm'[job'[k].vmid] = "building"
    <2>1. vm[job[k].vmid] = "building" /\ job'[k].vmid = job[k].vmid
      BY Zenon, <1>2 DEF BuildInv, Machines
    <2> QED BY Zenon, <2>1
  <1>3. \A v \in VMIDs, j, k \in Keys : Makes(j, v)' /\ Makes(k, v)' => j = k
    BY Zenon, <1>1 DEF BuildInv, Machines
  <1>4. \A v \in VMIDs : vm'[v] = "building" => \E k \in Keys : Makes(k, v)'
    BY Zenon, <1>1 DEF BuildInv, Machines
  <1>5. \A v \in VMIDs : vm'[v] = "leftover" => \E k \in Keys : Reserves(k, v)'
    BY Zenon DEF BuildInv, Machines
  <1> QED BY Zenon, <1>2, <1>3, <1>4, <1>5 DEF Machines

LEMMA BuildsKept ==
  ASSUME BuildInv, UNCHANGED <<job, vm, runner>>
  PROVE  Runs' /\ OneActive' /\ Machines'
  <1>1. Runs'
    BY Zenon DEF BuildInv, Runs, Building
  <1>2. OneActive'
    BY Zenon DEF BuildInv, OneActive, Active
  <1>3. Machines'
    BY Zenon, MachinesKept DEF Reserves, Active
  <1> QED BY Zenon, <1>1, <1>2, <1>3

LEMMA OwnersKept ==
  ASSUME BuildInv, UNCHANGED <<job, runner, handler>>
  PROVE  Owners'
  BY Zenon DEF BuildInv, Owners, Owns

-----------------------------------------------------------------------------
(* startImageBuild                                                         *)

\* A request moves on that has no job, or ends.
LEMMA HandlerMoves ==
  ASSUME BuildInv, NEW h \in Handlers, NEW n \in Requests, handler' = [handler EXCEPT ![h] = n],
         n.phase \notin {"created", "running"},
         n.phase # "idle" => n.key \in Keys /\ n.profile \in Profiles /\ n.vmid \in VMIDs,
         \A g \in Handlers : g # h /\ Owns(g) => job'[handler[g].key] = job[handler[g].key] /\ runner'[handler[g].key] = runner[handler[g].key]
  PROVE  handler' \in [Handlers -> Requests] /\ Owners'
  <1>1. handler \in [Handlers -> Requests]
    BY Zenon DEF BuildInv, BuildTypes
  <1>2. handler' \in [Handlers -> Requests] /\ handler'[h] = n /\ \A g \in Handlers : g # h => handler'[g] = handler[g]
    BY Zenon, <1>1
  <1>3. ~Owns(h)' /\ \A g \in Handlers : Owns(g)' => g # h /\ Owns(g)
    BY Zenon, <1>2 DEF Owns
  <1>4. ASSUME NEW g \in Handlers
        PROVE  /\ handler'[g].phase # "idle" =>
                    handler'[g].key \in Keys /\ handler'[g].profile \in Profiles /\ handler'[g].vmid \in VMIDs
               /\ Owns(g)' =>
                    /\ job'[handler'[g].key] \in Jobs /\ runner'[handler'[g].key] = None
                    /\ job'[handler'[g].key].profile = handler'[g].profile /\ job'[handler'[g].key].vmid = handler'[g].vmid
                    /\ job'[handler'[g].key].state = IF handler'[g].phase = "created" THEN "accepted" ELSE "running"
    <2>1. CASE g = h
      BY Zenon, <1>2, <1>3, <2>1
    <2>2. CASE g # h
      <3>1. handler'[g] = handler[g]
        BY Zenon, <1>2, <2>2
      <3>2. Owns(g)' => Owns(g)
        BY Zenon, <1>3
      <3> QED BY Zenon, <2>2, <3>1, <3>2 DEF BuildInv, Owners
    <2> QED BY Zenon, <2>1, <2>2
  <1>5. \A f, g \in Handlers : Owns(f)' /\ Owns(g)' /\ handler'[f].key = handler'[g].key => f = g
    BY Zenon, <1>2, <1>3 DEF BuildInv, Owners
  <1> QED BY Zenon, <1>2, <1>4, <1>5 DEF Owners

LEMMA IdleRequest == IdleHandler \in Requests /\ IdleHandler.phase = "idle" /\ IdleHandler.phase \notin {"created", "running"}
  BY DEF IdleHandler, Requests

LEMMA GoesTo ==
  ASSUME BuildInv, NEW h \in Handlers, NEW phase \in {"read", "checked", "created", "running"}, Goes(h, phase)
  PROVE  \E n \in Requests : /\ handler' = [handler EXCEPT ![h] = n] /\ n.phase = phase /\ n.key = handler[h].key
                             /\ n.profile = handler[h].profile /\ n.vmid = handler[h].vmid
  <1>1. handler[h] \in Requests
    BY Zenon DEF BuildInv, BuildTypes
  <1>2. PICK n : n = [handler[h] EXCEPT !.phase = phase]
    BY Zenon
  <1>3. handler' = [handler EXCEPT ![h] = n]
    BY Zenon, <1>2 DEF Goes
  <1>4. n \in Requests /\ n.phase = phase /\ n.key = handler[h].key /\ n.profile = handler[h].profile /\ n.vmid = handler[h].vmid
    BY <1>1, <1>2 DEF Requests
  <1> QED BY Zenon, <1>3, <1>4

LEMMA BeforeTheJob ==
  ASSUME BuildInv, NEW h \in Handlers,
         \/ \E k \in Keys, p \in Profiles, v \in VMIDs \cup {None} : StartImageBuild(h, k, p, v)
         \/ ValidateImageBuildInventory(h)
  PROVE  BuildInv'
  <1>u. UNCHANGED <<profile, job, vm, editor, runner, inventory, faults>>
    BY Zenon DEF StartImageBuild, ValidateImageBuildInventory
  <1>1. PICK n \in Requests : /\ handler' = [handler EXCEPT ![h] = n]
                              /\ n.phase \notin {"created", "running"}
                              /\ n.phase # "idle" => n.key \in Keys /\ n.profile \in Profiles /\ n.vmid \in VMIDs
    <2>1. ASSUME NEW k \in Keys, NEW p \in Profiles, NEW v \in VMIDs \cup {None}, StartImageBuild(h, k, p, v)
          PROVE  \E n \in Requests : /\ handler' = [handler EXCEPT ![h] = n]
                                     /\ n.phase \notin {"created", "running"}
                                     /\ n.phase # "idle" => n.key \in Keys /\ n.profile \in Profiles /\ n.vmid \in VMIDs
      <3>1. PICK x : x = IF v = None THEN profile[p].vmid ELSE v
        OBVIOUS
      <3>2. x # None /\ handler' = [handler EXCEPT ![h] = [phase |-> "read", key |-> k, profile |-> p, vmid |-> x]]
        BY Zenon, <2>1, <3>1 DEF StartImageBuild
      <3>3. x \in VMIDs
        <4>1. profile[p] \in Rows
          BY Zenon DEF BuildInv, BuildTypes
        <4> QED BY <3>1, <3>2, <4>1 DEF Rows
      <3>4. PICK n : n = [phase |-> "read", key |-> k, profile |-> p, vmid |-> x]
        BY Zenon
      <3>5. n \in Requests /\ n.phase \notin {"created", "running"} /\ n.key = k /\ n.profile = p /\ n.vmid = x
        BY <3>3, <3>4 DEF Requests
      <3> QED BY Zenon, <3>2, <3>3, <3>4, <3>5
    <2>2. CASE ValidateImageBuildInventory(h) /\ Goes(h, "checked")
      <3>1. PICK n \in Requests : /\ handler' = [handler EXCEPT ![h] = n] /\ n.phase = "checked" /\ n.key = handler[h].key
                                  /\ n.profile = handler[h].profile /\ n.vmid = handler[h].vmid
        BY <2>2, GoesTo
      <3>2. handler[h].phase # "idle" /\ "checked" \notin {"created", "running"}
        BY <2>2 DEF ValidateImageBuildInventory
      <3> QED BY Zenon, <3>1, <3>2 DEF BuildInv, Owners
    <2>3. CASE Returns(h)
      BY Zenon, <2>3, IdleRequest DEF Returns
    <2> QED BY Zenon, <2>1, <2>2, <2>3 DEF ValidateImageBuildInventory
  <1>2. handler' \in [Handlers -> Requests] /\ Owners'
    BY Zenon, <1>u, <1>1, HandlerMoves
  <1>3. Templates'
    BY Zenon, <1>u, TemplatesKept DEF TemplatesStay
  <1> QED BY Zenon, <1>u, <1>2, <1>3, BuildsKept DEF BuildInv, BuildTypes

\* The state of a job is written; a job becomes active in no other way than
\* by being created.
LEMMA StateWritten ==
  ASSUME BuildInv, NEW k \in Keys, job[k] \in Jobs, NEW st \in {"accepted", "running", "succeeded", "failed"},
         job' = [job EXCEPT ![k].state = st], st \in {"accepted", "running"} => Active(k),
         vm' = vm, \A j \in Keys : runner'[j] = "building" <=> runner[j] = "building",
         st = "succeeded" => vm[job[k].vmid] # "leftover"
  PROVE  /\ job' \in [Keys -> Jobs \cup {NoJob}] /\ job'[k] \in Jobs /\ job'[k].state = st
         /\ \A j \in Keys : /\ j # k => job'[j] = job[j]
                            /\ job'[j].profile = job[j].profile /\ job'[j].vmid = job[j].vmid
         /\ OneActive' /\ Machines'
  <1>t. job \in [Keys -> Jobs \cup {NoJob}]
    BY Zenon DEF BuildInv, BuildTypes
  <1>1. PICK n : n = [job[k] EXCEPT !.state = st]
    BY Zenon
  <1>2. n \in Jobs /\ n.state = st /\ n.profile = job[k].profile /\ n.vmid = job[k].vmid
    BY <1>1 DEF Jobs
  <1>3. job' = [job EXCEPT ![k] = n]
    BY Zenon, <1>1
  <1>4. job'[k] = n /\ \A j \in Keys : j # k => job'[j] = job[j]
    BY Zenon, <1>t, <1>3
  <1>5. job' \in [Keys -> Jobs \cup {NoJob}]
    BY <1>t, <1>2, <1>3
  <1>6. \A j \in Keys : job'[j].profile = job[j].profile /\ job'[j].vmid = job[j].vmid
    BY Zenon, <1>2, <1>4
  <1>7. \A j \in Keys : Active(j)' => Active(j)
    <2>1. Active(k)' => Active(k)
      BY <1>2, <1>4 DEF Active
    <2> QED BY Zenon, <1>4, <2>1 DEF Active
  <1>8. OneActive'
    BY Zenon, <1>6, <1>7 DEF BuildInv, OneActive
  <1>9. Machines'
    <2>1. ASSUME NEW j \in Keys, NEW v \in VMIDs, vm[v] = "leftover", Reserves(j, v) PROVE Reserves(j, v)'
      <3>1. CASE j # k
        BY Zenon, <1>4, <2>1, <3>1 DEF Reserves, Active
      <3>2. CASE j = k
        <4>1. st \in {"accepted", "running", "failed"}
          BY <2>1, <3>2 DEF Reserves
        <4>2. Active(k)' \/ job'[k].state = "failed"
          BY <1>2, <1>4, <4>1 DEF Active
        <4> QED BY Zenon, <1>6, <2>1, <3>2, <4>2 DEF Reserves
      <3> QED BY Zenon, <3>1, <3>2
    <2> QED BY Zenon, <1>6, <2>1, MachinesKept
  <1> QED BY Zenon, <1>2, <1>4, <1>5, <1>6, <1>8, <1>9

\* A request that owns its job writes the job's state.
LEMMA OwnedRuns ==
  ASSUME BuildInv, NEW k \in Keys, runner[k] = None, UNCHANGED <<vm, runner>>,
         \A j \in Keys : j # k => job'[j] = job[j], job'[k].state # "succeeded"
  PROVE  Runs'
  <1>1. \A j \in Keys : Building(j)' <=> Building(j)
    BY Zenon DEF Building
  <1>2. ~Building(k) /\ runner[k] # "succeeded"
    BY Constants DEF Building
  <1>3. ASSUME NEW j \in Keys
        PROVE  /\ runner'[j] # None => job'[j] \in Jobs
               /\ Building(j)' => job'[j].state = "running"
               /\ runner'[j] = "succeeded" \/ job'[j].state = "succeeded" => vm'[job'[j].vmid] = "template"
    <2>1. CASE j = k
      BY Zenon, <1>1, <1>2, <2>1
    <2>2. CASE j # k
      <3>1. job'[j] = job[j]
        BY Zenon, <2>2
      <3> QED BY Zenon, <1>1, <3>1 DEF BuildInv, Runs
    <2> QED BY Zenon, <2>1, <2>2
  <1> QED BY Zenon, <1>3 DEF Runs

LEMMA CreateJobKeeps ==
  ASSUME BuildInv, NEW h \in Handlers, CreateJob(h)
  PROVE  BuildInv'
  <1>u. UNCHANGED <<profile, vm, editor, runner, inventory, faults>> /\ handler[h].phase = "checked"
    BY Zenon DEF CreateJob
  <1>a. Templates'
    BY Zenon, <1>u, TemplatesKept DEF TemplatesStay
  <1>1. CASE Returns(h) /\ UNCHANGED job
    <2>1. handler' \in [Handlers -> Requests] /\ Owners'
      BY Zenon, <1>u, <1>1, IdleRequest, HandlerMoves DEF Returns
    <2> QED BY Zenon, <1>u, <1>a, <1>1, <2>1, BuildsKept DEF BuildInv, BuildTypes
  <1>2. CASE ~(Returns(h) /\ UNCHANGED job)
    <2>1. PICK k \in Keys : k = handler[h].key /\ handler[h].profile \in Profiles /\ handler[h].vmid \in VMIDs
      <3>1. handler[h].phase # "idle"
        BY <1>u
      <3> QED BY Zenon, <3>1 DEF BuildInv, Owners
    <2>2. PICK n : n = [state |-> "accepted", profile |-> handler[h].profile, vmid |-> handler[h].vmid]
      BY Zenon
    <2>3. n \in Jobs /\ n.state = "accepted" /\ n.profile = handler[h].profile /\ n.vmid = handler[h].vmid
      BY <2>1, <2>2 DEF Jobs
    <2>4. job[k] = NoJob /\ ~ActiveImageBuild(handler[h].profile) /\ Goes(h, "created") /\ job' = [job EXCEPT ![k] = n]
      BY Zenon, <1>2, <2>1, <2>2 DEF CreateJob
    <2>5. job \in [Keys -> Jobs \cup {NoJob}]
      BY Zenon DEF BuildInv, BuildTypes
    <2>6. job'[k] = n /\ \A j \in Keys : j # k => job'[j] = job[j]
      BY Zenon, <2>4, <2>5
    <2>7. job' \in [Keys -> Jobs \cup {NoJob}]
      BY <2>3, <2>4, <2>5
    <2>8. job[k].state = None /\ ~Active(k) /\ job[k].state # "failed" /\ job[k] \notin Jobs
      BY <2>4, NoJobFacts, Constants DEF Active
    <2>9. runner[k] = None
      BY Zenon, <2>8 DEF BuildInv, Runs
    <2>10. Runs'
      <3>1. job'[k].state # "succeeded"
        BY <2>3, <2>6
      <3> QED BY Zenon, <1>u, <2>6, <2>9, <3>1, OwnedRuns
    <2>11. OneActive'
      <3>1. \A j \in Keys : j # k => (Active(j)' <=> Active(j)) /\ (Active(j) => job[j].profile # handler[h].profile)
        BY Zenon, <2>4, <2>6 DEF Active, ActiveImageBuild
      <3> QED BY Zenon, <2>3, <2>6, <3>1 DEF BuildInv, OneActive
    <2>12. Machines'
      <3>1. runner[k] # "building"
        BY Zenon, <2>9, Constants
      <3>2. \A j \in Keys, v \in VMIDs : Reserves(j, v) => Reserves(j, v)'
        BY Zenon, <2>6, <2>8 DEF Reserves, Active
      <3> QED BY Zenon, <1>u, <2>6, <3>1, <3>2, MachinesKept
    <2>13. PICK m \in Requests : /\ handler' = [handler EXCEPT ![h] = m] /\ m.phase = "created" /\ m.key = handler[h].key
                                 /\ m.profile = handler[h].profile /\ m.vmid = handler[h].vmid
      BY <2>4, GoesTo
    <2>14. handler' \in [Handlers -> Requests] /\ handler'[h] = m /\ \A g \in Handlers : g # h => handler'[g] = handler[g]
      BY Zenon, <2>13 DEF BuildInv, BuildTypes
    <2>15. Owners'
      <3>1. \A g \in Handlers : Owns(g) => g # h /\ handler[g].key # k
        <4>1. ~Owns(h)
          BY <1>u DEF Owns
        <4> QED BY Zenon, <2>8, <4>1 DEF BuildInv, Owners
      <3>2. \A g \in Handlers : g # h => (Owns(g)' <=> Owns(g))
        BY Zenon, <2>14 DEF Owns
      <3>3. ASSUME NEW g \in Handlers
            PROVE  /\ handler'[g].phase # "idle" =>
                        handler'[g].key \in Keys /\ handler'[g].profile \in Profiles /\ handler'[g].vmid \in VMIDs
                   /\ Owns(g)' =>
                        /\ job'[handler'[g].key] \in Jobs /\ runner'[handler'[g].key] = None
                        /\ job'[handler'[g].key].profile = handler'[g].profile /\ job'[handler'[g].key].vmid = handler'[g].vmid
                        /\ job'[handler'[g].key].state = IF handler'[g].phase = "created" THEN "accepted" ELSE "running"
        <4>1. CASE g = h
          BY Zenon, <1>u, <2>1, <2>3, <2>6, <2>9, <2>13, <2>14, <4>1
        <4>2. CASE g # h
          <5>1. handler'[g] = handler[g]
            BY Zenon, <2>14, <4>2
          <5>2. Owns(g)' => handler[g].key \in Keys /\ job'[handler[g].key] = job[handler[g].key]
            <6>1. Owns(g) => handler[g].phase # "idle"
              BY DEF Owns
            <6>2. handler[g].phase # "idle" => handler[g].key \in Keys
              BY Zenon DEF BuildInv, Owners
            <6> QED BY Zenon, <2>6, <3>1, <3>2, <4>2, <6>1, <6>2
          <5>3. PICK r : r = handler[g]
            OBVIOUS
          <5>4. /\ r.phase # "idle" => r.key \in Keys /\ r.profile \in Profiles /\ r.vmid \in VMIDs
                /\ Owns(g) =>
                     /\ job[r.key] \in Jobs /\ runner[r.key] = None
                     /\ job[r.key].profile = r.profile /\ job[r.key].vmid = r.vmid
                     /\ job[r.key].state = IF r.phase = "created" THEN "accepted" ELSE "running"
            BY Zenon, <5>3 DEF BuildInv, Owners
          <5>5. handler'[g] = r /\ (Owns(g)' => job'[r.key] = job[r.key])
            BY Zenon, <5>1, <5>2, <5>3
          <5> QED BY Zenon, <1>u, <3>2, <4>2, <5>4, <5>5
        <4> QED BY Zenon, <4>1, <4>2
      <3>4. \A f, g \in Handlers : Owns(f)' /\ Owns(g)' /\ handler'[f].key = handler'[g].key => f = g
        BY Zenon, <2>1, <2>13, <2>14, <3>1, <3>2 DEF BuildInv, Owners
      <3> QED BY Zenon, <3>3, <3>4 DEF Owners
    <2> QED BY Zenon, <1>u, <1>a, <2>7, <2>10, <2>11, <2>12, <2>14, <2>15 DEF BuildInv, BuildTypes
  <1> QED BY Zenon, <1>1, <1>2

\* The request h still owns its job after writing its state.
LEMMA OwnerWrites ==
  ASSUME BuildInv, NEW h \in Handlers, Owns(h), NEW n \in Requests, handler' = [handler EXCEPT ![h] = n],
         n.phase # "created", n.phase = "running" => /\ n.key = handler[h].key /\ n.profile = handler[h].profile
                                                     /\ n.vmid = handler[h].vmid /\ job'[n.key].state = "running",
         n.phase # "running" => n.phase = "idle",
         job'[handler[h].key] \in Jobs, runner' = runner,
         \A j \in Keys : /\ j # handler[h].key => job'[j] = job[j]
                         /\ job'[j].profile = job[j].profile /\ job'[j].vmid = job[j].vmid
  PROVE  handler' \in [Handlers -> Requests] /\ Owners'
  <1>1. handler' \in [Handlers -> Requests] /\ handler'[h] = n /\ \A g \in Handlers : g # h => handler'[g] = handler[g]
    BY Zenon DEF BuildInv, BuildTypes
  <1>2. \A g \in Handlers : Owns(g) => handler[g].phase # "idle"
    BY DEF Owns
  <1>3. PICK k \in Keys : k = handler[h].key /\ runner[k] = None /\ job[k].profile = handler[h].profile /\ job[k].vmid = handler[h].vmid
    BY Zenon, <1>2 DEF BuildInv, Owners
  <1>4. \A g \in Handlers : g # h /\ Owns(g) => handler[g].key # k
    BY Zenon, <1>3 DEF BuildInv, Owners
  <1>5. \A g \in Handlers : g # h => (Owns(g)' <=> Owns(g))
    BY Zenon, <1>1 DEF Owns
  <1>6. Owns(h)' => n.phase = "running"
    BY <1>1 DEF Owns
  <1>7. ASSUME NEW g \in Handlers
        PROVE  /\ handler'[g].phase # "idle" =>
                    handler'[g].key \in Keys /\ handler'[g].profile \in Profiles /\ handler'[g].vmid \in VMIDs
               /\ Owns(g)' =>
                    /\ job'[handler'[g].key] \in Jobs /\ runner'[handler'[g].key] = None
                    /\ job'[handler'[g].key].profile = handler'[g].profile /\ job'[handler'[g].key].vmid = handler'[g].vmid
                    /\ job'[handler'[g].key].state = IF handler'[g].phase = "created" THEN "accepted" ELSE "running"
    <2>1. CASE g = h
      <3>1. handler[h].profile \in Profiles /\ handler[h].vmid \in VMIDs
        BY Zenon, <1>2 DEF BuildInv, Owners
      <3>2. job'[k] \in Jobs /\ job'[k].profile = handler[h].profile /\ job'[k].vmid = handler[h].vmid
        BY Zenon, <1>3
      <3> QED BY Zenon, <1>1, <1>3, <1>6, <2>1, <3>1, <3>2
    <2>2. CASE g # h
      <3>1. handler'[g] = handler[g]
        BY Zenon, <1>1, <2>2
      <3>2. Owns(g)' => handler[g].key \in Keys /\ job'[handler[g].key] = job[handler[g].key]
        BY Zenon, <1>2, <1>3, <1>4, <1>5, <2>2 DEF BuildInv, Owners
      <3>3. /\ handler[g].phase # "idle" =>
                 handler[g].key \in Keys /\ handler[g].profile \in Profiles /\ handler[g].vmid \in VMIDs
            /\ Owns(g) =>
                 /\ job[handler[g].key] \in Jobs /\ runner[handler[g].key] = None
                 /\ job[handler[g].key].profile = handler[g].profile /\ job[handler[g].key].vmid = handler[g].vmid
                 /\ job[handler[g].key].state = IF handler[g].phase = "created" THEN "accepted" ELSE "running"
        BY Zenon DEF BuildInv, Owners
      <3> QED BY Zenon, <1>5, <2>2, <3>1, <3>2, <3>3
    <2> QED BY Zenon, <2>1, <2>2
  <1>8. \A f, g \in Handlers : Owns(f)' /\ Owns(g)' /\ handler'[f].key = handler'[g].key => f = g
    <2>1. \A f, g \in Handlers : Owns(f) /\ Owns(g) /\ handler[f].key = handler[g].key => f = g
      BY Zenon DEF BuildInv, Owners
    <2>2. ASSUME NEW f \in Handlers, NEW g \in Handlers, Owns(f)', Owns(g)', handler'[f].key = handler'[g].key
          PROVE  f = g
      <3>1. CASE f # h /\ g # h
        BY Zenon, <1>1, <1>5, <2>1, <2>2, <3>1
      <3>2. CASE f = h /\ g # h
        BY Zenon, <1>1, <1>3, <1>4, <1>5, <1>6, <2>2, <3>2
      <3>3. CASE f # h /\ g = h
        BY Zenon, <1>1, <1>3, <1>4, <1>5, <1>6, <2>2, <3>3
      <3> QED BY Zenon, <3>1, <3>2, <3>3
    <2> QED BY Zenon, <2>2
  <1> QED BY Zenon, <1>1, <1>7, <1>8 DEF Owners

LEMMA MarkRunningKeeps ==
  ASSUME BuildInv, NEW h \in Handlers, MarkRunning(h)
  PROVE  BuildInv'
  <1>u. UNCHANGED <<profile, vm, editor, runner, inventory, faults>> /\ handler[h].phase = "created" /\ Owns(h)
        /\ handler[h].phase # "idle"
    BY DEF MarkRunning, Owns
  <1>1. PICK k \in Keys : k = handler[h].key /\ job[k] \in Jobs /\ runner[k] = None /\ job[k].state = "accepted"
    BY Zenon, <1>u DEF BuildInv, Owners
  <1>2. job' = [job EXCEPT ![k].state = "running"] /\ Goes(h, "running")
    BY Zenon, <1>1 DEF MarkRunning
  <1>3. Active(k) /\ "running" \in {"accepted", "running", "succeeded", "failed"} /\ "running" # "succeeded"
    BY <1>1 DEF Active
  <1>4. /\ job' \in [Keys -> Jobs \cup {NoJob}] /\ job'[k] \in Jobs /\ job'[k].state = "running"
        /\ \A j \in Keys : (j # k => job'[j] = job[j]) /\ job'[j].profile = job[j].profile /\ job'[j].vmid = job[j].vmid
        /\ OneActive' /\ Machines'
    BY Zenon, <1>u, <1>1, <1>2, <1>3, StateWritten
  <1>5. Runs'
    BY Zenon, <1>u, <1>1, <1>3, <1>4, OwnedRuns
  <1>6. PICK n \in Requests : /\ handler' = [handler EXCEPT ![h] = n] /\ n.phase = "running" /\ n.key = handler[h].key
                              /\ n.profile = handler[h].profile /\ n.vmid = handler[h].vmid
    BY <1>2, GoesTo
  <1>7. n.phase # "created"
    BY <1>6
  <1>8. handler' \in [Handlers -> Requests] /\ Owners'
    BY Zenon, <1>u, <1>1, <1>4, <1>6, <1>7, OwnerWrites
  <1>9. Templates'
    BY Zenon, <1>u, TemplatesKept DEF TemplatesStay
  <1> QED BY Zenon, <1>u, <1>4, <1>5, <1>8, <1>9 DEF BuildInv, BuildTypes

LEMMA RequestFailsKeeps ==
  ASSUME BuildInv, NEW h \in Handlers, NEW recorded \in BOOLEAN, RequestFails(h, recorded)
  PROVE  BuildInv'
  <1>u. UNCHANGED <<profile, vm, editor, runner, inventory>> /\ Owns(h) /\ handler[h].phase # "idle" /\ Returns(h)
    BY DEF RequestFails, Owns
  <1>f. faults' \in 0..MaxFaults
    BY ImageAssumption DEF RequestFails, BuildInv, BuildTypes
  <1>a. Templates'
    BY Zenon, <1>u, TemplatesKept DEF TemplatesStay
  <1>1. PICK k \in Keys : k = handler[h].key /\ job[k] \in Jobs /\ runner[k] = None
    BY Zenon, <1>u DEF BuildInv, Owners
  <1>2. CASE job' = job
    <2>1. handler' \in [Handlers -> Requests] /\ Owners'
      BY Zenon, <1>u, <1>2, IdleRequest, HandlerMoves DEF Returns
    <2> QED BY Zenon, <1>u, <1>f, <1>a, <1>2, <2>1, BuildsKept DEF BuildInv, BuildTypes
  <1>3. CASE job' = [job EXCEPT ![k].state = "failed"]
    <2>1. "failed" \in {"accepted", "running", "succeeded", "failed"} /\ "failed" \notin {"accepted", "running"} /\ "failed" # "succeeded"
      OBVIOUS
    <2>2. /\ job' \in [Keys -> Jobs \cup {NoJob}] /\ job'[k] \in Jobs /\ job'[k].state = "failed"
          /\ \A j \in Keys : (j # k => job'[j] = job[j]) /\ job'[j].profile = job[j].profile /\ job'[j].vmid = job[j].vmid
          /\ OneActive' /\ Machines'
      BY Zenon, <1>u, <1>1, <1>3, <2>1, StateWritten
    <2>3. Runs'
      BY Zenon, <1>u, <1>1, <2>1, <2>2, OwnedRuns
    <2>4. handler' \in [Handlers -> Requests] /\ Owners'
      <3>1. \A g \in Handlers : g # h /\ Owns(g) => handler[g].key \in Keys /\ handler[g].key # k
        <4>1. \A g \in Handlers : Owns(g) => handler[g].phase # "idle"
          BY DEF Owns
        <4> QED BY Zenon, <1>u, <1>1, <4>1 DEF BuildInv, Owners
      <3> QED BY Zenon, <1>u, <2>2, <3>1, IdleRequest, HandlerMoves DEF Returns
    <2> QED BY Zenon, <1>u, <1>f, <1>a, <2>2, <2>3, <2>4 DEF BuildInv, BuildTypes
  <1> QED BY Zenon, <1>1, <1>2, <1>3 DEF RequestFails

\* A row that is not ready is written over a profile.
LEMMA RowWritten ==
  ASSUME BuildInv, NEW p \in Profiles, NEW row \in Rows, row.status = "ready" => IsTemplate(row.vmid),
         profile' = [profile EXCEPT ![p] = row], UNCHANGED <<vm, editor>>
  PROVE  profile' \in [Profiles -> Rows] /\ Templates'
  <1>1. profile' \in [Profiles -> Rows] /\ profile'[p] = row /\ \A q \in Profiles : q # p => profile'[q] = profile[q]
    BY Zenon DEF BuildInv, BuildTypes
  <1>2. \A v : IsTemplate(v)' <=> IsTemplate(v)
    BY Zenon DEF IsTemplate
  <1>3. \A q \in Profiles : profile'[q].status = "ready" => IsTemplate(profile'[q].vmid)
    BY Zenon, <1>1 DEF BuildInv, Templates
  <1> QED BY Zenon, <1>1, <1>2, <1>3 DEF BuildInv, Templates

\* The job passes from the request to the goroutine.
LEMMA MarkBuildingKeeps ==
  ASSUME BuildInv, NEW h \in Handlers, MarkBuilding(h)
  PROVE  BuildInv'
  <1>u. UNCHANGED <<job, vm, editor, inventory, faults>> /\ Owns(h) /\ handler[h].phase = "running" /\ Returns(h)
        /\ handler[h].phase # "idle" /\ handler[h].phase # "created"
    BY DEF MarkBuilding, Owns
  <1>1. PICK k \in Keys : k = handler[h].key /\ job[k] \in Jobs /\ runner[k] = None /\ job[k].state = "running"
    BY Zenon, <1>u DEF BuildInv, Owners
  <1>2. handler[h].profile \in Profiles /\ handler[h].vmid \in VMIDs
    BY Zenon, <1>u DEF BuildInv, Owners
  <1>3. profile' \in [Profiles -> Rows] /\ Templates'
    <2>1. PICK row : row = [status |-> "building", vmid |-> handler[h].vmid]
      BY Zenon
    <2>2. row \in Rows /\ row.status # "ready"
      BY <1>2, <2>1 DEF Rows, Statuses
    <2>3. profile' = [profile EXCEPT ![handler[h].profile] = row]
      BY Zenon, <2>1 DEF MarkBuilding
    <2> QED BY Zenon, <1>u, <1>2, <2>2, <2>3, RowWritten
  <1>4. runner' = [runner EXCEPT ![k] = "starting"]
    BY Zenon, <1>1 DEF MarkBuilding
  <1>5. runner'[k] = "starting" /\ \A j \in Keys : j # k => runner'[j] = runner[j]
    BY Zenon, <1>4 DEF BuildInv, BuildTypes
  <1>6. runner' \in [Keys -> {None, "starting", "building", "succeeded", "failed", "testing", "broken"}]
    BY <1>4 DEF BuildInv, BuildTypes
  <1>7. Owners' /\ handler' \in [Handlers -> Requests]
    <2>1. \A g \in Handlers : g # h /\ Owns(g) => handler[g].key \in Keys /\ handler[g].key # k
      <3>1. \A g \in Handlers : Owns(g) => handler[g].phase # "idle"
        BY DEF Owns
      <3> QED BY Zenon, <1>u, <1>1, <3>1 DEF BuildInv, Owners
    <2>2. \A g \in Handlers : g # h /\ Owns(g) =>
             job'[handler[g].key] = job[handler[g].key] /\ runner'[handler[g].key] = runner[handler[g].key]
      BY Zenon, <1>u, <1>5, <2>1
    <2> QED BY Zenon, <1>u, <2>2, IdleRequest, HandlerMoves DEF Returns
  <1>8. Runs'
    <2>1. "starting" # "succeeded" /\ "running" # "succeeded"
      OBVIOUS
    <2>2. ASSUME NEW j \in Keys
          PROVE  /\ runner'[j] # None => job'[j] \in Jobs
                 /\ Building(j)' => job'[j].state = "running"
                 /\ runner'[j] = "succeeded" \/ job'[j].state = "succeeded" => vm'[job'[j].vmid] = "template"
      <3>1. CASE j = k
        BY Zenon, <1>u, <1>1, <1>5, <2>1, <3>1
      <3>2. CASE j # k
        <4>1. runner'[j] = runner[j] /\ (Building(j)' <=> Building(j))
          BY Zenon, <1>5, <3>2 DEF Building
        <4> QED BY Zenon, <1>u, <4>1 DEF BuildInv, Runs
      <3> QED BY Zenon, <3>1, <3>2
    <2> QED BY Zenon, <2>2 DEF Runs
  <1>9. Machines' /\ OneActive'
    <2>1. \A j \in Keys : runner'[j] = "building" <=> runner[j] = "building"
      <3>1. runner[k] # "building" /\ runner'[k] # "building"
        BY <1>1, <1>5, Constants
      <3> QED BY Zenon, <1>5, <3>1
    <2>2. Machines'
      <3>1. \A j \in Keys, v \in VMIDs : Reserves(j, v) => Reserves(j, v)'
        BY Zenon, <1>u DEF Reserves, Active
      <3> QED BY Zenon, <1>u, <2>1, <3>1, MachinesKept
    <2>3. OneActive'
      BY Zenon, <1>u DEF BuildInv, OneActive, Active
    <2> QED BY Zenon, <2>2, <2>3
  <1> QED BY Zenon, <1>u, <1>3, <1>6, <1>7, <1>8, <1>9 DEF BuildInv, BuildTypes

-----------------------------------------------------------------------------
(* runImageBuild and Packer                                                *)

\* The goroutine of k moves, and no request owns its job.
LEMMA RunnerOwns ==
  ASSUME BuildInv, NEW k \in Keys, runner[k] # None, UNCHANGED handler,
         \A j \in Keys : j # k => job'[j] = job[j] /\ runner'[j] = runner[j]
  PROVE  Owners'
  <1>1. \A g \in Handlers : Owns(g) => handler[g].phase # "idle"
    BY DEF Owns
  <1>2. \A g \in Handlers : Owns(g) => handler[g].key \in Keys /\ handler[g].key # k
    BY Zenon, <1>1 DEF BuildInv, Owners
  <1>3. \A g \in Handlers : Owns(g)' <=> Owns(g)
    BY Zenon DEF Owns
  <1>4. \A g \in Handlers : Owns(g) => job'[handler[g].key] = job[handler[g].key] /\ runner'[handler[g].key] = runner[handler[g].key]
    BY Zenon, <1>2
  <1>5. Owners
    BY Zenon DEF BuildInv
  <1>6. ASSUME NEW g \in Handlers
        PROVE  /\ handler'[g].phase # "idle" =>
                    handler'[g].key \in Keys /\ handler'[g].profile \in Profiles /\ handler'[g].vmid \in VMIDs
               /\ Owns(g)' =>
                    /\ job'[handler'[g].key] \in Jobs /\ runner'[handler'[g].key] = None
                    /\ job'[handler'[g].key].profile = handler'[g].profile /\ job'[handler'[g].key].vmid = handler'[g].vmid
                    /\ job'[handler'[g].key].state = IF handler'[g].phase = "created" THEN "accepted" ELSE "running"
    <2>1. PICK n : n = handler[g]
      OBVIOUS
    <2>2. handler'[g] = n
      BY Zenon, <2>1
    <2>3. /\ n.phase # "idle" => n.key \in Keys /\ n.profile \in Profiles /\ n.vmid \in VMIDs
          /\ Owns(g) =>
               /\ job[n.key] \in Jobs /\ runner[n.key] = None
               /\ job[n.key].profile = n.profile /\ job[n.key].vmid = n.vmid
               /\ job[n.key].state = IF n.phase = "created" THEN "accepted" ELSE "running"
      BY Zenon, <1>5, <2>1 DEF Owners
    <2>4. Owns(g) => job'[n.key] = job[n.key] /\ runner'[n.key] = runner[n.key]
      BY Zenon, <1>4, <2>1
    <2> QED BY Zenon, <1>3, <2>2, <2>3, <2>4
  <1>7. \A f, g \in Handlers : Owns(f)' /\ Owns(g)' /\ handler'[f].key = handler'[g].key => f = g
    BY Zenon, <1>3, <1>5 DEF Owners
  <1> QED BY Zenon, <1>6, <1>7 DEF Owners

\* The status of a profile is written, never to ready.
LEMMA StatusWritten ==
  ASSUME BuildInv, NEW k \in Keys, runner[k] # None, NEW status \in {"building", "testing", "failed"}, WriteStatus(k, status),
         UNCHANGED <<vm, editor>>
  PROVE  profile' \in [Profiles -> Rows] /\ Templates'
  <1>1. PICK p \in Profiles : p = job[k].profile
    BY Zenon, RunnerJob
  <1>2. PICK row : row = [profile[p] EXCEPT !.status = status]
    BY Zenon
  <1>3. profile' = [profile EXCEPT ![p] = row]
    BY Zenon, <1>1, <1>2 DEF WriteStatus
  <1>4. row \in Rows /\ row.status # "ready"
    <2>1. profile[p] \in Rows
      BY Zenon DEF BuildInv, BuildTypes
    <2> QED BY <1>2, <2>1 DEF Rows, Statuses
  <1> QED BY Zenon, <1>3, <1>4, RowWritten

RunOK(k) ==
  /\ runner[k] # None => job[k] \in Jobs
  /\ Building(k) => job[k].state = "running"
  /\ runner[k] = "succeeded" \/ job[k].state = "succeeded" => vm[job[k].vmid] = "template"

\* Only the goroutine or the job of k moves.
LEMMA RunsMove ==
  ASSUME BuildInv, NEW k \in Keys, TemplatesStay, RunOK(k)',
         \A j \in Keys : j # k => job'[j] = job[j] /\ runner'[j] = runner[j]
  PROVE  Runs'
  <1>1. ASSUME NEW j \in Keys, j # k PROVE RunOK(j)'
    <2>1. job'[j] = job[j] /\ runner'[j] = runner[j] /\ (Building(j)' <=> Building(j))
      BY Zenon, <1>1 DEF Building
    <2>2. RunOK(j)
      BY Zenon DEF BuildInv, Runs, RunOK
    <2>3. runner[j] = "succeeded" \/ job[j].state = "succeeded" => job[j].vmid \in VMIDs
      <3>1. runner[j] = "succeeded" => runner[j] # None
        BY Zenon, Constants
      <3>2. job[j].state = "succeeded" => job[j].state # None
        BY Zenon, Constants
      <3> QED BY Zenon, <3>1, <3>2, RunnerJob, MadeJob DEF BuildInv
    <2>4. runner[j] = "succeeded" \/ job[j].state = "succeeded" => vm'[job[j].vmid] = "template"
      BY Zenon, <2>2, <2>3 DEF RunOK, TemplatesStay
    <2> QED BY Zenon, <2>1, <2>2, <2>4 DEF RunOK
  <1> QED BY Zenon, <1>1 DEF Runs, RunOK

\* Packer's run for k makes, finishes or leaves the VM v, which nobody else
\* is building.
PackerMove(k, v, x, r) ==
  /\ v = job[k].vmid /\ job' = job
  /\ vm' = [vm EXCEPT ![v] = x] /\ runner' = [runner EXCEPT ![k] = r]
  /\ \A j \in Keys : j # k /\ runner[j] = "building" => job[j].vmid # v
  /\ (r = "building") <=> (x = "building")
  /\ x = "leftover" => Reserves(k, v)

LEMMA PackerMoves ==
  ASSUME BuildInv, NEW k \in Keys, NEW v \in VMIDs, NEW x, NEW r, PackerMove(k, v, x, r)
  PROVE  Machines'
  <1>m. /\ v = job[k].vmid /\ job' = job
        /\ vm' = [vm EXCEPT ![v] = x] /\ runner' = [runner EXCEPT ![k] = r]
        /\ \A j \in Keys : j # k /\ runner[j] = "building" => job[j].vmid # v
        /\ (r = "building") <=> (x = "building")
        /\ x = "leftover" => Reserves(k, v)
    BY Zenon DEF PackerMove
  <1>1. /\ vm'[v] = x /\ \A u \in VMIDs : u # v => vm'[u] = vm[u]
        /\ runner'[k] = r /\ \A j \in Keys : j # k => runner'[j] = runner[j]
    BY Zenon, <1>m DEF BuildInv, BuildTypes
  <1>2. \A j \in Keys, u \in VMIDs : u # v => (Makes(j, u)' <=> Makes(j, u))
    BY Zenon, <1>m, <1>1 DEF Makes
  <1>3. \A j \in Keys : Makes(j, v)' <=> j = k /\ r = "building"
    BY Zenon, <1>m, <1>1 DEF Makes
  <1>4. ASSUME NEW j \in Keys, runner'[j] = "building" PROVE vm'[job'[j].vmid] = "building"
    <2>1. CASE j = k
      BY Zenon, <1>m, <1>1, <1>4, <2>1
    <2>2. CASE j # k
      <3>1. runner[j] = "building" /\ runner[j] # None /\ job[j].vmid # v
        BY Zenon, <1>m, <1>1, <1>4, <2>2, Constants
      <3>2. job[j].vmid \in VMIDs /\ vm[job[j].vmid] = "building"
        BY Zenon, <3>1, RunnerJob DEF BuildInv, Machines
      <3>3. vm'[job[j].vmid] = "building"
        BY Zenon, <1>1, <3>1, <3>2
      <3> QED BY Zenon, <1>m, <3>3
    <2> QED BY Zenon, <2>1, <2>2
  <1>5. ASSUME NEW u \in VMIDs
        PROVE  /\ \A i, j \in Keys : Makes(i, u)' /\ Makes(j, u)' => i = j
               /\ vm'[u] = "building" => \E j \in Keys : Makes(j, u)'
               /\ vm'[u] = "leftover" => \E j \in Keys : Reserves(j, u)'
    <2>1. \A j \in Keys : Reserves(j, u)' <=> Reserves(j, u)
      BY Zenon, <1>m DEF Reserves, Active
    <2>2. CASE u = v
      <3>1. vm'[u] = x /\ \A j \in Keys : Makes(j, u)' <=> j = k /\ r = "building"
        BY Zenon, <1>1, <1>3, <2>2
      <3> QED BY Zenon, <1>m, <2>1, <2>2, <3>1
    <2>3. CASE u # v
      <3>1. vm'[u] = vm[u] /\ \A j \in Keys : Makes(j, u)' <=> Makes(j, u)
        BY Zenon, <1>1, <1>2, <2>3
      <3>2. /\ \A i, j \in Keys : Makes(i, u) /\ Makes(j, u) => i = j
            /\ vm[u] = "building" => \E j \in Keys : Makes(j, u)
            /\ vm[u] = "leftover" => \E j \in Keys : Reserves(j, u)
        BY Zenon DEF BuildInv, Machines
      <3> QED BY Zenon, <2>1, <3>1, <3>2
    <2> QED BY Zenon, <2>2, <2>3
  <1> QED BY Zenon, <1>4, <1>5 DEF Machines

LEMMA PackerKeeps ==
  ASSUME BuildInv, NEW k \in Keys, PackerCreates(k) \/ Finishes(k)
  PROVE  BuildInv'
  <1>u. UNCHANGED <<profile, job, handler, editor, inventory, faults>> /\ runner[k] \in {"starting", "building"}
    BY DEF PackerCreates, Finishes, PackerSucceeds, PackerFails
  <1>n. runner[k] # None /\ Building(k)
    BY <1>u, Constants DEF Building
  <1>1. PICK v \in VMIDs : v = job[k].vmid /\ job[k] \in Jobs /\ job[k].state = "running"
    BY Zenon, <1>n, RunnerJob DEF BuildInv, Runs
  <1>2. PICK r \in {"building", "succeeded", "failed"}, x \in {None, "desktop", "building", "leftover", "template"} :
          /\ vm' = [vm EXCEPT ![v] = x] /\ runner' = [runner EXCEPT ![k] = r]
          /\ \/ vm[v] = None /\ x = "building" /\ r = "building"
             \/ x = vm[v] /\ r = "failed" /\ runner[k] = "starting"
             \/ runner[k] = "building" /\ r \in {"succeeded", "failed"} /\ x # "building" /\ (r = "succeeded" => x = "template")
    <2>1. CASE PackerCreates(k) /\ vm[v] = None
      BY <1>1, <2>1 DEF PackerCreates
    <2>2. CASE PackerCreates(k) /\ vm[v] # None
      <3>1. runner' = [runner EXCEPT ![k] = "failed"] /\ vm' = vm /\ runner[k] = "starting"
        BY Zenon, <1>1, <2>2 DEF PackerCreates
      <3>2. vm' = [vm EXCEPT ![v] = vm[v]] /\ vm[v] \in {None, "desktop", "building", "leftover", "template"}
        BY Zenon, <3>1 DEF BuildInv, BuildTypes
      <3> QED BY Zenon, <3>1, <3>2
    <2>3. CASE PackerSucceeds(k)
      BY <1>1, <2>3 DEF PackerSucceeds
    <2>4. ASSUME NEW left \in {None, "leftover", "template"}, PackerFails(k, left)
          PROVE  \E r \in {"building", "succeeded", "failed"}, x \in {None, "desktop", "building", "leftover", "template"} :
                    /\ vm' = [vm EXCEPT ![v] = x] /\ runner' = [runner EXCEPT ![k] = r]
                    /\ runner[k] = "building" /\ r \in {"succeeded", "failed"} /\ x # "building" /\ (r = "succeeded" => x = "template")
      <3>1. vm' = [vm EXCEPT ![v] = left] /\ runner' = [runner EXCEPT ![k] = "failed"] /\ runner[k] = "building"
        BY Zenon, <1>1, <2>4 DEF PackerFails
      <3>2. /\ "failed" \in {"building", "succeeded", "failed"} /\ "failed" \in {"succeeded", "failed"} /\ "failed" # "succeeded"
            /\ left \in {None, "desktop", "building", "leftover", "template"} /\ left # "building"
        BY Constants
      <3> QED BY Zenon, <3>1, <3>2
    <2> QED BY Zenon, <2>1, <2>2, <2>3, <2>4 DEF Finishes
  <1>3. /\ vm' \in [VMIDs -> {None, "desktop", "building", "leftover", "template"}] /\ vm'[v] = x
        /\ \A u \in VMIDs : u # v => vm'[u] = vm[u]
    BY Zenon, <1>2 DEF BuildInv, BuildTypes
  <1>4. /\ runner' \in [Keys -> {None, "starting", "building", "succeeded", "failed", "testing", "broken"}] /\ runner'[k] = r
        /\ \A j \in Keys : j # k => runner'[j] = runner[j]
    <2>1. r \in {None, "starting", "building", "succeeded", "failed", "testing", "broken"}
      BY <1>2
    <2> QED BY Zenon, <1>2, <2>1 DEF BuildInv, BuildTypes
  <1>5. runner[k] = "building" => vm[v] = "building" /\ Makes(k, v)
    BY Zenon, <1>1 DEF BuildInv, Machines, Makes
  <1>6. TemplatesStay
    <2>1. vm[v] = "template" => x = "template"
      BY <1>2, <1>5, Constants
    <2> QED BY Zenon, <1>3, <2>1 DEF TemplatesStay
  <1>7. CASE x = vm[v] /\ r = "failed" /\ runner[k] = "starting"
    <2>1. Machines'
      <3>1. vm' = vm
        BY Zenon, <1>2, <1>7 DEF BuildInv, BuildTypes
      <3>2. r # "building" /\ runner[k] # "building"
        BY <1>7
      <3>3. \A j \in Keys, u \in VMIDs : Reserves(j, u) => Reserves(j, u)'
        BY Zenon, <1>u DEF Reserves, Active
      <3> QED BY Zenon, <1>u, <1>4, <3>1, <3>2, <3>3, MachinesKept
    <2>2. RunOK(k)'
      BY <1>u, <1>1, <1>4, <1>7 DEF RunOK, Building
    <2> QED BY Zenon, <1>u, <1>n, <1>3, <1>4, <1>6, <2>1, <2>2, RunsMove, TemplatesKept, RunnerOwns
         DEF BuildInv, BuildTypes, OneActive, Active
  <1>8. CASE ~(x = vm[v] /\ r = "failed" /\ runner[k] = "starting")
    <2>1. \A j \in Keys : j # k /\ runner[j] = "building" => job[j].vmid # v
      <3>1. CASE vm[v] = None
        <4>1. vm[v] # "building"
          BY Zenon, <3>1, Constants
        <4> QED BY Zenon, <4>1 DEF BuildInv, Machines
      <3>2. CASE runner[k] = "building"
        BY Zenon, <1>5, <3>2 DEF BuildInv, Machines, Makes
      <3> QED BY Zenon, <1>2, <1>8, <3>1, <3>2
    <2>2. (r = "building") <=> (x = "building")
      BY <1>2, <1>8
    <2>3. Reserves(k, v)
      BY <1>1 DEF Reserves, Active
    <2>4. Machines'
      <3>1. PackerMove(k, v, x, r)
        BY Zenon, <1>u, <1>1, <1>2, <2>1, <2>2, <2>3 DEF PackerMove
      <3> QED BY Zenon, <3>1, PackerMoves
    <2>5. RunOK(k)'
      <3>1. r = "succeeded" => x = "template"
        BY <1>2
      <3> QED BY <1>u, <1>1, <1>2, <1>3, <1>4, <3>1 DEF RunOK, Building
    <2> QED BY Zenon, <1>u, <1>n, <1>3, <1>4, <1>6, <2>4, <2>5, RunsMove, TemplatesKept, RunnerOwns
         DEF BuildInv, BuildTypes, OneActive, Active
  <1> QED BY Zenon, <1>7, <1>8

LEMMA ProgressKeeps ==
  ASSUME BuildInv, NEW k \in Keys, Progress(k)
  PROVE  BuildInv'
  <1>u. UNCHANGED <<vm, handler, editor, runner, inventory, faults>> /\ WriteStatus(k, "building")
    BY Zenon DEF Progress
  <1>n. runner[k] # None /\ Building(k) /\ runner[k] # "succeeded"
    BY Constants DEF Progress, Building
  <1>1. job[k] \in Jobs /\ job[k].state = "running"
    BY Zenon, <1>n DEF BuildInv, Runs
  <1>2. Active(k) /\ "running" # "succeeded" /\ "running" \in {"accepted", "running", "succeeded", "failed"}
    BY <1>1 DEF Active
  <1>3. job' = [job EXCEPT ![k].state = "running"]
    BY Zenon DEF Progress
  <1>4. /\ job' \in [Keys -> Jobs \cup {NoJob}] /\ job'[k] \in Jobs /\ job'[k].state = "running"
        /\ \A j \in Keys : j # k => job'[j] = job[j]
        /\ OneActive' /\ Machines'
    BY Zenon, <1>u, <1>1, <1>2, <1>3, StateWritten
  <1>5. RunOK(k)'
    BY Zenon, <1>u, <1>n, <1>2, <1>4 DEF RunOK
  <1>6. Runs' /\ Owners'
    BY Zenon, <1>u, <1>n, <1>4, <1>5, RunsMove, RunnerOwns DEF TemplatesStay
  <1>7. profile' \in [Profiles -> Rows] /\ Templates'
    <2>1. "building" \in {"building", "testing", "failed"}
      OBVIOUS
    <2> QED BY Zenon, <1>u, <1>n, <2>1, StatusWritten
  <1> QED BY Zenon, <1>u, <1>4, <1>6, <1>7 DEF BuildInv, BuildTypes

LEMMA TriedOnce ==
  ASSUME BuildInv, NEW written \in BOOLEAN, Tried(written)
  PROVE  faults' \in 0..MaxFaults
  BY ImageAssumption DEF Tried, BuildInv, BuildTypes

\* The goroutine of k, which is past Packer, moves on.
LEMMA RunnerMoves ==
  ASSUME BuildInv, NEW k \in Keys, NEW r \in {None, "testing", "broken"}, runner' = [runner EXCEPT ![k] = r],
         runner[k] \notin {None, "starting", "building"}
  PROVE  /\ runner' \in [Keys -> {None, "starting", "building", "succeeded", "failed", "testing", "broken"}]
         /\ runner'[k] = r /\ \A j \in Keys : j # k => runner'[j] = runner[j]
         /\ runner'[k] # "succeeded" /\ ~Building(k)'
         /\ \A j \in Keys : runner'[j] = "building" <=> runner[j] = "building"
  <1>1. runner \in [Keys -> {None, "starting", "building", "succeeded", "failed", "testing", "broken"}]
    BY Zenon DEF BuildInv, BuildTypes
  <1>2. r \in {None, "starting", "building", "succeeded", "failed", "testing", "broken"}
        /\ r # "succeeded" /\ r \notin {"starting", "building"} /\ r # "building" /\ runner[k] # "building"
    BY Constants
  <1>3. /\ runner' \in [Keys -> {None, "starting", "building", "succeeded", "failed", "testing", "broken"}]
        /\ runner'[k] = r /\ \A j \in Keys : j # k => runner'[j] = runner[j]
    BY Zenon, <1>1, <1>2
  <1>4. ~Building(k)'
    BY Zenon, <1>2, <1>3 DEF Building
  <1>5. \A j \in Keys : runner'[j] = "building" <=> runner[j] = "building"
    BY Zenon, <1>2, <1>3
  <1> QED BY Zenon, <1>2, <1>3, <1>4, <1>5

LEMMA SettleJobKeeps ==
  ASSUME BuildInv, NEW k \in Keys, NEW written \in BOOLEAN, SettleJob(k, written)
  PROVE  BuildInv'
  <1>u. UNCHANGED <<profile, vm, handler, editor, inventory>> /\ Tried(written)
    BY Zenon DEF SettleJob
  <1>1. PICK st \in {"succeeded", "failed"} : st = runner[k]
    BY Zenon DEF SettleJob
  <1>2. runner[k] # None /\ runner[k] \notin {None, "starting", "building"}
    BY <1>1, Constants
  <1>3. job[k] \in Jobs /\ (st = "succeeded" => vm[job[k].vmid] = "template")
    BY Zenon, <1>1, <1>2 DEF BuildInv, Runs
  <1>4. PICK r \in {None, "testing", "broken"} : runner' = [runner EXCEPT ![k] = r]
    BY Zenon DEF SettleJob
  <1>5. /\ runner' \in [Keys -> {None, "starting", "building", "succeeded", "failed", "testing", "broken"}]
        /\ runner'[k] = r /\ \A j \in Keys : j # k => runner'[j] = runner[j]
        /\ runner'[k] # "succeeded" /\ ~Building(k)'
        /\ \A j \in Keys : runner'[j] = "building" <=> runner[j] = "building"
    BY Zenon, <1>2, <1>4, RunnerMoves
  <1>6. /\ job' \in [Keys -> Jobs \cup {NoJob}] /\ job'[k] \in Jobs
        /\ \A j \in Keys : j # k => job'[j] = job[j]
        /\ job'[k].state = "succeeded" => vm[job'[k].vmid] = "template"
        /\ OneActive' /\ Machines'
    <2>1. CASE ~written
      <3>1. job' = job
        BY Zenon, <2>1 DEF SettleJob
      <3>2. \A j \in Keys, v \in VMIDs : Reserves(j, v) => Reserves(j, v)'
        BY Zenon, <3>1 DEF Reserves, Active
      <3>3. Machines'
        BY Zenon, <1>u, <1>5, <3>1, <3>2, MachinesKept
      <3>4. job \in [Keys -> Jobs \cup {NoJob}] /\ (job[k].state = "succeeded" => vm[job[k].vmid] = "template")
        BY Zenon DEF BuildInv, BuildTypes, Runs
      <3> QED BY Zenon, <1>3, <3>1, <3>3, <3>4 DEF BuildInv, OneActive, Active
    <2>2. CASE written
      <3>1. job' = [job EXCEPT ![k].state = st]
        BY Zenon, <1>1, <2>2 DEF SettleJob
      <3>2. st \in {"accepted", "running", "succeeded", "failed"} /\ st \notin {"accepted", "running"} /\ "template" # "leftover"
        BY <1>1
      <3>3. st = "succeeded" => vm[job[k].vmid] # "leftover"
        BY Zenon, <1>3, <3>2
      <3>4. /\ job' \in [Keys -> Jobs \cup {NoJob}] /\ job'[k] \in Jobs /\ job'[k].state = st /\ job'[k].vmid = job[k].vmid
            /\ \A j \in Keys : j # k => job'[j] = job[j]
            /\ OneActive' /\ Machines'
        BY Zenon, <1>u, <1>3, <1>5, <3>1, <3>2, <3>3, StateWritten
      <3> QED BY Zenon, <1>3, <3>4
    <2> QED BY Zenon, <2>1, <2>2
  <1>7. RunOK(k)'
    BY Zenon, <1>u, <1>5, <1>6 DEF RunOK
  <1>8. Runs' /\ Owners'
    BY Zenon, <1>u, <1>2, <1>5, <1>6, <1>7, RunsMove, RunnerOwns DEF TemplatesStay
  <1>9. Templates'
    BY Zenon, <1>u, TemplatesKept DEF TemplatesStay
  <1>10. faults' \in 0..MaxFaults
    BY Zenon, <1>u, TriedOnce
  <1> QED BY Zenon, <1>u, <1>5, <1>6, <1>8, <1>9, <1>10 DEF BuildInv, BuildTypes

LEMMA SettleProfileKeeps ==
  ASSUME BuildInv, NEW k \in Keys, NEW written \in BOOLEAN, SettleProfile(k, written)
  PROVE  BuildInv'
  <1>u. UNCHANGED <<job, vm, handler, editor, inventory>> /\ Tried(written) /\ runner' = [runner EXCEPT ![k] = None]
    BY Zenon DEF SettleProfile
  <1>1. runner[k] # None /\ runner[k] \notin {None, "starting", "building"} /\ None \in {None, "testing", "broken"}
    BY Constants DEF SettleProfile
  <1>2. /\ runner' \in [Keys -> {None, "starting", "building", "succeeded", "failed", "testing", "broken"}]
        /\ runner'[k] = None /\ \A j \in Keys : j # k => runner'[j] = runner[j]
        /\ runner'[k] # "succeeded" /\ ~Building(k)'
        /\ \A j \in Keys : runner'[j] = "building" <=> runner[j] = "building"
    BY Zenon, <1>u, <1>1, RunnerMoves
  <1>3. profile' \in [Profiles -> Rows] /\ Templates'
    <2>1. CASE written
      <3>1. PICK status \in {"building", "testing", "failed"} : status = BuildStatus(k)
        BY DEF BuildStatus
      <3>2. WriteStatus(k, status)
        BY Zenon, <2>1, <3>1 DEF SettleProfile
      <3> QED BY Zenon, <1>u, <1>1, <3>2, StatusWritten
    <2>2. CASE ~written
      <3>1. profile' = profile
        BY Zenon, <2>2 DEF SettleProfile
      <3> QED BY Zenon, <1>u, <3>1, TemplatesKept DEF TemplatesStay, BuildInv, BuildTypes
    <2> QED BY Zenon, <2>1, <2>2
  <1>4. RunOK(k)'
    BY Zenon, <1>u, <1>2 DEF RunOK, BuildInv, Runs
  <1>5. Runs' /\ Owners'
    BY Zenon, <1>u, <1>1, <1>2, <1>4, RunsMove, RunnerOwns DEF TemplatesStay
  <1>6. Machines' /\ OneActive'
    <2>1. \A j \in Keys, v \in VMIDs : Reserves(j, v) => Reserves(j, v)'
      BY Zenon, <1>u DEF Reserves, Active
    <2>2. OneActive'
      BY Zenon, <1>u DEF BuildInv, OneActive, Active
    <2> QED BY Zenon, <1>u, <1>2, <2>1, <2>2, MachinesKept
  <1>7. faults' \in 0..MaxFaults
    BY Zenon, <1>u, TriedOnce
  <1> QED BY Zenon, <1>u, <1>2, <1>3, <1>5, <1>6, <1>7 DEF BuildInv, BuildTypes

-----------------------------------------------------------------------------
(* updateImageProfile                                                      *)

\* An edit moves on with a row that is good, or ends.
LEMMA EditorMoves ==
  ASSUME BuildInv, NEW e \in Editors, NEW n \in Edits, editor' = [editor EXCEPT ![e] = n],
         UNCHANGED <<profile, job, vm, handler, runner, inventory, faults>>,
         n.phase # "idle" => n.profile \in Profiles,
         n.phase = "validating" => n.row.vmid \in VMIDs,
         n.phase = "writing" /\ n.row.status = "ready" => IsTemplate(n.row.vmid)
  PROVE  BuildInv'
  <1>1. editor' \in [Editors -> Edits] /\ editor'[e] = n /\ \A d \in Editors : d # e => editor'[d] = editor[d]
    BY Zenon DEF BuildInv, BuildTypes
  <1>2. \A v : IsTemplate(v)' <=> IsTemplate(v)
    BY Zenon DEF IsTemplate
  <1>3. \A p \in Profiles : profile'[p].status = "ready" => IsTemplate(profile'[p].vmid)
    BY Zenon DEF BuildInv, Templates
  <1>4. \A d \in Editors :
          /\ editor'[d].phase # "idle" => editor'[d].profile \in Profiles
          /\ editor'[d].phase = "validating" => editor'[d].row.vmid \in VMIDs
          /\ editor'[d].phase = "writing" /\ editor'[d].row.status = "ready" => IsTemplate(editor'[d].row.vmid)
    BY Zenon, <1>1 DEF BuildInv, Templates
  <1>5. Templates'
    BY Zenon, <1>2, <1>3, <1>4 DEF Templates
  <1> QED BY Zenon, <1>1, <1>5, BuildsKept, OwnersKept DEF BuildInv, BuildTypes

LEMMA IdleEdit == IdleEditor \in Edits /\ IdleEditor.phase = "idle" /\ IdleEditor.phase # "validating" /\ IdleEditor.phase # "writing"
  BY DEF IdleEditor, Edits, Rows, Statuses

\* A row that is not looked up is the one that was read, or is not ready.
LEMMA UpdateImageProfileKeeps ==
  ASSUME BuildInv, NEW e \in Editors, NEW p \in Profiles, NEW status \in EditedStatus \cup {None},
         NEW v \in VMIDs \cup {None}, UpdateImageProfile(e, p, status, v)
  PROVE  BuildInv'
  <1>1. profile[p] \in Rows
    BY Zenon DEF BuildInv, BuildTypes
  <1>2. PICK row : row = Applied(profile[p], status, v)
    OBVIOUS
  <1>3. PICK phase \in {"validating", "writing"} : phase = IF ValidatesTemplate(row, status, v) THEN "validating" ELSE "writing"
    BY Zenon
  <1>4. /\ editor' = [editor EXCEPT ![e] = [phase |-> phase, profile |-> p, row |-> row]] /\ ValidImageProfile(row)
        /\ UNCHANGED <<profile, job, vm, handler, runner, inventory, faults>>
    BY Zenon, <1>2, <1>3 DEF UpdateImageProfile
  <1>5. row.status \in Statuses /\ (row.status = "ready" => row.vmid # None)
    BY Zenon, <1>4 DEF ValidImageProfile
  <1>6. row = [status |-> IF status = None THEN profile[p].status ELSE status,
               vmid |-> IF v = None THEN profile[p].vmid ELSE v]
    BY Zenon, <1>2 DEF Applied
  <1>7. row \in Rows
    <2>1. PICK s : s = IF status = None THEN profile[p].status ELSE status
      OBVIOUS
    <2>2. PICK x \in VMIDs \cup {None} : x = IF v = None THEN profile[p].vmid ELSE v
      BY <1>1 DEF Rows
    <2>3. row = [status |-> s, vmid |-> x]
      BY Zenon, <1>6, <2>1, <2>2
    <2> QED BY <1>5, <2>3 DEF Rows
  <1>8. PICK n : n = [phase |-> phase, profile |-> p, row |-> row]
    BY Zenon
  <1>9. n \in Edits /\ n.phase = phase /\ n.profile = p /\ n.row = row
    BY <1>7, <1>8 DEF Edits
  <1>10. phase = "validating" => row.vmid \in VMIDs
    <2>1. phase = "validating" => row.status = "ready"
      BY <1>3 DEF ValidatesTemplate
    <2>2. row.vmid \in VMIDs \cup {None}
      BY <1>7 DEF Rows
    <2> QED BY <1>5, <2>1, <2>2
  <1>11. phase = "writing" /\ row.status = "ready" => IsTemplate(row.vmid)
    <2> SUFFICES ASSUME phase = "writing", row.status = "ready" PROVE IsTemplate(row.vmid)
      OBVIOUS
    <2>1. status = None /\ v = None
      BY <1>3 DEF ValidatesTemplate
    <2>2. row.status = profile[p].status /\ row.vmid = profile[p].vmid
      BY <1>6, <2>1
    <2> QED BY Zenon, <2>2 DEF BuildInv, Templates
  <1> QED BY Zenon, <1>4, <1>8, <1>9, <1>10, <1>11, EditorMoves

LEMMA ValidateTemplateKeeps ==
  ASSUME BuildInv, NEW e \in Editors, ValidateImageTemplateInventory(e)
  PROVE  BuildInv'
  <1>u. UNCHANGED <<profile, job, vm, handler, runner, inventory, faults>> /\ editor[e].phase = "validating"
        /\ editor[e].phase # "idle"
    BY DEF ValidateImageTemplateInventory
  <1>1. CASE vm[editor[e].row.vmid] = "template"
    <2>1. editor[e] \in Edits /\ editor[e].profile \in Profiles /\ editor[e].row.vmid \in VMIDs
      BY Zenon, <1>u DEF BuildInv, BuildTypes, Templates
    <2>2. PICK n : n = [editor[e] EXCEPT !.phase = "writing"]
      BY Zenon
    <2>3. editor' = [editor EXCEPT ![e] = n]
      BY Zenon, <1>1, <2>2 DEF ValidateImageTemplateInventory
    <2>4. n \in Edits /\ n.phase # "validating" /\ n.profile = editor[e].profile /\ n.row = editor[e].row
      BY <2>1, <2>2 DEF Edits
    <2>5. IsTemplate(editor[e].row.vmid)
      BY Zenon, <1>1, <2>1 DEF IsTemplate
    <2> QED BY Zenon, <1>u, <2>1, <2>3, <2>4, <2>5, EditorMoves
  <1>2. CASE vm[editor[e].row.vmid] # "template"
    BY Zenon, <1>u, <1>2, IdleEdit, EditorMoves DEF ValidateImageTemplateInventory
  <1> QED BY Zenon, <1>1, <1>2

LEMMA WriteProfileKeeps ==
  ASSUME BuildInv, NEW e \in Editors, WriteProfile(e)
  PROVE  BuildInv'
  <1>u. UNCHANGED <<job, vm, handler, runner, inventory, faults>> /\ editor[e].phase = "writing" /\ editor[e].phase # "idle"
    BY DEF WriteProfile
  <1>1. PICK row \in Rows : row = editor[e].row
    BY DEF BuildInv, BuildTypes, Edits
  <1>2. PICK p \in Profiles : p = editor[e].profile
    BY Zenon, <1>u DEF BuildInv, Templates
  <1>3. row.status = "ready" => IsTemplate(row.vmid)
    BY Zenon, <1>u, <1>1 DEF BuildInv, Templates
  <1>4. profile' \in [Profiles -> Rows] /\ profile'[p] = row /\ \A q \in Profiles : q # p => profile'[q] = profile[q]
    BY Zenon, <1>1, <1>2 DEF WriteProfile, BuildInv, BuildTypes
  <1>5. editor' \in [Editors -> Edits] /\ editor'[e] = IdleEditor /\ \A d \in Editors : d # e => editor'[d] = editor[d]
    BY Zenon, IdleEdit DEF WriteProfile, BuildInv, BuildTypes
  <1>6. Templates'
    <2>1. \A v : IsTemplate(v)' <=> IsTemplate(v)
      BY Zenon, <1>u DEF IsTemplate
    <2>2. \A q \in Profiles : profile'[q].status = "ready" => IsTemplate(profile'[q].vmid)
      BY Zenon, <1>3, <1>4 DEF BuildInv, Templates
    <2>3. \A d \in Editors :
            /\ editor'[d].phase # "idle" => editor'[d].profile \in Profiles
            /\ editor'[d].phase = "validating" => editor'[d].row.vmid \in VMIDs
            /\ editor'[d].phase = "writing" /\ editor'[d].row.status = "ready" => IsTemplate(editor'[d].row.vmid)
      BY Zenon, <1>5, IdleEdit DEF BuildInv, Templates
    <2> QED BY Zenon, <2>1, <2>2, <2>3 DEF Templates
  <1> QED BY Zenon, <1>u, <1>4, <1>5, <1>6, BuildsKept, OwnersKept DEF BuildInv, BuildTypes

-----------------------------------------------------------------------------
(* The inventory, the cluster and a crash                                  *)

LEMMA ClusterKeeps ==
  ASSUME BuildInv, NEW v \in VMIDs, DesktopAppears(v) \/ Removed(v) \/ OrphanConverts(v)
  PROVE  BuildInv'
  <1>u. UNCHANGED <<profile, job, handler, editor, runner, inventory, faults>>
    BY Zenon DEF DesktopAppears, Removed, OrphanConverts
  <1>1. PICK x \in {None, "desktop", "template"} : vm' = [vm EXCEPT ![v] = x]
    BY DEF DesktopAppears, Removed, OrphanConverts
  <1>2. vm[v] # "template" /\ vm[v] # "building" /\ x # "building" /\ x # "leftover"
    BY <1>1, Constants DEF DesktopAppears, Removed, OrphanConverts
  <1>3. /\ vm' \in [VMIDs -> {None, "desktop", "building", "leftover", "template"}] /\ vm'[v] = x
        /\ \A u \in VMIDs : u # v => vm'[u] = vm[u]
    <2>1. x \in {None, "desktop", "building", "leftover", "template"}
      BY <1>1
    <2> QED BY Zenon, <1>1, <2>1 DEF BuildInv, BuildTypes
  <1>4. TemplatesStay
    BY Zenon, <1>2, <1>3 DEF TemplatesStay
  <1>5. \A k \in Keys : RunOK(k)'
    <2>1. ASSUME NEW k \in Keys PROVE RunOK(k)'
      <3>1. RunOK(k) /\ (Building(k)' <=> Building(k))
        BY Zenon, <1>u DEF BuildInv, Runs, RunOK, Building
      <3>2. runner[k] = "succeeded" \/ job[k].state = "succeeded" => job[k].vmid \in VMIDs
        <4>1. runner[k] = "succeeded" => runner[k] # None
          BY Zenon, Constants
        <4>2. job[k].state = "succeeded" => job[k].state # None
          BY Zenon, Constants
        <4> QED BY Zenon, <4>1, <4>2, RunnerJob, MadeJob DEF BuildInv
      <3>3. runner[k] = "succeeded" \/ job[k].state = "succeeded" => vm'[job[k].vmid] = "template"
        BY Zenon, <1>4, <3>1, <3>2 DEF RunOK, TemplatesStay
      <3> QED BY Zenon, <1>u, <3>1, <3>3 DEF RunOK
    <2> QED BY Zenon, <2>1
  <1>6. Machines'
    <2>1. ASSUME NEW k \in Keys, runner'[k] = "building" PROVE vm'[job'[k].vmid] = "building"
      <3>1. runner[k] = "building" /\ runner[k] # None
        BY Zenon, <1>u, <2>1, Constants
      <3>2. job[k].vmid \in VMIDs /\ vm[job[k].vmid] = "building"
        BY Zenon, <3>1, RunnerJob DEF BuildInv, Machines
      <3> QED BY Zenon, <1>u, <1>2, <1>3, <3>2
    <2>2. \A k \in Keys, u \in VMIDs : (Makes(k, u)' <=> Makes(k, u)) /\ (Reserves(k, u)' <=> Reserves(k, u))
      BY Zenon, <1>u DEF Makes, Reserves, Active
    <2>3. \A u \in VMIDs : vm'[u] \in {"building", "leftover"} => vm'[u] = vm[u]
      BY <1>2, <1>3
    <2>4. \A u \in VMIDs, j, k \in Keys : Makes(j, u)' /\ Makes(k, u)' => j = k
      BY Zenon, <2>2 DEF BuildInv, Machines
    <2>5. ASSUME NEW u \in VMIDs, vm'[u] = "building" PROVE \E k \in Keys : Makes(k, u)'
      BY Zenon, <2>2, <2>3, <2>5 DEF BuildInv, Machines
    <2>6. ASSUME NEW u \in VMIDs, vm'[u] = "leftover" PROVE \E k \in Keys : Reserves(k, u)'
      BY Zenon, <2>2, <2>3, <2>6 DEF BuildInv, Machines
    <2> QED BY Zenon, <2>1, <2>4, <2>5, <2>6 DEF Machines
  <1>7. Runs' /\ OneActive'
    BY Zenon, <1>u, <1>5 DEF Runs, RunOK, BuildInv, OneActive, Active
  <1> QED BY Zenon, <1>u, <1>3, <1>4, <1>6, <1>7, OwnersKept, TemplatesKept DEF BuildInv, BuildTypes

\* What Packer was building is left behind; its job stays active.
LEMMA CrashKeeps ==
  ASSUME BuildInv, Crash
  PROVE  BuildInv'
  <1>u. UNCHANGED <<profile, job>> /\ inventory' = None
    BY Zenon DEF Crash
  <1>f. faults' \in 0..MaxFaults
    BY ImageAssumption DEF Crash, BuildInv, BuildTypes
  <1>1. handler' \in [Handlers -> Requests] /\ \A h \in Handlers : handler'[h].phase = "idle" /\ ~Owns(h)'
    <2>1. \A h \in Handlers : handler'[h] = IdleHandler
      BY Zenon DEF Crash
    <2>2. handler' \in [Handlers -> Requests]
      BY Zenon, IdleRequest DEF Crash
    <2> QED BY Zenon, <2>1, <2>2, IdleRequest DEF Owns
  <1>2. editor' \in [Editors -> Edits] /\ \A e \in Editors : editor'[e] = IdleEditor
    BY Zenon, IdleEdit DEF Crash
  <1>3. \A k \in Keys : runner'[k] = None
    BY Zenon DEF Crash
  <1>4. runner' \in [Keys -> {None, "starting", "building", "succeeded", "failed", "testing", "broken"}]
    BY DEF Crash
  <1>5. /\ vm' \in [VMIDs -> {None, "desktop", "building", "leftover", "template"}]
        /\ \A v \in VMIDs : vm'[v] = IF vm[v] = "building" THEN "leftover" ELSE vm[v]
    BY DEF Crash, BuildInv, BuildTypes
  <1>6. TemplatesStay
    BY <1>5 DEF TemplatesStay
  <1>7. Owners'
    BY Zenon, <1>1 DEF Owners
  <1>8. Runs'
    <2>1. ASSUME NEW k \in Keys PROVE RunOK(k)'
      <3>1. ~Building(k)' /\ runner'[k] # "succeeded" /\ runner'[k] = None
        BY <1>3, Constants DEF Building
      <3>2. job[k].state = "succeeded" => vm'[job[k].vmid] = "template"
        <4>1. job[k].state = "succeeded" => job[k].state # None
          BY Zenon, Constants
        <4> QED BY Zenon, <1>6, <4>1, MadeJob DEF BuildInv, Runs, TemplatesStay
      <3> QED BY Zenon, <1>u, <3>1, <3>2 DEF RunOK
    <2> QED BY Zenon, <2>1 DEF Runs, RunOK
  <1>9. Machines'
    <2>1. \A k \in Keys : runner'[k] # "building"
      BY Zenon, <1>3, Constants
    <2>2. \A v \in VMIDs : vm'[v] # "building"
      BY <1>5
    <2>3. ASSUME NEW v \in VMIDs, vm'[v] = "leftover" PROVE \E k \in Keys : Reserves(k, v)'
      <3>1. \A k \in Keys : Reserves(k, v) => Reserves(k, v)'
        BY Zenon, <1>u DEF Reserves, Active
      <3>2. CASE vm[v] = "building"
        <4>1. PICK k \in Keys : Makes(k, v)
          BY Zenon, <3>2 DEF BuildInv, Machines
        <4>2. runner[k] = "building" /\ Building(k) /\ job[k].vmid = v
          BY <4>1 DEF Makes, Building
        <4>3. job[k].state = "running"
          BY Zenon, <4>2 DEF BuildInv, Runs
        <4>4. Reserves(k, v)
          BY <4>2, <4>3 DEF Reserves, Active
        <4> QED BY Zenon, <3>1, <4>4
      <3>3. CASE vm[v] # "building"
        <4>1. vm[v] = "leftover"
          BY Zenon, <1>5, <2>3, <3>3
        <4> QED BY Zenon, <3>1, <4>1 DEF BuildInv, Machines
      <3> QED BY Zenon, <3>2, <3>3
    <2> QED BY Zenon, <2>1, <2>2, <2>3 DEF Machines, Makes
  <1>10. Templates'
    <2>1. \A v : IsTemplate(v) => IsTemplate(v)'
      BY Zenon, <1>6 DEF IsTemplate, TemplatesStay
    <2>2. \A p \in Profiles : profile'[p].status = "ready" => IsTemplate(profile[p].vmid)'
      BY Zenon, <1>u, <2>1 DEF BuildInv, Templates
    <2> QED BY Zenon, <1>2, <2>2, IdleEdit DEF Templates
  <1>11. OneActive'
    BY Zenon, <1>u DEF BuildInv, OneActive, Active
  <1>12. inventory' \in (SUBSET VMIDs) \cup {None}
    BY <1>u
  <1> QED BY Zenon, <1>u, <1>f, <1>1, <1>2, <1>4, <1>5, <1>7, <1>8, <1>9, <1>10, <1>11, <1>12 DEF BuildInv, BuildTypes

LEMMA InventoryKeeps ==
  ASSUME BuildInv, Summary \/ DesktopInventory
  PROVE  BuildInv'
  <1>1. UNCHANGED <<profile, job, vm, handler, editor, runner, faults>>
    BY Zenon DEF Summary, DesktopInventory
  <1>2. inventory' \in (SUBSET VMIDs) \cup {None}
    BY DEF Summary, DesktopInventory, LooksManaged
  <1>3. Templates'
    BY Zenon, <1>1, TemplatesKept DEF TemplatesStay
  <1> QED BY Zenon, <1>1, <1>2, <1>3, BuildsKept, OwnersKept DEF BuildInv, BuildTypes

-----------------------------------------------------------------------------
(* The invariant and the theorems                                          *)

LEMMA InitBuild == Init => BuildInv
  <1> SUFFICES ASSUME Init PROVE BuildInv
    OBVIOUS
  <1>1. [status |-> "draft", vmid |-> None] \in Rows
    BY DEF Rows, Statuses
  <1>2. BuildTypes
    <2>1. profile \in [Profiles -> Rows] /\ handler \in [Handlers -> Requests] /\ editor \in [Editors -> Edits]
      BY Zenon, <1>1, IdleRequest, IdleEdit DEF Init
    <2>2. job \in [Keys -> Jobs \cup {NoJob}]
      BY DEF Init
    <2>3. /\ vm \in [VMIDs -> {None, "desktop", "building", "leftover", "template"}]
          /\ runner \in [Keys -> {None, "starting", "building", "succeeded", "failed", "testing", "broken"}]
          /\ inventory \in (SUBSET VMIDs) \cup {None}
      BY DEF Init
    <2>4. faults \in 0..MaxFaults
      BY ImageAssumption DEF Init
    <2> QED BY Zenon, <2>1, <2>2, <2>3, <2>4 DEF BuildTypes
  <1>3. Owners
    <2>1. \A h \in Handlers : handler[h].phase = "idle" /\ ~Owns(h)
      BY DEF Init, IdleHandler, Owns
    <2> QED BY Zenon, <2>1 DEF Owners
  <1>4. \A k \in Keys : job[k].state = None /\ runner[k] = None
    BY DEF Init, NoJob
  <1>5. \A k \in Keys : ~Active(k) /\ ~Building(k) /\ job[k].state # "succeeded"
                        /\ runner[k] # "succeeded" /\ runner[k] # "building"
    BY <1>4, Constants DEF Active, Building
  <1>6. Runs /\ OneActive
    BY Zenon, <1>4, <1>5 DEF Runs, OneActive
  <1>7. Machines
    <2>1. \A v \in VMIDs : vm[v] # "building" /\ vm[v] # "leftover"
      BY Constants DEF Init
    <2> QED BY Zenon, <1>5, <2>1 DEF Machines, Makes
  <1>8. Templates
    <2>1. \A p \in Profiles : profile[p].status # "ready"
      BY DEF Init
    <2>2. \A e \in Editors : editor[e] = IdleEditor
      BY Zenon DEF Init
    <2> QED BY Zenon, <2>1, <2>2, IdleEdit DEF Templates
  <1> QED BY Zenon, <1>2, <1>3, <1>6, <1>7, <1>8 DEF BuildInv

LEMMA StepBuild == BuildInv /\ [Next]_vars => BuildInv'
  <1> SUFFICES ASSUME BuildInv, [Next]_vars PROVE BuildInv'
    OBVIOUS
  <1>1. CASE UNCHANGED vars
    <2>1. UNCHANGED <<profile, job, vm, handler, editor, runner, inventory, faults>>
      BY Zenon, <1>1 DEF vars
    <2>2. Templates'
      BY Zenon, <2>1, TemplatesKept DEF TemplatesStay
    <2> QED BY Zenon, <2>1, <2>2, BuildsKept, OwnersKept DEF BuildInv, BuildTypes
  <1>2. ASSUME NEW h \in Handlers,
               \/ \E k \in Keys, p \in Profiles, v \in VMIDs \cup {None} : StartImageBuild(h, k, p, v)
               \/ HandlerStep(h)
        PROVE  BuildInv'
    BY Zenon, <1>2, BeforeTheJob, CreateJobKeeps, MarkRunningKeeps, MarkBuildingKeeps DEF HandlerStep
  <1>3. ASSUME NEW h \in Handlers, NEW recorded \in BOOLEAN, RequestFails(h, recorded) PROVE BuildInv'
    BY Zenon, <1>3, RequestFailsKeeps
  <1>4. ASSUME NEW k \in Keys, RunnerStep(k) \/ Progress(k) PROVE BuildInv'
    BY Zenon, <1>4, PackerKeeps, SettleJobKeeps, SettleProfileKeeps, ProgressKeeps DEF RunnerStep, Settles
  <1>5. ASSUME NEW e \in Editors, NEW p \in Profiles, NEW status \in EditedStatus \cup {None}, NEW v \in VMIDs \cup {None},
               UpdateImageProfile(e, p, status, v)
        PROVE  BuildInv'
    BY Zenon, <1>5, UpdateImageProfileKeeps
  <1>6. ASSUME NEW e \in Editors, ValidateImageTemplateInventory(e) \/ WriteProfile(e) PROVE BuildInv'
    BY Zenon, <1>6, ValidateTemplateKeeps, WriteProfileKeeps
  <1>7. ASSUME NEW v \in VMIDs, DesktopAppears(v) \/ Removed(v) \/ OrphanConverts(v) PROVE BuildInv'
    BY Zenon, <1>7, ClusterKeeps
  <1>8. ASSUME Summary \/ DesktopInventory \/ Crash PROVE BuildInv'
    BY Zenon, <1>8, InventoryKeeps, CrashKeeps
  <1> QED BY Zenon, <1>1, <1>2, <1>3, <1>4, <1>5, <1>6, <1>7, <1>8 DEF Next

\* A job belongs to the request that made it, then to its goroutine, and at
\* most one of a profile is active; what Packer made stays reserved, and ready
\* rows name templates: the invariant behind startImageBuild, runImageBuild,
\* updateImageProfile and desktopInventory.
THEOREM BuildInvariant == Spec => []BuildInv
  BY InitBuild, StepBuild, PTL DEF Spec

\* Rows, jobs and VMs hold values of their columns, runImageBuild runs only
\* for a job, and Packer's VM is there while it builds.
THEOREM TypeCorrect == Spec => []TypeOK
  <1>1. BuildInv => TypeOK
    <2> SUFFICES ASSUME BuildInv PROVE TypeOK
      OBVIOUS
    <2>1. \A k \in Keys : runner[k] # None => job[k] # NoJob
      BY Zenon, NoJobFacts DEF BuildInv, Runs
    <2>2. \A k \in Keys : runner[k] = "building" => vm[job[k].vmid] = "building"
      BY Zenon DEF BuildInv, Machines
    <2>3. BuildTypes
      BY Zenon DEF BuildInv
    <2> QED BY Zenon, <2>1, <2>2, <2>3 DEF BuildTypes, Jobs, Requests, Edits, TypeOK
  <1> QED BY <1>1, BuildInvariant, PTL

\* startImageBuild lets at most one build of a profile run Packer, and its
\* job is the running one, for any number of requests, keys and crashes.
THEOREM OneBuildPerProfileAlways == Spec => []OneBuildPerProfile
  <1>1. BuildInv => OneBuildPerProfile
    <2> SUFFICES ASSUME BuildInv PROVE OneBuildPerProfile
      OBVIOUS
    <2>1. \A k \in Keys : Building(k) => job[k].state = "running"
      BY Zenon DEF BuildInv, Runs
    <2>2. \A k \in Keys : Building(k) => Active(k)
      BY <2>1 DEF Active
    <2> QED BY Zenon, <2>1, <2>2 DEF BuildInv, OneActive, OneBuildPerProfile
  <1> QED BY <1>1, BuildInvariant, PTL

\* A ready profile names a template, however updateImageProfile's check and
\* its write interleave with builds and other edits.
THEOREM ReadyIsTemplateAlways == Spec => []ReadyIsTemplate
  <1>1. BuildInv => ReadyIsTemplate
    BY Zenon, Constants DEF BuildInv, Templates, IsTemplate, ReadyIsTemplate
  <1> QED BY <1>1, BuildInvariant, PTL

\* desktopInventory never lists the VM of an unfinished or failed build,
\* whenever it read the cluster and whatever crashed meanwhile.
THEOREM CandidatesAreExcludedAlways == Spec => []CandidatesAreExcluded
  <1>1. BuildInv => CandidatesAreExcluded
    <2> SUFFICES ASSUME BuildInv, inventory # None, NEW v \in Managed, vm[v] \in {"building", "leftover"} PROVE FALSE
      BY Zenon DEF CandidatesAreExcluded
    <2>1. v \in VMIDs /\ v \notin ImageReservedVMIDs
      BY DEF Managed, BuildInv, BuildTypes
    <2>2. PICK k \in Keys : Reserves(k, v)
      <3>1. CASE vm[v] = "leftover"
        BY Zenon, <2>1, <3>1 DEF BuildInv, Machines
      <3>2. CASE vm[v] = "building"
        <4>1. PICK k \in Keys : Makes(k, v)
          BY Zenon, <2>1, <3>2 DEF BuildInv, Machines
        <4>2. runner[k] = "building" /\ Building(k) /\ job[k].vmid = v
          BY <4>1 DEF Makes, Building
        <4>3. job[k].state = "running"
          BY Zenon, <4>2 DEF BuildInv, Runs
        <4> QED BY <4>2, <4>3 DEF Reserves, Active
      <3> QED BY Zenon, <3>1, <3>2
    <2>3. v \in ImageReservedVMIDs
      BY <2>2 DEF Reserves, ImageReservedVMIDs
    <2> QED BY Zenon, <2>1, <2>3
  <1> QED BY <1>1, BuildInvariant, PTL

=============================================================================
