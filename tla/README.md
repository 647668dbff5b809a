# VC Workspace: a TLA+ model

VC Workspace is a broker for virtual desktops on Proxmox VE. A Go control plane
keeps its state in PostgreSQL and lends each desktop either to a person (through
RDP, with a one-time password) or to an AI Agent (through leased input
authority). A Rust agent inside every desktop, the *Guest*, creates accounts,
opens and closes logins, and obeys the authority it was last given. The two
sides talk through QEMU guest-agent commands that can be late or lost, can die
halfway, and can outlive the request that sent them.

The core question of the system is whether the database and the Guest can drift
apart in a dangerous direction: a password that works although the store calls it
revoked, two people or a person and an Agent controlling one desktop, a clean-up
that harms the next tenant, a clean-up that never finishes. `DesktopControl` and
the modules under it answer it. Around it stand the parts that decide who gets a
desktop and how: accounts and sign-in, entitlements, policies, the session
gateway, cloning, image builds and the headless RDP transport, with a module each.

## Parts of the system

| Part | Where | Modelled |
|---|---|---|
| Native account intents, connections, identity revocation queue | `internal/store`, migrations 022, 028, 030 | `NativeAccounts`, `DesktopControl` |
| Agent leases, Guest sessions, computer revocation queue | `internal/store`, migrations 024, 025, 027 | `AgentSessions`, `DesktopControl` |
| Guest lifecycle planners | `crates/guest-lifecycle` | `GuestFences` |
| Linux accounts, PAM registration, reconciler, input authority | `crates/guest-agent` | `NativeAccounts`, `AgentSessions` |
| Revocation worker, receipts and inspections | `internal/httpapi`, `internal/computer` | `NativeAccounts`, `AgentSessions` |
| Session gateway: tickets, leases, relay, transport, drain | `internal/gateway`, `store/gateway_ticket.go` | `Gateway`, `GatewayPromise` |
| Cloning: reservation, task handle, watchers, recovery | `store/clone_*.go`, `httpapi/clone_*.go`, `httpapi/server.go` | `Cloning` |
| Setup, sign-in, single sign-on, one-time codes, sessions | `oidcauth`, `store/session_issuance.go`, `store/store.go` | `SignIn` |
| Groups, assignments, modes, discovery, connections, leases | `store/store.go`, `store/access_transaction.go` | `Access` |
| Desktop access policies and the per-desktop lock | `httpapi/server.go`, `store/store.go` | `AccessPolicy` |
| Image builds, image profiles, classification of the inventory | `httpapi/server.go`, `store/image_inventory.go` | `ImageBuilds` |
| Headless RDP transport | `internal/rdpsession` | `RdpSession` |
| Recovery of a native account by an administrator | `httpapi/native_recovery.go` | no (see the end) |
| Windows session service | `crates/windows-session` | no (see the end) |
| PVE client, MCP server, Agent API, web, macOS client, Terraform, deployment | | no: I/O, forwarding or user interface |

`PROJECT.json` lists all parts with their files, the hazards of the code with
the properties that cover them, and the source lines of every definition.

## Modules

- `GuestFences` — the two planners of `guest-lifecycle`: given the durable fence
  of an account and a request, is the request refused or accepted, and which
  pending and completed fence does it leave. Pure operators.
- `Desktop` — the state of one desktop: rows, Guest records, OS accounts, and the
  commands in between, with their types and initial values.
- `NativeAccounts` — people. Store transactions (begin, dispatch, complete an
  intent; retire and revoke; expiry and logout; the identity revocation queue)
  and the Guest's side (accept, finish, interrupt, reconcile at a deadline).
- `AgentSessions` — Agents. Leases and control epochs, session rows and login
  generations, the computer revocation worker, and the Guest's side with PAM
  registration and the authority snapshot.
- `DesktopControl` — the composition, access changes that touch both halves, the
  fairness, and the properties.
- `DesktopInvariant` — the inductive invariants: `NativeInv` for people,
  `AgentInv` and `ControlInv` for Agents, and `PersonExcludesAgents`, which ties
  the two halves together.
- `DesktopProofs` — the theorems about one desktop. Each transaction, each Guest
  step and each step of a worker has a lemma.
- `GatewayPromise` — what the gateway promises, without tickets, calls or relays.
- `Gateway` — tickets and leases in the store, the control calls with their lost
  and late answers, the transport's admission and drain, and the relays; with the
  refinement mapping onto `GatewayPromise`. `GatewayProofs` proves it.
- `Cloning` — a clone request, its job, the PVE task, `refreshPVEJob` step by step
  under the desktop lock, watchers, the maintenance scan, inspection and recovery.
  `CloningProofs` proves its safety.
- `SignIn` — accounts, the requests that verify them, and the rows they mint.
  `SignInProofs` proves its properties.
- `Access` — everything that grants or ends access to a desktop, and the sweep
  with which every such commit ends. `AccessProofs` proves its properties.
- `AccessPolicy` — desired and applied revisions, the commands to each account,
  and the desktop lock. `AccessPolicyProofs` proves its safety.
- `RdpSession` — `Start`, three goroutines, `Stop` and the worker.
  `RdpProofs` proves its safety.
- `ImageBuilds` — image profiles, build jobs, Packer runs, edits, and which
  machines the inventory calls desktops. `ImageBuildProofs` proves its safety.
- `MC*.tla` and `MC*.cfg` — small instances for TLC.

### State and the code: desktop control

A store transaction is one action, triggers included: the transactions that
matter serialise on one advisory lock (`beginAccessChange`). A Guest command is
three: it is dispatched (in the step that makes its intent durable), accepted
under the account's gate (the pending fence is persisted), and finished or
interrupted. Dispatched commands stay in `nSent`, `aSent` and `authSent` and can
be accepted at any later time; a command that is lost is one that never is. What
a worker has learnt of the Guest stays in `nSeen`, `idSeen`, `aSeen` and
`authSeen` and can be used at any later time, under whatever comparison the
store's transaction makes.

The callers are unconstrained: no action waits for the desktop lock, and the
order in which a handler makes its calls is not enforced, except within the
computer revocation worker. What is shown therefore holds for any number of
replicas, after crashes of the control plane between any two calls, and when the
advisory lock is lost with its database connection.

### State and the code: the other modules

A request that reads, works outside any transaction and writes later is a
`handler` with a phase and the values it read; every transaction and every
external call in between is one action, so other requests interleave at each of
them. A crash or a cut-off request is an action that drops the handler and leaves
the rows.

- `Gateway`. A tunnel is one socket, from `Transport`'s admission (`Admit`) over
  the first frame (`Serve`), the redemption, the dial and the copying to the
  clean-up (`Finish`, `CloseAnswered`, `Return`). `call[t]` is its control call:
  the store executes it or refuses it whether or not the tunnel still waits, and
  an answer may be late or lost. Time is a counter. The relay counts a lease from
  before it sent the request, as the code does (`GrantEnd`). `lost` is history:
  when the authority behind a connection ended for good.
- `Cloning`. `hand[r]` is a request and `work[w]` a refresh; PVE tasks and
  machines are external, a foreign machine may take or replace a VMID at any
  time, and `touched` remembers that one did while a refresh was under way.
- `SignIn`. A password is the number of its hash. A session keeps, as history,
  the hash that was proved when it was minted.
- `Access`. Each operation's transaction is one action that ends in the sweep
  of `commitAccessChange`. Preparing a connection and inserting it are two steps.
  The bindings that the same commits disable are in `NativeAccounts`. The fence
  that keeps a cloned desktop closed opens when its job succeeds and closes again
  when the clone call fails after all (`UpdateJobTask`), which is no access change.
- `AccessPolicy`. A command that timed out may take effect later (`stray`); a
  target it reaches is then `superseded`.
- `RdpSession`. The worker is a process that may write any lines, exit at any
  time and leave descriptors with another process.
- `ImageBuilds`. Packer's run is a `runner`; it may fail leaving nothing, a
  left-over machine or a finished template. The goroutine then tries to write the
  job and the profile once each, and either write may fail. Templates are
  assumed not to be removed from the cluster behind the program.

### Abstractions

- Outside `Gateway`, deadlines are events: a connection or lease is at some moment `expired`.
- A row that does not exist has version 0 and state `none`.
- Binding states `provisioning` and `ready` are one, since no guard here tells
  them apart; so are the closed states of a lease, and those of a connection.
- An OS account is two Booleans: a login is possible; processes exist.
- Passwords, account names and the parsing of replies are left out. A reply is
  usable exactly when it reports the completed fence of the awaited version.
- The older `authority.json` that `revokeAllComputerAuthority` overwrites on Linux
  is left out: no session reads it, and its only effect on the modelled worker is
  that an attempt can fail. The counter it may create (`ComputerControlEpoch`)
  starts at the first lease here. Windows guests are left out.
- `MaxReq` bounds the identity revocations queued per user and `MaxLogin` the
  login generations in a lease. Connection and lease ids are never reused, so
  `Conns` and `Leases` bound how often the desktop changes hands.

## What is checked

| Run | Instance | Shows |
|---|---|---|
| `shared` | 2 users, 1 Agent, 2 connections, 1 lease, 1 worker; two tenants at most | `OneHumanCredential`, `CredentialIsReserved`, `OpenConnectionHasIntent`, `DesktopIsExclusive` |
| `person` | 1 user, 1 connection, 2 revocations | `RevokedMeansClosed`, `LostAccessIsPursued`, `AcknowledgedWhenClosed`, `IdentityRevocationConverges` |
| `agents` | 2 Agents, 2 leases, 1 worker | `OneAgentLogin`, `ClosedLeaseIsFenced`, `CleanupSparesNewerLease` |
| `agent_live` | 1 Agent, 1 lease, 2 logins, 2 workers | `DisabledSessionIsStopped`, `ComputerRevocationConverges` |
| `gateway` | 1 ticket, 2 sockets, 1 gateway with 1 slot, window 3, 5 ticks | `LostTunnelStops`, `CountsAgree`, the refinement `KeepsPromise`, `TunnelsEnd` |
| `clones` | 1 job, a request and its retry, 2 watchers, 2 faults, 1 foreign machine | `TypeOK`, `CloneOnce`, `SucceedsWhenConfigured`, `SettledIsFinal` |
| `clone_live` | 2 jobs, 1 watcher, 1 maintenance loop with pages of one | `FollowsOwnTask`, `PendingJobsSettle` |
| `sign_in` | 2 users, 1 subject, 4 requests, 3 hashes | `TypeOK`, `SessionsAreCurrent`, `GrantsAreUsedOnce`, `SoleAdministrator` |
| `access` | 2 users, 1 Agent, a local and a provider's group, 1 desktop | `ActiveIsEntitled`, `PersonalIsExclusive`, `MembershipsMirrorClaims` |
| `access_policy` | 2 requests, 1 account, 3 revisions, 1 lost lock | `AppliedIsEnforced`, `ApplicationEnds` |
| `rdp_session` | 2 owners, 3 lines, stdout and stderr may be retained | `NothingIsLeft`, `StartsWhole`, `TransportEnds` |
| `image_builds` | 1 profile, 1 VMID, 2 keys, 2 requests, 1 editor, 1 fault | `TypeOK`, `OneBuildPerProfile`, `ReadyIsTemplate`, `CandidatesAreExcluded`, `BuildsSettle` |

All pass. A run takes between a few seconds and about four minutes.

The bounds are chosen for the scenarios. In `shared` two connections of two users
give one person's abandoned commands a chance to arrive during the other's turn,
and the lease gives an Agent the same chance; the state space of both halves is
their product, so `TwoTenants` keeps to pairs of tenants (two people, or one
person and the Agent) and no identity revocation is queued (`MaxReq = 0`).
`person` withdraws access twice, so that the second withdrawal meets the queue
entry and the observations of the first. More connections than one would make
its liveness check too long; the safety properties in these
two runs are proved for any number. Two leases let the
clean-up of the first meet the second, and two workers let one act on what it
read before the other finished.

In the other modules two actors of each kind are the least that can race, and the
counters are one step longer than the longest exchange: five ticks let a lease of
three be granted, renewed and outlived; three hashes let an account be created,
reset and reset again; three revisions let a policy be overtaken twice. Handlers
and tunnels are used once, so their number bounds the length of a behaviour.
Faults (`MaxFaults`, `MaxForeign`) are counted, since each may strike at any
step. `clone_live` is free of faults because a job whose handle is lost waits for
an administrator, and one whose machine was replaced is never settled.

Safety runs use symmetry where it pays; those of `DesktopControl` also use a view
that drops overtaken commands and receipts: a command older than the fence is
refused by the planner for ever, and a receipt older than the store's version
fails every comparison. Deadlock checking is off because every id is used once,
so behaviours end.

### Properties

Control of a desktop (`DesktopControl`):

- `OneHumanCredential`: two people never have a live credential on one desktop.
- `CredentialIsReserved`: whatever password the Guest may accept is reserved in
  the store, so nobody else is let in beside it.
- `RevokedMeansClosed`: an acknowledged revocation is final: nothing open, and
  no command on its way can reopen it.
- `OpenConnectionHasIntent`: recovery walks intents, and so finds every
  connection.
- `LostAccessIsPursued`: somebody who lost access and still has a desktop is
  being revoked.
- `AcknowledgedWhenClosed`: acknowledging a revocation is true at that moment,
  even when the worker looked long ago.
- `OneAgentLogin`: at most one Agent has a login.
- `ClosedLeaseIsFenced`: input under a closed lease works only while a
  computer revocation is queued.
- `DisabledSessionIsStopped`: a disabled session has no login, and a late login
  command cannot bring one.
- `CleanupSparesNewerLease`: old clean-up never takes input from a newer lease.
- `DesktopIsExclusive`: a person's password and an Agent's input never work
  together.
- `IdentityRevocationConverges`, `ComputerRevocationConverges`: queued
  revocations are acknowledged in the end.

The gateway (`Gateway`):

- `LostTunnelStops`: a tunnel passes no byte later than one window after the
  authority behind it was lost, whatever calls and answers were under way.
- `KeepsPromise`: the gateway implements `GatewayPromise`: bytes only within
  grants, grants only with authority, a connection used by one tunnel at most.
- `CountsAgree`: slots and workers are counted alike on every path, so an
  admitted socket finds a slot and nothing runs after `Close` has returned.
- `TunnelsEnd`: every admitted socket ends, and every drain joins, although the
  control plane may never answer.

Cloning (`Cloning`):

- `CloneOnce`: PVE is asked to clone at most once for a job, and no two jobs
  share a target, through retries and crashes.
- `FollowsOwnTask`: a job only ever follows the task of its own clone.
- `SucceedsWhenConfigured`: a job succeeds only with its own machine registered,
  addressed and equipped, unless the machine was changed behind the program
  after the last look at it.
- `SettledIsFinal`: a settled job stays settled, with the one exception below.
- `PendingJobsSettle`: the maintenance loop alone settles every job whose task
  has stopped, however its watcher died and whichever other jobs are stuck.

People and access (`SignIn`, `Access`, `AccessPolicy`):

- `SessionsAreCurrent`: a live session stands for the account as it is now: it is
  enabled and has the password that was proved. A verification that a reset
  overtook leaves no session behind, nor does one that a disable overtook while
  the account is disabled. Enabling it again brings the old hash back, and with it
  a verification from before.
- `GrantsAreUsedOnce`: a single sign-on request and a native code are good for
  one session each.
- `SoleAdministrator`: concurrent setups make one administrator, and the last
  one is never disabled.
- `ActiveIsEntitled`: a connection or lease ends in the commit that takes away
  the last grant behind it, a preparation that was overtaken issues nothing, and
  nobody holds a clone that has never succeeded. A clone whose job was set back
  after it had is the exception described below.
- `PersonalIsExclusive`: only the owner of a personal desktop is granted it,
  through any sequence of modes.
- `MembershipsMirrorClaims`: memberships in the provider's groups are those of
  the last sign-in.
- `AppliedIsEnforced`: while no lock was lost, a policy recorded as applied is
  the one asked for and is enforced for the session and every usable account,
  except where a command that was given up on took effect later.
- `ApplicationEnds`: an application of a policy ends, and the request that saved
  the policy gives the desktop lock back. What it recorded is another matter: a
  newer revision may have overtaken it.

Transport and images (`RdpSession`, `ImageBuilds`):

- `NothingIsLeft`: after a failed `Start` or any returned `Stop` there is no
  process, goroutine, pipe or directory.
- `StartsWhole`: a session is handed out only with both receipts and no error.
- `TransportEnds`: a transport that is stopped, cancelled, expired or left by its
  worker ends with everything that waits for it, unless standard error is retained.
- `OneBuildPerProfile`: at most one build of a profile runs.
- `ReadyIsTemplate`: a ready profile names a template, whatever edits race.
- `CandidatesAreExcluded`: the machine of an unfinished or failed build is never
  listed as a desktop.
- `BuildsSettle`: an accepted build is settled, unless the process died, the
  request was cut off or the write that settles it failed.

The type invariants in `clones`, `sign_in` and `image_builds` also say which
requests and goroutines may exist beside which rows. Every module's type
invariant is proved as well.

### Fairness

Desktop control. `RunBackgroundMaintenance` retries every queued revocation every
minute on every replica: weak fairness of the recovery's own steps. A Guest
command runs under a deadline, so it ends, well or badly: weak fairness of the
two together. That a Guest is reachable again and again, and completes a command
again and again, is an assumption about the environment: strong fairness of
acceptance, completion and inspection. Workers abandon attempts (timeouts, lost
locks) as often as they like but not for ever; an attempt that has become
hopeless does fail. Nothing is assumed of people, Agents and deadlines.

- `Gateway`: goroutines run and the runtime's timers fire (weak fairness of the
  tunnel's own steps, its time-outs and the join). The control plane may never
  answer and a client may never send a byte.
- `Cloning`: a refresh goes on while its process lives and its calls have time
  limits (weak fairness); PostgreSQL queues those who wait for an advisory lock,
  so nobody is overtaken for ever (strong fairness of taking it); the loop starts
  again every five seconds. Nothing is assumed of requests or PVE.
- `AccessPolicy`: a command of an application has a time limit, so it succeeds or
  fails, and the outcome is then recorded (weak fairness of these two alone).
  Nothing is assumed of clients, of requests that wait for the lock, of a request
  that holds it for something else, or of late commands.
- `RdpSession`: goroutines are scheduled, timers fire and the kernel carries out a
  kill (weak fairness). Of the worker and of whoever holds its descriptors,
  nothing is assumed.
- `ImageBuilds`: handlers and build goroutines run, and a build has a time limit
  (weak fairness). Crashes, cut-off requests and failing writes are not fair.

## What is proved

Every safety invariant, every action property and the refinement in the table
above, for all finite or infinite sets of actors and all bounds. A theorem rests
on the named assumption of its module about the constants alone: placeholders
differ from ids and states, bounds are numbers, requests and handlers are
different things, jobs and VMIDs are numbers.

- `DesktopProofs`: `NativeInvariant`, and from it `OneHumanCredential`,
  `CredentialIsReserved`, `RevokedMeansClosed`, `OpenConnectionHasIntent`,
  `LostAccessIsPursued` and `AcknowledgedWhenClosed`; `ControlInvariant`, and from
  it `OneAgentLogin`, `ClosedLeaseIsFenced`, `DisabledSessionIsStopped` and
  `CleanupSparesNewerLease`; from both `PersonExcludesAgents` and
  `DesktopIsExclusive`; the types of the whole desktop;
- `AccessProofs`: `ActiveIsEntitled`, `PersonalIsExclusive`,
  `MembershipsMirrorClaims`, the types, and `DisabledGroupStays` (no sign-in
  opens a group that an administrator has disabled);
- `GatewayProofs`: `LostTunnelStops`, the refinement `KeepsPromise`,
  `CountsAgree` and the types;
- `CloningProofs`: `CloneOnce`, `FollowsOwnTask`, `SettledIsFinal`,
  `SucceedsWhenConfigured` and the types;
- `SignInProofs`: `SessionsAreCurrent`, `GrantsAreUsedOnce`, `SoleAdministrator`
  and the types;
- `ImageBuildProofs`: `OneBuildPerProfile`, `ReadyIsTemplate`,
  `CandidatesAreExcluded` and the types;
- `AccessPolicyProofs`: `AppliedIsEnforced`, the types, and `AppliedOnlyAdvances`
  (the applied revision never goes back, whatever locks were lost);
- `RdpProofs`: `NothingIsLeft`, `StartsWhole`, the types, `ReadyOnce` (readiness
  is announced once, after both receipts) and `ErrorIsFinal` (the first error is
  never replaced).

**People.** The store's revision orders everything. A fence, a command in
flight and a receipt are never ahead of the intent in the table, and one version
means one operation on one connection wherever it occurs (`CommandsOrdered`,
`FenceOrdered`). Hence a receipt of the current version still describes the Guest
(`ReceiptsValid`), since only a newer intent could have changed it.

- A settled retirement or revocation puts the fence beyond every earlier issue,
  which gives `CredentialIsReserved` and `RevokedMeansClosed`.
- `OneHumanCredential` is not inductive: an issue still in flight is as dangerous
  as one that has run. The strengthening, `OneCanHeat`, counts it; the store's
  refusal to begin an issue while another account is reserved keeps it.
- `Entitled` relates the binding, the access and the queue, and carries
  `LostAccessIsPursued`.
- `ObservationsValid` says that what was seen for the current request still
  holds, because a request is queued in the transaction that disables the
  binding, and a new credential needs the request acknowledged. It carries
  `AcknowledgedWhenClosed`.

**Agents.** Two numbers order everything: the control epoch orders leases and
sessions, and within an epoch the login generation orders commands. The session
row is never behind the Guest's fence, a command or a worker's list (`CommandOf`,
`AgentFenceOrdered`).

- `OneAgentLogin` is not inductive: a session that is still to be stopped may have
  a login. The strengthening, `OneEngaged`, counts it; a new session needs the
  queue empty, and the queue is only acknowledged when every session that was
  being revoked has been stopped. For that, a worker whose revision is still the
  newest must have all of them on its list (`SyncInv`).
- `DisabledSessionIsStopped` needs that the receipt of a stop still describes the
  Guest (`StopReceiptsValid`): the stop's generation is at least that of every
  login of its epoch, so nothing in flight passes the fence it leaves.
- `ClosedLeaseIsFenced` and `CleanupSparesNewerLease` rest on `AuthorityInv`: a
  snapshot with authority is of a lease that was granted, and a tombstone is never
  newer than the last closed epoch, which is older than the active lease.
- `NeverBoundIsEmpty` covers the one shortcut: a session whose account was never
  bound is disabled without a stop.

**People and Agents.** `DesktopIsExclusive` speaks of what works now.
`PersonExcludesAgents` counts what may yet work: from an issue under way on,
no session is engaged and every active lease has expired. The store's checks in
`BeginNativeGuestCredential` establish it; that an expired lease starts no session
keeps it.

**Access.** A commit keeps only connections and leases that are entitled after it,
whatever else the transaction did (`CommitEntitles`); the operations that do not
end in a commit take no grant away (`EntitlementKept`), and a clone is only reserved where no
desktop was known. The other properties are
inductive with the types.

**Gateway.** The relay's deadline never lies beyond the store's lease, because it
is counted from before the request was sent (`TunnelHolds`); the lease never lies
more than a window beyond the loss of authority, because no grant is made
after it (`LeaseHolds`). An answer under way carries the same bound, which is what
makes the invariant inductive. The refinement maps each step of tickets, calls and
relays to a step of the promise or to none, given that invariant. For
`CountsAgree` the counters are shown to be the sizes of two sets of tunnels
(`CountInv`): those whose handler has not returned, and those in the relay. The
second is part of the first, so the limit on workers bounds the slots.

**Cloning.** `CloneOnce` needs to know who may still submit: only the handler
that claimed the key, and only once (`Claims`). A handle kept anywhere, in a job,
a refresh or a recovery, is that of the job's own task (`Targets`, `Relies`).
`SucceedsWhenConfigured` needs what a refresh found several steps ago to hold
still. It does of a machine that carries the job's marker, because the task that
ended well is never run again; whether the machine was replaced since, `touched`
remembers (`Relies`). `JobSteps` lists every way in which a job changes, and
`SettledIsFinal` is read off it.

**Sign-in.** A grant is followed from its row to the one handler that consumed it
(`Spends`): while that handler may still make a session, the row is gone and no
other handler has the same source. `SessionsAreCurrent` is inductive once every
row and handler stands for an existing account (`Accounts`), and a change of
password keeps a session of the same account (`Sources`). A setup whose snapshot
was not overtaken has seen no administrator (`Administrators`).

**Image builds.** An accepted job belongs to the request that made it, then to its
goroutine, and after a crash to nobody; it stays active in each case, so no second
build is let in (`Owners`, `Runs`, `OneActive`). A machine that Packer made has a
job that keeps its VMID reserved until it is gone or a template (`Machines`). The
check of an edit may be old when the row is written; that a template stays one
makes it good enough (`Templates`).

**Policies.** While no lock was lost, the request that holds the lock is the only
one at work (`Alone`). `HandlerInv` says for each of its phases what it has
already written; when the record is made, that is everything bound. A late
command marks its target instead of making it bad (`EnforceGood`).

**RDP transport.** `NothingIsLeft` rests on the order of the waiting goroutine:
it removes and closes before it closes `done`, and everyone in `Stop` waits for
`done` (`Joined`). The reader is the only source of errors and records one
exactly as it ends (`Recorded`).

Only model-checked: the seven liveness properties (`IdentityRevocationConverges`,
`ComputerRevocationConverges`, `TunnelsEnd`, `PendingJobsSettle`,
`ApplicationEnds`, `TransportEnds`, `BuildsSettle`). Liveness under fairness is
out of the prover's reach.

## Where code and documents differ

The properties above are stated so that they hold of the code. In five places a
document or a comment says more than the code does. The modules have the behaviour
in question, and the properties are worded around it; no run states the stronger
claim.

- **A settled clone is completed twice.** When the clone call
  fails late, `createDesktopInstance` (`internal/httpapi/server.go:3693`) writes
  `accepted` through `UpdateJobTask` (`internal/store/store.go:2110`), which does
  not look at the state. The job may have been recovered and settled meanwhile; it
  can then be recovered and completed again, with a second completion event.
  `docs/architecture/audit.md:31` says that the conditional update prevents
  repeated completion events. `SettledIsFinal` excepts the write.
- **The same write closes a desktop in use.** The view
  `effective_user_desktop_access` leaves out a desktop with an unsettled clone job,
  and `UpdateJobTask` takes neither the access lock nor the sweep, so a connection
  or lease stays active without effective access until the next access change.
  `docs/architecture/identity.md:57` says that whatever reduces access shares the
  lock, and that a connection that lost its last effective grant turns to
  `revoking` in the same commit. `ActiveIsEntitled` speaks of
  grants, and of clones that have never succeeded.
- **Single sign-on before setup.** `IsInitialized`
  (`internal/store/store.go:371`) is true as soon as any user exists. A person who
  signs in through the provider first is an ordinary user, and setup is refused
  from then on, so there is no administrator. `docs/architecture/identity.md:14`
  says that once initialised the local administrator can sign in even without the
  provider. `SoleAdministrator` only excludes a
  second one.
- **Retained standard error.** The comment at
  `internal/rdpsession/session.go:215` means to bound a process that retains "a
  duplicated output descriptor without leaking a goroutine".
  That is so for standard output, which is a pipe of the program's; standard error
  is copied to `io.Discard` by `os/exec`, whose `Wait` (`:212`) waits for its end.
  `TransportEnds` excepts it.
- **The status of a running build.** `updateImageProfile`
  (`internal/httpapi/server.go:2801`) writes back the row it read, status
  included (`internal/store/store.go:2260`), also when a build was accepted in
  between; `docs/design/ui.md:73` says that an accepted build must be shown as such
  and no longer as an editable draft. `ReadyIsTemplate` does not
  depend on it.

Three more limits of what holds, which no document contradicts. After a lost
desktop lock two handlers may write a Guest's policy in turns, and the record may
name a revision that the Guest does not enforce: `AppliedIsEnforced` is about
`faults = 0`. A command that was given up on may take effect after the policy was
recorded, and nothing reads the Guest back: `AppliedIsEnforced` leaves out the
target it reached. After a crash, a request cut off before its goroutine
starts, or a failed settling write, a build stays active and blocks its profile:
`BuildsSettle` excludes these faults.

## Not modelled

- *Recovery of a native account by an administrator* adopts a Guest's fence after
  a database restore. It begins in states in which the store is behind the Guest
  by any number of commands, which the order of revisions, the basis of the
  proofs about people, excludes. It needs a model of its own.
- *Windows session service*: the planner's separate `Open` and `Seal`. Their
  callers are in a service whose sessions the operating system creates; the rest of
  what it does is calls of the Windows API.
- *Handlers of desktop control.* `NativeAccounts` and `AgentSessions` allow the
  calls of a handler in any order, so safety holds of every handler; that a
  handler makes progress is not shown.
- *Composition* of `ImageBuilds` with `Cloning`: a template that is replaced while
  it is cloned. Each module lets its templates and machines change as the
  environment likes, within what its header says.
- *Time*: transactions that wait for the access lock past a deadline they compare
  with `now()` (deadlines are events outside `Gateway`).
- *API tokens, rate limits, certificate reloading, enrolment of gateways*: rows or
  files with one writer and no protocol.
- *PVE client, MCP server, Agent API, directory join, Terraform provider*: I/O and
  forwarding without state. *Web console, macOS client*: user interfaces.
- *Cryptography, parsing and text conversion.*
