---------------------------- MODULE AgentSessions ----------------------------
(***************************************************************************)
(* Agents on a desktop.  An Agent acts under a lease; every change of a    *)
(* lease's state draws a new control epoch.  Under a lease the store keeps *)
(* one Guest session per Agent (its login generations), the Guest keeps a  *)
(* fence per Agent account and one authority snapshot for the desktop.     *)
(* Closing a lease queues a computer revocation; a worker of the control   *)
(* plane fences the authority, stops the sessions and acknowledges it.     *)
(***************************************************************************)
EXTENDS Desktop

\* A live lease of an Agent that is still allowed to use the desktop.
Holds(a, l) ==
    /\ lease[l].st = "active"
    /\ l \notin leaseExpired
    /\ lease[l].agent = a
    /\ a \in allowed

\* The session row of an Agent is backed by a live lease.
Backed(a) ==
    /\ asess[a].lease # None
    /\ Holds(a, asess[a].lease)
    /\ lease[asess[a].lease].epoch = asess[a].epoch

------------------------------------------------------------------------------
(* Leases.  One lease at most is active (a unique index), so the sets of   *)
(* leases closed below have at most one member.                            *)

\* assign_desktop_computer_epoch, for the leases S that leave the active state.
LeasesClosed(S) ==
    [l \in Leases |->
        IF l \in S THEN [st |-> "closed", agent |-> lease[l].agent, epoch |-> epoch + 1]
                   ELSE lease[l]]

EpochAfter(S) == IF S = {} THEN epoch ELSE epoch + 1

\* revoke_agent_guest_session: sessions under a closed lease.
SessionsRevoking(S) ==
    [a \in Agents |->
        IF LiveSession(a) /\ asess[a].lease \in S
        THEN [asess[a] EXCEPT !.st = "revoking"] ELSE asess[a]]

\* queue_desktop_computer_revocation
QueueComputerRevocation(S) ==
    /\ crReq' = IF S = {} THEN crReq ELSE crReq + 1
    /\ crEpoch' = IF S = {} THEN crEpoch ELSE epoch + 1
    /\ UNCHANGED crDone

CloseLeases(S) ==
    /\ lease' = LeasesClosed(S)
    /\ epoch' = EpochAfter(S)
    /\ asess' = SessionsRevoking(S)
    /\ QueueComputerRevocation(S)

\* Variant: a credential that is still unsettled is overlooked.
NoNativeConnection == \A u \in Users : ~(acct[u].op = "issue" /\ acct[u].st = "applied")

\* protect_agent_lease_from_native_reservation
NoNativeReservation == \A u \in Users : ~Reserved(u)

CreateDesktopLease(a, l) ==
    LET S == ActiveLeases \cap leaseExpired
    IN  /\ lease[l].st = "none"
        /\ a \in allowed
        /\ ~ConnectionOpen
        /\ NoNativeReservation
        /\ ActiveLeases \subseteq S
        /\ epoch' = EpochAfter(S) + 1
        /\ lease' = [LeasesClosed(S) EXCEPT ![l] = [st |-> "active", agent |-> a, epoch |-> epoch']]
        /\ asess' = SessionsRevoking(S)
        /\ QueueComputerRevocation(S)
        /\ UNCHANGED <<people, allowed, leaseExpired, agentGuest, agentSeen>>

\* The lease's clock; it stays "active" in the table until somebody closes it.
LeaseDeadline(l) ==
    /\ lease[l].st # "none"
    /\ l \notin leaseExpired
    /\ leaseExpired' = leaseExpired \cup {l}
    /\ UNCHANGED <<people, allowed, leaseDB, agentGuest, agentSeen>>

ReleaseDesktopLease(l) ==
    /\ lease[l].st = "active"
    /\ CloseLeases({l})
    /\ UNCHANGED <<people, allowed, leaseExpired, agentGuest, agentSeen>>

\* A person takes the desktop over.
RevokeDesktopLeases ==
    /\ ActiveLeases # {}
    /\ CloseLeases(ActiveLeases)
    /\ UNCHANGED <<people, allowed, leaseExpired, agentGuest, agentSeen>>

QueueExpiredComputerLeases ==
    /\ ActiveLeases \cap leaseExpired # {}
    /\ CloseLeases(ActiveLeases \cap leaseExpired)
    /\ UNCHANGED <<people, allowed, leaseExpired, agentGuest, agentSeen>>

\* A bootstrap that failed gives up its own lease.
QueueAgentGuestSessionRevocation(a) ==
    /\ LiveSession(a)
    /\ lease[asess[a].lease].st = "active"
    /\ CloseLeases({asess[a].lease})
    /\ UNCHANGED <<people, allowed, leaseExpired, agentGuest, agentSeen>>

------------------------------------------------------------------------------
(* The session row of an Agent.                                            *)

\* Variant: clean-up still to be done is overlooked.
NoOtherLiveSession(l) == \A b \in Agents : LiveSession(b) => asess[b].lease = l

\* Everything that ran under earlier leases has been stopped.
CleanedUp(l) ==
    /\ ~ComputerRevocationPending
    /\ \A b \in Agents : asess[b].st # "revoking" /\ (LiveSession(b) => asess[b].lease = l)

BeginAgentGuestSession(a, l) ==
    /\ Holds(a, l)
    /\ ~ConnectionOpen
    /\ CleanedUp(l)
    /\ asess[a].st \in {"none", "disabled"}
    /\ asess' = [asess EXCEPT ![a] =
          [st |-> "provisioning", lease |-> l, epoch |-> lease[l].epoch, login |-> 0, uid |-> @.uid]]
    /\ UNCHANGED <<people, allowed, leaseExpired, lease, epoch, crReq, crDone, crEpoch,
                   agentGuest, agentSeen>>

BindAgentGuestAccount(a) ==
    /\ ~asess[a].uid
    /\ a \in aExists
    /\ LiveSession(a) /\ Backed(a)
    /\ asess' = [asess EXCEPT ![a].uid = TRUE]
    /\ UNCHANGED <<people, allowed, leaseExpired, lease, epoch, crReq, crDone, crEpoch,
                   agentGuest, agentSeen>>

BeginAgentGuestLogin(a) ==
    LET next == asess[a].login + 1
    IN  /\ LiveSession(a) /\ Backed(a)
        /\ asess[a].uid
        /\ next <= MaxLogin
        /\ asess' = [asess EXCEPT ![a].login = next, ![a].st = "provisioning"]
        /\ aSent' = [aSent EXCEPT ![a] = @ \cup
              {[op |-> "login", epoch |-> asess[a].epoch, login |-> next, lease |-> asess[a].lease]}]
        /\ UNCHANGED <<people, allowed, leaseExpired, lease, epoch, crReq, crDone, crEpoch,
                       aExists, aFence, aOS, aBusy, auth, authSent, agentSeen>>

LoginIntent(s) == [op |-> "login", epoch |-> s.epoch, login |-> s.login, lease |-> s.lease]

\* Followed by the dispatch of the active authority (ActivateSessionAuthority).
MarkAgentGuestSessionReady(a) ==
    LET s == asess[a]
    IN  /\ LiveSession(a) /\ Backed(a)
        /\ s.login >= 1
        /\ LoginIntent(s) \in aSeen[a]
        /\ asess' = [asess EXCEPT ![a].st = "ready"]
        /\ authSent' = authSent \cup
              {[st |-> "active", epoch |-> s.epoch, lease |-> s.lease, agent |-> a]}
        /\ <<asess', authSent'>> # <<asess, authSent>>
        /\ UNCHANGED <<people, allowed, leaseExpired, lease, epoch, crReq, crDone, crEpoch,
                       aExists, aFence, aOS, aBusy, aSent, auth, agentSeen>>

------------------------------------------------------------------------------
(* synchronizeComputerRevocation, one worker at a time per worker; several *)
(* workers overlap when a desktop lock is lost with its connection.        *)

StopIntent(s) ==
    [op |-> "stop", epoch |-> s.epoch, lease |-> s.lease,
     login |-> IF s.login = 0 THEN 1 ELSE s.login]

Tombstone(e) == [st |-> "revoked", epoch |-> e, lease |-> None, agent |-> None]

\* Read the queue.  A takeover runs the same steps with an empty queue.
ReadRevocationQueue(w) ==
    /\ sync[w].pc = "idle"
    /\ sync' = [sync EXCEPT ![w] =
          [Idle EXCEPT !.pc = "read", !.rev = IF ComputerRevocationPending THEN crReq ELSE 0]]
    /\ UNCHANGED <<people, allowed, leaseExpired, leaseDB, agentGuest, aSeen, authSeen>>

\* Variant: the desktop's newest epoch is fenced.
NewestEpoch == epoch

\* ComputerRevocationEpoch: the epoch of the newest closed lease.
FenceEpoch == crEpoch

\* Read the sessions and the epoch to fence, and dispatch the tombstone.
FenceAuthority(w) ==
    /\ sync[w].pc = "read"
    /\ IF \A a \in Agents : asess[a].st = "none"
       THEN /\ sync' = [sync EXCEPT ![w].pc = "stop"]
            /\ UNCHANGED authSent
       ELSE /\ FenceEpoch > 0
            /\ sync' = [sync EXCEPT ![w] =
                  [@ EXCEPT !.pc = "fence", !.epoch = FenceEpoch,
                    !.todo = {[agent |-> a, lease |-> asess[a].lease, epoch |-> asess[a].epoch,
                               login |-> asess[a].login] :
                                 a \in {b \in Agents : asess[b].st = "revoking"}}]]
            /\ authSent' = authSent \cup {Tombstone(FenceEpoch)}
    /\ UNCHANGED <<people, allowed, leaseExpired, leaseDB, aExists, aFence, aOS, aBusy, aSent,
                   auth, aSeen, authSeen>>

\* RevokeSessionAuthority returned.
AuthorityFenced(w) ==
    /\ sync[w].pc = "fence"
    /\ Tombstone(sync[w].epoch) \in authSeen
    /\ sync' = [sync EXCEPT ![w].pc = "stop"]
    /\ UNCHANGED <<people, allowed, leaseExpired, leaseDB, agentGuest, aSeen, authSeen>>

\* The row a worker read is still the row in the table, and still revoking.
Current(s) ==
    /\ asess[s.agent].st = "revoking"
    /\ s = [agent |-> s.agent, lease |-> asess[s.agent].lease, epoch |-> asess[s.agent].epoch,
            login |-> asess[s.agent].login]

\* BindRevokingAgentGuestAccount, then the dispatch of StopAgentSession.  A
\* session that never logged in must not meet a fence of its own epoch or later.
StopAgentSession(w, s) ==
    LET a == s.agent
        q == StopIntent(s)
    IN  /\ sync[w].pc = "stop" /\ s \in sync[w].todo
        /\ a \in aExists
        /\ Current(s)
        /\ s.login = 0 /\ aFence[a].epoch >= s.epoch => aFence[a] = AgentCompleted(q)
        /\ q \notin aSent[a] \cup aSeen[a]
        /\ asess' = [asess EXCEPT ![a].uid = TRUE]
        /\ aSent' = [aSent EXCEPT ![a] = @ \cup {q}]
        /\ UNCHANGED <<people, allowed, leaseExpired, lease, epoch, crReq, crDone, crEpoch,
                       aExists, aFence, aOS, aBusy, auth, authSent, agentSeen>>

\* Variant: a session whose account was never created is not recognised.
NeverBound(s) == s.agent \notin aExists /\ asess[s.agent].uid

\* No account and no reserved login: no credential was ever installed.
NeverExisted(s) == s.agent \notin aExists /\ s.login = 0 /\ ~asess[s.agent].uid

\* The stop was seen, or there never was anything to stop.
CompleteAgentGuestSessionRevocation(w, s) ==
    LET a == s.agent
    IN  /\ sync[w].pc = "stop" /\ s \in sync[w].todo
        /\ Current(s)
        /\ \/ StopIntent(s) \in aSeen[a]
           \/ NeverExisted(s)
        /\ asess' = [asess EXCEPT ![a].st = "disabled"]
        /\ sync' = [sync EXCEPT ![w].todo = @ \ {s}]
        /\ UNCHANGED <<people, allowed, leaseExpired, lease, epoch, crReq, crDone, crEpoch,
                       agentGuest, aSeen, authSeen>>

\* Variant: whatever has been requested by now is acknowledged.
AcknowledgeAll(rev) == IF crDone < crReq THEN crReq ELSE crDone

\* Only the revision this worker read is acknowledged, and only if it is current.
Acknowledge(rev) == IF crReq = rev /\ crDone < rev THEN rev ELSE crDone

CompleteComputerRevocation(w) ==
    /\ sync[w].pc = "stop" /\ sync[w].todo = {}
    /\ sync' = [sync EXCEPT ![w] = Idle]
    /\ crDone' = Acknowledge(sync[w].rev)
    /\ UNCHANGED <<people, allowed, leaseExpired, lease, epoch, crReq, crEpoch, asess,
                   agentGuest, aSeen, authSeen>>

\* A step returns an error: nothing to fence yet, the Guest refuses an overtaken
\* tombstone, or another worker has already moved the row on.
SyncFails(w) ==
    /\ \/ sync[w].pc = "read" /\ FenceEpoch = 0 /\ \E a \in Agents : asess[a].st # "none"
       \/ sync[w].pc = "fence" /\ auth.epoch > sync[w].epoch /\ Tombstone(sync[w].epoch) \notin authSeen
       \/ sync[w].pc = "stop" /\ \E s \in sync[w].todo : ~Current(s)
    /\ sync' = [sync EXCEPT ![w] = Idle]
    /\ UNCHANGED <<people, allowed, leaseExpired, leaseDB, agentGuest, aSeen, authSeen>>

\* A deadline or a crash ends the attempt anywhere; the queue keeps the work.
AbandonSync(w) ==
    /\ sync[w].pc # "idle"
    /\ sync' = [sync EXCEPT ![w] = Idle]
    /\ UNCHANGED <<people, allowed, leaseExpired, leaseDB, agentGuest, aSeen, authSeen>>

------------------------------------------------------------------------------
(* The Guest.                                                              *)

\* The account is created disabled, whenever the provisioning command runs.
ProvisionAgentAccount(a) ==
    /\ asess[a].st # "none"
    /\ a \notin aExists
    /\ aExists' = aExists \cup {a}
    /\ UNCHANGED <<people, allowed, leaseExpired, leaseDB, aFence, aOS, aBusy, aSent,
                   auth, authSent, agentSeen>>

AgentLive(a, fence) == LoginLive(fence, leaseExpired) /\ aOS[a].open

AcceptAgent(a, q) ==
    /\ aBusy[a] = NoLogin
    /\ q \in aSent[a]
    /\ a \in aExists
    /\ AgentPlan(aFence[a], q, leaseExpired)
    /\ aFence' = [aFence EXCEPT ![a] = AgentPending(q)]
    /\ aBusy' = [aBusy EXCEPT ![a] = q]
    /\ aSent' = [aSent EXCEPT ![a] = @ \ {q}]
    /\ UNCHANGED <<people, allowed, leaseExpired, leaseDB, aExists, aOS, auth, authSent, agentSeen>>

\* The account was unlocked and PAM registered the local login: the gate that
\* guards registration is open while the fence says "opening", even after the
\* command that opened it has died.
RegisterAgentLogin(a) ==
    /\ aFence[a].phase = "opening"
    /\ aFence[a].lease \notin leaseExpired
    /\ aBusy[a] # NoLogin \/ aOS[a].open
    /\ aOS' = [aOS EXCEPT ![a] = [open |-> TRUE, desk |-> TRUE]]
    /\ aOS' # aOS
    /\ UNCHANGED <<people, allowed, leaseExpired, leaseDB, aExists, aFence, aBusy, aSent,
                   auth, authSent, agentSeen>>

FinishAgent(a) ==
    LET q == aBusy[a]
    IN  /\ q # NoLogin
        /\ q.op = "login" => aOS[a].open /\ aOS[a].desk /\ q.lease \notin leaseExpired
        /\ aFence' = [aFence EXCEPT ![a] = AgentCompleted(q)]
        /\ aOS' = IF q.op = "login" THEN aOS
                  ELSE [aOS EXCEPT ![a] = ClosedOS]
        /\ aBusy' = [aBusy EXCEPT ![a] = NoLogin]
        /\ UNCHANGED <<people, allowed, leaseExpired, leaseDB, aExists, aSent, auth, authSent, agentSeen>>

InterruptAgent(a) ==
    LET q == aBusy[a]
        mid == {aOS[a], [aOS[a] EXCEPT !.open = FALSE], ClosedOS}
    IN  /\ q # NoLogin
        /\ \E os \in mid \cup (IF q.op = "login" THEN {[open |-> TRUE, desk |-> FALSE]} ELSE {}) :
              aOS' = [aOS EXCEPT ![a] = os]
        /\ \E f \in {aFence[a], Revoked(aFence[a])} : aFence' = [aFence EXCEPT ![a] = f]
        /\ aBusy' = [aBusy EXCEPT ![a] = NoLogin]
        /\ UNCHANGED <<people, allowed, leaseExpired, leaseDB, aExists, aSent, auth, authSent, agentSeen>>

ReconcileAgent(a) ==
    /\ aBusy[a] = NoLogin
    /\ aFence[a] # NoAgentFence
    /\ ~AgentLive(a, aFence[a])
    /\ aFence' = [aFence EXCEPT ![a] = Revoked(@)]
    /\ \E os \in {aOS[a], [aOS[a] EXCEPT !.open = FALSE], ClosedOS} :
          aOS' = [aOS EXCEPT ![a] = os]
    /\ <<aFence', aOS'>> # <<aFence, aOS>>
    /\ UNCHANGED <<people, allowed, leaseExpired, leaseDB, aExists, aBusy, aSent,
                   auth, authSent, agentSeen>>

EndAgentDesktop(a) ==
    /\ aOS[a].desk
    /\ aOS' = [aOS EXCEPT ![a].desk = FALSE]
    /\ UNCHANGED <<people, allowed, leaseExpired, leaseDB, aExists, aFence, aBusy, aSent,
                   auth, authSent, agentSeen>>

\* The commands whose outcome some worker waits for.
Awaited(a) ==
    {LoginIntent(asess[a])} \cup
    {StopIntent(s) : s \in {t \in UNION {sync[w].todo : w \in Workers} : t.agent = a}}

\* StartAgentSession and StopAgentSession: exact receipt, then an inspection.
ConfirmAgentCommand(a, q) ==
    /\ aBusy[a] = NoLogin
    /\ aFence[a] = AgentCompleted(q)
    /\ IF q.op = "login" THEN aOS[a].open ELSE aOS[a] = ClosedOS
    /\ q \notin aSeen[a]
    /\ aSeen' = [aSeen EXCEPT ![a] = @ \cup {q}]
    /\ UNCHANGED <<people, allowed, leaseExpired, leaseDB, agentGuest, authSeen, sync>>

\* The snapshot is replaced atomically under a lock; an active one is bound to
\* the login the account is sealed for, and needs its desktop to be up.
PublishAuthority(q) ==
    /\ q \in authSent
    /\ AuthorityTransition(auth, q)
    /\ q.st = "active" =>
          /\ q.lease \notin leaseExpired
          /\ aBusy[q.agent] = NoLogin
          /\ aOS[q.agent].desk
          /\ MatchesAuthority(aFence[q.agent], q, leaseExpired)
          /\ AgentLive(q.agent, aFence[q.agent])
    /\ auth' = [st |-> q.st, epoch |-> q.epoch, lease |-> q.lease, agent |-> q.agent,
                login |-> IF q.st = "active" THEN aFence[q.agent].login ELSE 0]
    /\ authSent' = authSent \ {q}
    /\ authSeen' = IF q.st = "revoked" THEN authSeen \cup {q} ELSE authSeen
    /\ UNCHANGED <<people, allowed, leaseExpired, leaseDB, aExists, aFence, aOS, aBusy, aSent,
                   aSeen, sync>>

\* A Helper obeys the snapshot only while it names the account's sealed login.
MayAct(a) ==
    /\ auth.st = "active" /\ auth.agent = a
    /\ MatchesAuthority(aFence[a], auth, leaseExpired)
    /\ aFence[a].login = auth.login

------------------------------------------------------------------------------
LeaseStore ==
    \/ \E a \in Agents, l \in Leases : CreateDesktopLease(a, l) \/ BeginAgentGuestSession(a, l)
    \/ \E l \in Leases : LeaseDeadline(l) \/ ReleaseDesktopLease(l)
    \/ RevokeDesktopLeases
    \/ QueueExpiredComputerLeases

SessionStore(a) ==
    \/ QueueAgentGuestSessionRevocation(a)
    \/ BindAgentGuestAccount(a)
    \/ BeginAgentGuestLogin(a)
    \/ MarkAgentGuestSessionReady(a)

Synchronize(w) ==
    \/ ReadRevocationQueue(w)
    \/ FenceAuthority(w)
    \/ AuthorityFenced(w)
    \/ \E s \in sync[w].todo :
          StopAgentSession(w, s) \/ CompleteAgentGuestSessionRevocation(w, s)
    \/ CompleteComputerRevocation(w)
    \/ SyncFails(w)
    \/ AbandonSync(w)

AgentGuest(a) ==
    \/ ProvisionAgentAccount(a)
    \/ \E q \in aSent[a] : AcceptAgent(a, q)
    \/ RegisterAgentLogin(a)
    \/ FinishAgent(a)
    \/ InterruptAgent(a)
    \/ ReconcileAgent(a)
    \/ EndAgentDesktop(a)
    \/ \E q \in Awaited(a) : ConfirmAgentCommand(a, q)

AgentNext ==
    \/ LeaseStore
    \/ \E a \in Agents : SessionStore(a) \/ AgentGuest(a)
    \/ \E w \in Workers : Synchronize(w)
    \/ \E q \in authSent : PublishAuthority(q)
==============================================================================
