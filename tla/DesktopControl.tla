---------------------------- MODULE DesktopControl ----------------------------
(***************************************************************************)
(* One desktop shared by people and Agents: the two halves composed, the   *)
(* access changes that touch both, and what must hold of the whole.        *)
(***************************************************************************)
EXTENDS NativeAccounts, AgentSessions

\* Any administrative change of who may use the desktop, with the clean-up
\* commitAccessChange queues in the same transaction.
CommitAccessChange(newAccess, newAllowed) ==
    LET S == {u \in Users : bind[u].st = "ready" /\ u \notin newAccess}
        L == {l \in ActiveLeases : lease[l].agent \notin newAllowed}
    IN  /\ <<newAccess, newAllowed>> # <<access, allowed>>
        /\ \A u \in S : idReq[u] < MaxReq
        /\ access' = newAccess
        /\ allowed' = newAllowed
        /\ bind' = BindDisabled(S)
        /\ idReq' = RequestRaised(S)
        /\ conn' = ConnsRevoking(Users \ newAccess)
        /\ CloseLeases(L)
        /\ UNCHANGED <<session, expired, idDone, acct, digest, issuedTo, nativeGuest, nativeSeen,
                       leaseExpired, agentGuest, agentSeen>>

AccessNext ==
    \E newAccess \in SUBSET Users, newAllowed \in SUBSET Agents :
        CommitAccessChange(newAccess, newAllowed)

Init == NativeInit /\ AgentInit

Next == NativeNext \/ AgentNext \/ AccessNext

Spec == Init /\ [][Next]_vars

------------------------------------------------------------------------------
(* Types.                                                                  *)

\* Every row, record and command has the shape its table or file gives it.
TypeOK == NativeTypeOK /\ AgentTypeOK

------------------------------------------------------------------------------
(* People.                                                                 *)

\* The Guest accepts this user's password, or is in the middle of a command
\* that may leave it accepting one.
CredentialLive(u) == nFence[u].phase \in {"issuing", "issued", "retiring"}

\* Two people never have a live credential on one desktop, however late the
\* Guest runs the commands of abandoned requests.
OneHumanCredential ==
    \A u, v \in Users : CredentialLive(u) /\ CredentialLive(v) => u = v

\* The store never forgets a credential the Guest may still accept: its intent
\* is unsettled or is the settled issue itself.  A settled retirement or
\* revocation means the password is gone.
CredentialIsReserved == \A u \in Users : CredentialLive(u) => Reserved(u)

\* An acknowledged revocation is closed in the Guest for good: no login, no
\* processes, and no command still on its way can reopen the account.
RevokedMeansClosed ==
    \A u \in Users :
        acct[u].op = "revoke" /\ acct[u].st = "applied" =>
            /\ nOS[u] = ClosedOS
            /\ nFence[u].phase = "revoked"
            /\ \A q \in nSent[u] : q.op # "revoke" => ~NativePlan(nFence[u], q, expired)

\* An open connection belongs to the credential its owner's intent names, so
\* the recovery that walks intents also finds every connection.
OpenConnectionHasIntent ==
    \A c \in Conns :
        conn[c] \in {"active", "revoking"} =>
            /\ acct[issuedTo[c]].conn = c
            /\ Reserved(issuedTo[c])

\* A person whose access was withdrawn cannot go unnoticed: while the Guest
\* still has a desktop or a password for them, a revocation is queued or the
\* revocation of their credential is itself still to be acknowledged.
LostAccessIsPursued ==
    \A u \in Users :
        u \notin access /\ nOS[u] # ClosedOS =>
            \/ idReq[u] > idDone[u]
            \/ acct[u].op = "revoke" /\ acct[u].st = "pending"

\* Acknowledging an identity revocation is a promise about the Guest, even by a
\* worker that made its observation long ago.
AcknowledgedWhenClosed ==
    [][\A u \in Users : idDone'[u] # idDone[u] => nOS[u] = ClosedOS /\ ~CredentialLive(u)]_vars

------------------------------------------------------------------------------
(* Agents.                                                                 *)

\* Once a lease is closed, the Guest stops obeying it before the revocation is
\* acknowledged: late publications of its authority included.
ClosedLeaseIsFenced ==
    \A a \in Agents : MayAct(a) /\ lease[auth.lease].st # "active" => ComputerRevocationPending

\* A disabled session has no login left in the Guest, and none can come late.
DisabledSessionIsStopped ==
    \A a \in Agents :
        asess[a].st = "disabled" =>
            /\ aOS[a] = ClosedOS
            /\ aFence[a].phase \in {"none", "revoked"}
            /\ \A q \in aSent[a] : q.op = "login" => ~AgentPlan(aFence[a], q, leaseExpired)

\* Cleaning up after an old lease never takes input away from the lease that
\* came after it (migration 025).
CleanupSparesNewerLease ==
    [][auth.st = "active" /\ auth' # auth => auth'.st = "active" \/ lease[auth.lease].st # "active"]_vars

\* At most one Agent has a login on the desktop, late logins of superseded
\* sessions included.
AgentLoginLive(a) == aFence[a].phase \in {"opening", "sealed"}
OneAgentLogin == \A a, b \in Agents : AgentLoginLive(a) /\ AgentLoginLive(b) => a = b

------------------------------------------------------------------------------
(* People and Agents.                                                      *)

\* A person's password and an Agent's input authority never work together.
DesktopIsExclusive ==
    \A u \in Users, a \in Agents : ~(CredentialLive(u) /\ MayAct(a))

------------------------------------------------------------------------------
(* Liveness.  RunBackgroundMaintenance retries every queued revocation each *)
(* minute on every replica, so each of its steps that stays possible is    *)
(* taken.  A Guest command has a deadline, so it ends, well or badly.  The  *)
(* Guest is assumed to be reachable again and again and to carry commands  *)
(* through again and again, which no timer can force: strong fairness.     *)
(* An attempt to synchronise is eventually given the time it needs.        *)
(* Nothing is assumed of people, Agents or credential deadlines.           *)

RecoveryFairness ==
    \A u \in Users :
        /\ WF_vars(RevokeNativeGuestAccount(u) /\ idReq[u] > idDone[u])
        /\ WF_vars(ResendRevoke(u) /\ idReq[u] > idDone[u])
        /\ SF_vars(\E q \in nSent[u] : q.op = "revoke" /\ AcceptNative(u, q))
        /\ WF_vars(FinishNative(u) \/ InterruptNative(u))
        /\ SF_vars(FinishNative(u))
        /\ SF_vars(acct[u].op = "revoke" /\ ConfirmNativeCredential(u))
        /\ WF_vars(acct[u].op = "revoke" /\ CompleteCleanup(u))
        /\ WF_vars(ObserveIdentityClosed(u))
        /\ WF_vars(\E r \in idSeen[u] : CompleteGuestIdentityRevocation(u, r))

SyncFairness ==
    /\ \A w \in Workers :
          /\ WF_vars(ReadRevocationQueue(w))
          /\ WF_vars(FenceAuthority(w))
          /\ WF_vars(AuthorityFenced(w))
          /\ WF_vars(\E s \in sync[w].todo : StopAgentSession(w, s))
          /\ WF_vars(\E s \in sync[w].todo : CompleteAgentGuestSessionRevocation(w, s))
          /\ WF_vars(CompleteComputerRevocation(w))
          /\ WF_vars(SyncFails(w))
          /\ <>[][AbandonSync(w) => SyncFails(w)]_vars
    /\ WF_vars(\E q \in authSent : q.st = "revoked" /\ PublishAuthority(q))
    /\ \A a \in Agents :
          /\ SF_vars(\E q \in aSent[a] : q.op = "stop" /\ AcceptAgent(a, q))
          /\ WF_vars(FinishAgent(a) \/ InterruptAgent(a))
          /\ SF_vars(FinishAgent(a))
          /\ SF_vars(\E q \in Awaited(a) : q.op = "stop" /\ ConfirmAgentCommand(a, q))

FairSpec == Spec /\ RecoveryFairness /\ SyncFairness

\* Every queued identity revocation is eventually acknowledged, whatever the
\* user, the Guest's failures and late commands do meanwhile.
IdentityRevocationConverges ==
    \A u \in Users : idReq[u] > idDone[u] ~> idReq[u] = idDone[u]

\* Every queued computer revocation is eventually acknowledged.
ComputerRevocationConverges == ComputerRevocationPending ~> ~ComputerRevocationPending
==============================================================================
