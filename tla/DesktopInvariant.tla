--------------------------- MODULE DesktopInvariant ---------------------------
(***************************************************************************)
(* The inductive invariant behind the safety properties about people.      *)
(* The store's revision numbers order everything: an intent in the table   *)
(* is newer than the Guest's fence and than every command and receipt, and *)
(* a version number names one operation on one connection wherever it      *)
(* occurs.                                                                 *)
(***************************************************************************)
EXTENDS DesktopControl

\* The row of an account that never had a credential, and of one that had.
IntentShape(u) ==
    LET A == acct[u]
    IN  /\ A.st \in {"unbound", "idle"} <=> A.rev = 0
        /\ A.op = "none" <=> A.rev = 0
        /\ A.rev # 0 => A.conn \in Conns /\ issuedTo[A.conn] = u
        /\ A.rev = 0 => nFence[u] = NoFence /\ nOS[u] = ClosedOS

\* A version is not ahead of the intent, and equal versions mean equal intents.
NotAhead(u, op, rev, c) ==
    /\ rev <= acct[u].rev
    /\ rev = acct[u].rev => op = acct[u].op /\ c = acct[u].conn

CommandsOrdered(u) ==
    /\ \A q \in nSent[u] : q.rev > 0 /\ NotAhead(u, q.op, q.rev, q.conn)
    /\ nBusy[u] # NoReq =>
          /\ nBusy[u].op \in NativeOps /\ nBusy[u].rev > 0
          /\ NotAhead(u, nBusy[u].op, nBusy[u].rev, nBusy[u].conn)
          /\ nFence[u] = NativePending(nBusy[u])

PhasesOf(op) ==
    CASE op = "issue"  -> {"issuing", "issued", "revoked"}
      [] op = "retire" -> {"retiring", "retired", "revoked"}
      [] op = "revoke" -> {"revoked"}
      [] OTHER         -> {"none"}

FenceOrdered(u) ==
    /\ nFence[u].rev <= acct[u].rev
    /\ nFence[u].rev = acct[u].rev =>
          nFence[u].conn = acct[u].conn /\ nFence[u].phase \in PhasesOf(acct[u].op)

\* A receipt of the current version still describes the Guest.
ReceiptsValid(u) ==
    /\ \A q \in nSeen[u] :
          /\ NotAhead(u, q.op, q.rev, q.conn)
          /\ q.rev = acct[u].rev =>
                /\ nFence[u].rev = q.rev
                /\ nFence[u].phase \in {NativeCompleted(q).phase, "revoked"}
                /\ q.op = "revoke" => nOS[u] = ClosedOS
    /\ acct[u].st = "applied" => Intent(u) \in nSeen[u]

\* The Guest has this user's credential, or an issue it may yet accept.
CanHeat(u) ==
    \/ CredentialLive(u)
    \/ \E q \in nSent[u] : q.op = "issue" /\ q.rev > nFence[u].rev

OneCanHeat == \A u, v \in Users : CanHeat(u) /\ CanHeat(v) => u = v

\* An observation of the current request still describes the account.
ObservationsValid(u) ==
    /\ idDone[u] <= idReq[u]
    /\ \A r \in idSeen[u] :
          /\ r <= idReq[u]
          /\ r = idReq[u] /\ idDone[u] < r =>
                acct[u].rev = 0 \/ (acct[u].op = "revoke" /\ acct[u].st = "applied")

\* A credential that is not being revoked belongs to somebody entitled to it,
\* unless a revocation is queued.
Entitled(u) ==
    acct[u].op \in {"issue", "retire"} =>
        \/ bind[u].st = "ready" /\ u \in access
        \/ idReq[u] > idDone[u]

GuestInv(u) == IntentShape(u) /\ CommandsOrdered(u) /\ FenceOrdered(u) /\ ReceiptsValid(u)

QueueInv(u) == ObservationsValid(u) /\ Entitled(u)

\* Agents: only the types and what they rest on.  A session, a fence and a
\* running command name a real lease.
AgentShape(a) ==
    /\ asess[a].st # "none" => asess[a].lease \in Leases
    /\ aFence[a] # NoAgentFence => aFence[a].lease \in Leases
    /\ aBusy[a] # NoLogin => aBusy[a] \in LoginReq /\ aFence[a] = AgentPending(aBusy[a])

AgentInv == AgentTypeOK /\ \A a \in Agents : AgentShape(a)

NativeInv ==
    /\ NativeTypeOK
    /\ \A u \in Users : GuestInv(u) /\ QueueInv(u)
    /\ OneCanHeat
    /\ OpenConnectionHasIntent

------------------------------------------------------------------------------
(* The inductive invariant behind the safety properties about Agents.      *)
(* Control epochs order leases, sessions and commands; within an epoch     *)
(* login generations do.  A session row is ahead of the Guest's fence and  *)
(* of every command and worker that names its Agent.                       *)

\* The newest epoch is the active lease's, or that of the last one closed.
Epochs ==
    /\ crEpoch <= epoch /\ crDone <= crReq
    /\ \A l \in ActiveLeases : lease[l].epoch = epoch /\ crEpoch < epoch
    /\ \A k, l \in ActiveLeases : k = l

\* The session has not been brought to its end in the Guest.
Engaged(a) == LiveSession(a) \/ asess[a].st = "revoking"

OneEngaged == \A a, b \in Agents : Engaged(a) /\ Engaged(b) => a = b

\* A session belongs to a lease of its Agent and follows that lease's state.
SessionFollowsLease(a) ==
    /\ asess[a].epoch <= epoch
    /\ asess[a].st = "none" => ~asess[a].uid
    /\ asess[a].st # "none" => lease[asess[a].lease].st # "none" /\ lease[asess[a].lease].agent = a
    /\ LiveSession(a) =>
          lease[asess[a].lease].st = "active" /\ lease[asess[a].lease].epoch = asess[a].epoch
    /\ asess[a].st \in {"revoking", "disabled"} => asess[a].epoch < epoch
    /\ asess[a].st = "revoking" => ComputerRevocationPending

\* A command is not ahead of the session row, and a stop ends its epoch.
CommandOf(a, q) ==
    /\ q.epoch <= asess[a].epoch
    /\ q.epoch = asess[a].epoch =>
          /\ q.lease = asess[a].lease
          /\ q.op = "login" => q.login <= asess[a].login
          /\ q.op = "stop" =>
                asess[a].st \in {"revoking", "disabled"} /\ q.login = StopIntent(asess[a]).login

\* The fence has reached the command's version.
Overtaken(fence, q) ==
    q.epoch < fence.epoch \/ (q.epoch = fence.epoch /\ q.login <= fence.login)

AgentCommandsOrdered(a) ==
    /\ \A q \in aSent[a] :
          CommandOf(a, q) /\ (q.op = "login" /\ q.epoch < asess[a].epoch => Overtaken(aFence[a], q))
    /\ aBusy[a] # NoLogin => CommandOf(a, aBusy[a])

\* A login that is open belongs to the session in the table.
AgentFenceOrdered(a) ==
    /\ aFence[a].epoch <= asess[a].epoch
    /\ AgentLoginLive(a) =>
          Engaged(a) /\ aFence[a].epoch = asess[a].epoch /\ aFence[a].lease = asess[a].lease

\* The Guest has carried out the stop and nothing has happened since.
StoppedBy(a, q) == aFence[a] = AgentCompleted(q) /\ aOS[a] = ClosedOS

\* The receipt of a current stop still describes the Guest.
StopReceiptsValid(a) ==
    /\ \A q \in aSeen[a] : q.op = "stop" =>
          CommandOf(a, q) /\ (q.epoch = asess[a].epoch => StoppedBy(a, q))
    /\ asess[a].st = "disabled" /\ asess[a].uid => StoppedBy(a, StopIntent(asess[a]))

\* Nothing was ever sent for an account that was never bound.
NeverBoundIsEmpty(a) ==
    ~asess[a].uid =>
        /\ aSent[a] = {} /\ aSeen[a] = {}
        /\ aFence[a] = NoAgentFence /\ aBusy[a] = NoLogin /\ aOS[a] = ClosedOS

AgentGuestInv(a) ==
    /\ AgentCommandsOrdered(a) /\ AgentFenceOrdered(a)
    /\ StopReceiptsValid(a) /\ NeverBoundIsEmpty(a)

SessionInv(a) == SessionFollowsLease(a) /\ AgentGuestInv(a)

Row(a) == [agent |-> a, lease |-> asess[a].lease, epoch |-> asess[a].epoch, login |-> asess[a].login]

\* A worker that may acknowledge the queue still has every session to stop.
SyncInv(w) ==
    /\ sync[w].rev <= crReq
    /\ \A s \in sync[w].todo : CommandOf(s.agent, StopIntent(s))
    /\ sync[w].pc \in {"fence", "stop"} /\ sync[w].rev = crReq /\ ComputerRevocationPending =>
          \A a \in Agents : asess[a].st = "revoking" => Row(a) \in sync[w].todo

\* Authority is of a lease that was granted, and a tombstone of one that ended.
OfLease(q) == lease[q.lease].st # "none" /\ (lease[q.lease].st = "active" => q.epoch = epoch)

AuthorityInv ==
    /\ \A q \in authSent : IF q.st = "active" THEN OfLease(q) ELSE q.epoch <= crEpoch
    /\ auth.st = "active" => auth.lease \in Leases /\ OfLease(auth)

ControlInv ==
    /\ Epochs /\ OneEngaged /\ AuthorityInv
    /\ \A a \in Agents : SessionInv(a)
    /\ \A w \in Workers : SyncInv(w)

\* While a person has the desktop, or may yet get it, no Agent has a session
\* and no lease can start one.
PersonExcludesAgents ==
    \A u \in Users : CanHeat(u) =>
        ActiveLeases \subseteq leaseExpired /\ \A a \in Agents : ~Engaged(a)
==============================================================================
