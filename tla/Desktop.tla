------------------------------- MODULE Desktop -------------------------------
(***************************************************************************)
(* The state behind one managed Linux desktop: the rows the control plane  *)
(* keeps for it in PostgreSQL, the durable records and OS accounts inside  *)
(* the Guest, and the Guest commands in between.                           *)
(*                                                                         *)
(* Every store transaction is one atomic step, because the transactions    *)
(* that matter serialise on one advisory lock and their triggers run       *)
(* inside them.  A Guest command is not: it is dispatched once, may run    *)
(* late, or never, and its caller may have given up.  Dispatched commands  *)
(* are therefore kept in sets and may be accepted at any later time; a     *)
(* command that is lost or refused is one that is never accepted.  What a  *)
(* worker has seen of the Guest (a receipt and the inspection after it) is *)
(* kept too and may be used at any later time, by a worker whose desktop   *)
(* lock has long been lost.                                                *)
(***************************************************************************)
EXTENDS Integers, FiniteSets, GuestFences

CONSTANTS
    Users,      \* people who may be assigned the desktop
    Agents,     \* Agent principals that may lease it
    Conns,      \* fresh connection ids; each is issued at most once
    Leases,     \* lease ids; each is granted at most once
    Workers,    \* control-plane workers that synchronise computer revocations
    MaxReq,     \* bound: identity revocations queued per user
    MaxLogin,   \* bound: login generations within one lease
    None        \* no connection, no lease, nobody

ASSUME DesktopAssumption ==
    /\ None \notin Users \cup Agents \cup Conns \cup Leases
    /\ MaxReq \in Nat
    /\ MaxLogin \in Nat \ {0}

VARIABLES
    (* Control plane, people *)
    access,     \* users with effective_user_desktop_access
    session,    \* users with a live native_sessions row
    bind,       \* guest_identity_bindings: [st, exp]
    idReq,      \* guest_identity_revocations.requested_revision
    idDone,     \* guest_identity_revocations.completed_revision
    acct,       \* native_guest_accounts: [rev, op, st, conn]
    digest,     \* users whose pending issue still names a live session
    issuedTo,   \* native_guest_credential_ids
    conn,       \* desktop_connection_sessions.state
    expired,    \* connections whose deadline has passed
    (* Guest, people *)
    nFence,     \* the durable Native fence: [phase, rev, conn]
    nOS,        \* the OS account: [open, desk]
    nBusy,      \* the command holding the account gate, or NoReq
    nSent,      \* dispatched credential commands not yet accepted
    nSeen,      \* commands a worker has seen completed in the Guest
    idSeen,     \* revocation revisions a worker has seen closed
    (* Control plane, Agents *)
    allowed,    \* enabled Agents with an assignment
    lease,      \* desktop_leases: [st, agent, epoch]
    leaseExpired,
    epoch,      \* desktop_computer_epochs.control_epoch, 0 when absent
    crReq, crDone, crEpoch, \* desktop_computer_revocations
    asess,      \* agent_guest_sessions: [st, lease, epoch, login, uid]
    sync,       \* workers in synchronizeComputerRevocation
    (* Guest, Agents *)
    aExists,    \* Agents whose OS account has been created
    aFence, aOS, aBusy, aSent, aSeen,
    auth,       \* the authority snapshot: [st, epoch, lease, agent, login]
    authSent,   \* dispatched authority publications
    authSeen    \* tombstones a worker has seen published

nativeDB == <<bind, idReq, idDone, acct, digest, issuedTo, conn>>
nativeGuest == <<nFence, nOS, nBusy, nSent>>
nativeSeen == <<nSeen, idSeen>>
people == <<access, session, expired, nativeDB, nativeGuest, nativeSeen>>

leaseDB == <<lease, epoch, crReq, crDone, crEpoch, asess>>
agentGuest == <<aExists, aFence, aOS, aBusy, aSent, auth, authSent>>
agentSeen == <<aSeen, authSeen, sync>>
machines == <<allowed, leaseExpired, leaseDB, agentGuest, agentSeen>>

vars == <<people, machines>>

------------------------------------------------------------------------------
NoReq == [op |-> "none", rev |-> 0, conn |-> None, keep |-> FALSE]
NoFence == [phase |-> "none", rev |-> 0, conn |-> None]
ClosedOS == [open |-> FALSE, desk |-> FALSE]

NoLogin == [op |-> "none", epoch |-> 0, login |-> 0, lease |-> None]
NoAgentFence == [phase |-> "none", epoch |-> 0, login |-> 0, lease |-> None]
NoAuthority ==
    [st |-> "none", epoch |-> 0, lease |-> None, agent |-> None, login |-> 0]
Idle == [pc |-> "idle", rev |-> 0, epoch |-> 0, todo |-> {}]

(* Rows, records and commands. *)

Binding == [st : {"none", "ready", "disabled"}, exp : Conns \cup {None}]
Account == [rev : Nat, op : NativeOps \cup {"none"},
            st : {"unbound", "idle", "pending", "applied"}, conn : Conns \cup {None}]
NativeFence == [phase : NativePhases, rev : Nat, conn : Conns \cup {None}]
OSAccount == [open : BOOLEAN, desk : BOOLEAN]
NativeReq == [op : NativeOps, rev : Nat, conn : Conns]
NativeRun == [op : NativeOps \cup {"none"}, rev : Nat, conn : Conns \cup {None}, keep : BOOLEAN]

Lease == [st : {"none", "active", "closed"}, agent : Agents \cup {None}, epoch : Nat]
AgentSession == [st : {"none", "provisioning", "ready", "revoking", "disabled"},
                 lease : Leases \cup {None}, epoch : Nat, login : Nat, uid : BOOLEAN]
AgentFence == [phase : AgentPhases, epoch : Nat, login : Nat, lease : Leases \cup {None}]
LoginReq == [op : AgentOps, epoch : Nat, login : Nat, lease : Leases]
AgentRun == [op : AgentOps \cup {"none"}, epoch : Nat, login : Nat, lease : Leases \cup {None}]
Authority == [st : {"none", "active", "revoked"}, epoch : Nat,
              lease : Leases \cup {None}, agent : Agents \cup {None}, login : Nat]
AuthReq == [st : {"active"}, epoch : Nat, lease : Leases, agent : Agents] \cup
           [st : {"revoked"}, epoch : Nat, lease : {None}, agent : {None}]
Snapshot == [agent : Agents, lease : Leases, epoch : Nat, login : Nat]
SyncState == [pc : {"idle", "read", "fence", "stop"}, rev : Nat, epoch : Nat,
              todo : SUBSET Snapshot]

NativeTypeOK ==
    /\ access \subseteq Users
    /\ session \subseteq Users
    /\ bind \in [Users -> Binding]
    /\ idReq \in [Users -> Nat]
    /\ idDone \in [Users -> Nat]
    /\ acct \in [Users -> Account]
    /\ digest \subseteq Users
    /\ issuedTo \in [Conns -> Users \cup {None}]
    /\ conn \in [Conns -> {"none", "active", "revoking", "closed"}]
    /\ expired \subseteq Conns
    /\ nFence \in [Users -> NativeFence]
    /\ nOS \in [Users -> OSAccount]
    /\ nBusy \in [Users -> NativeRun]
    /\ nSent \in [Users -> SUBSET NativeReq]
    /\ nSeen \in [Users -> SUBSET NativeReq]
    /\ idSeen \in [Users -> SUBSET Nat]

AgentTypeOK ==
    /\ allowed \subseteq Agents
    /\ lease \in [Leases -> Lease]
    /\ leaseExpired \subseteq Leases
    /\ epoch \in Nat /\ crReq \in Nat /\ crDone \in Nat /\ crEpoch \in Nat
    /\ asess \in [Agents -> AgentSession]
    /\ aExists \subseteq Agents
    /\ aFence \in [Agents -> AgentFence]
    /\ aOS \in [Agents -> OSAccount]
    /\ aBusy \in [Agents -> AgentRun]
    /\ aSent \in [Agents -> SUBSET LoginReq]
    /\ aSeen \in [Agents -> SUBSET LoginReq]
    /\ auth \in Authority
    /\ authSent \subseteq AuthReq
    /\ authSeen \subseteq AuthReq
    /\ sync \in [Workers -> SyncState]

NativeInit ==
    /\ access = {} /\ session = {}
    /\ bind = [u \in Users |-> [st |-> "none", exp |-> None]]
    /\ idReq = [u \in Users |-> 0]
    /\ idDone = [u \in Users |-> 0]
    /\ acct = [u \in Users |-> [rev |-> 0, op |-> "none", st |-> "unbound", conn |-> None]]
    /\ digest = {}
    /\ issuedTo = [c \in Conns |-> None]
    /\ conn = [c \in Conns |-> "none"]
    /\ expired = {}
    /\ nFence = [u \in Users |-> NoFence]
    /\ nOS = [u \in Users |-> ClosedOS]
    /\ nBusy = [u \in Users |-> NoReq]
    /\ nSent = [u \in Users |-> {}]
    /\ nSeen = [u \in Users |-> {}]
    /\ idSeen = [u \in Users |-> {}]

AgentInit ==
    /\ allowed = {}
    /\ lease = [l \in Leases |-> [st |-> "none", agent |-> None, epoch |-> 0]]
    /\ leaseExpired = {}
    /\ epoch = 0
    /\ crReq = 0 /\ crDone = 0 /\ crEpoch = 0
    /\ asess = [a \in Agents |-> [st |-> "none", lease |-> None, epoch |-> 0,
                                  login |-> 0, uid |-> FALSE]]
    /\ aExists = {}
    /\ aFence = [a \in Agents |-> NoAgentFence]
    /\ aOS = [a \in Agents |-> ClosedOS]
    /\ aBusy = [a \in Agents |-> NoLogin]
    /\ aSent = [a \in Agents |-> {}]
    /\ aSeen = [a \in Agents |-> {}]
    /\ auth = NoAuthority
    /\ authSent = {} /\ authSeen = {}
    /\ sync = [w \in Workers |-> Idle]

------------------------------------------------------------------------------
(* Predicates of the control plane that both halves consult.               *)

\* Anything that keeps the desktop from being leased to an Agent
\* (protect_agent_lease_from_native_reservation, migration 028).
Reserved(u) ==
    \/ acct[u].st = "pending"
    \/ acct[u].op = "issue" /\ acct[u].st = "applied"

ConnectionOpen == \E c \in Conns : conn[c] \in {"active", "revoking"}

IdentityRevocationPending == \E u \in Users : idReq[u] > idDone[u]

ComputerRevocationPending == crReq > crDone

ActiveLeases == {l \in Leases : lease[l].st = "active"}

LiveSession(a) == asess[a].st \in {"provisioning", "ready"}

==============================================================================
