---------------------------- MODULE DesktopProofs -----------------------------
(***************************************************************************)
(* The safety of one desktop, for any number of users, connections,        *)
(* Agents, leases and workers.  First the people's half, in the order of   *)
(* NativeAccounts; then the types of the Agents' half; then ControlInv, in *)
(* the order of AgentSessions: leases, session rows, workers, the Guest;   *)
(* last, people and Agents together.  DesktopInvariant states what each    *)
(* step has to keep.                                                       *)
(***************************************************************************)
EXTENDS DesktopInvariant, TLAPS

\* Agents and the workers that clean up after them leave people's state alone.
LEMMA AgentStepsSparePeople == AgentNext => UNCHANGED people
<1> SUFFICES ASSUME AgentNext PROVE UNCHANGED people
    OBVIOUS
<1>1. CASE LeaseStore
    BY Zenon, <1>1 DEF LeaseStore, CreateDesktopLease, BeginAgentGuestSession, LeaseDeadline,
       ReleaseDesktopLease, RevokeDesktopLeases, QueueExpiredComputerLeases
<1>2. ASSUME NEW a \in Agents, SessionStore(a) PROVE UNCHANGED people
    BY Zenon, <1>2 DEF SessionStore, QueueAgentGuestSessionRevocation, BindAgentGuestAccount,
       BeginAgentGuestLogin, MarkAgentGuestSessionReady
<1>3. ASSUME NEW a \in Agents, AgentGuest(a) PROVE UNCHANGED people
    BY Zenon, <1>3 DEF AgentGuest, ProvisionAgentAccount, AcceptAgent, RegisterAgentLogin,
       FinishAgent, InterruptAgent, ReconcileAgent, EndAgentDesktop, ConfirmAgentCommand
<1>4. ASSUME NEW w \in Workers, Synchronize(w) PROVE UNCHANGED people
    BY Zenon, <1>4 DEF Synchronize, ReadRevocationQueue, FenceAuthority, AuthorityFenced,
       StopAgentSession, CompleteAgentGuestSessionRevocation, CompleteComputerRevocation,
       SyncFails, AbandonSync
<1>5. ASSUME NEW q \in authSent, PublishAuthority(q) PROVE UNCHANGED people
    BY Zenon, <1>5 DEF PublishAuthority
<1> QED
    BY Zenon, <1>1, <1>2, <1>3, <1>4, <1>5 DEF AgentNext

------------------------------------------------------------------------------
(* Types.                                                                  *)

\* The commands and fences the actions write are well-formed.
LEMMA NativeRecords ==
    ASSUME NEW q, q.op \in NativeOps, q.rev \in Nat, q.conn \in Conns
    PROVE  NativePending(q) \in NativeFence /\ NativeCompleted(q) \in NativeFence
    BY Zenon DEF NativeOps, NativePending, NativeCompleted, NativePhases, NativeFence

\* An intent that was ever raised is a well-formed command.
LEMMA IntentIsCommand ==
    ASSUME NativeTypeOK, NEW u \in Users, IntentShape(u), acct[u].st \notin {"unbound", "idle"}
    PROVE  Intent(u) \in NativeReq /\ acct[u].conn \in Conns
    BY Zenon DEF NativeTypeOK, Account, IntentShape, Intent, NativeReq, NativeOps

\* Binding an account and settling an intent keep the type of the table.
LEMMA StateType ==
    ASSUME acct \in [Users -> Account], NEW u \in Users, NEW s \in {"idle", "applied"}
    PROVE  [acct EXCEPT ![u].st = s] \in [Users -> Account]
    BY Zenon DEF Account

\* So does forgetting the connection a binding was made for.
LEMMA ForgetType ==
    ASSUME bind \in [Users -> Binding], NEW u \in Users
    PROVE  [bind EXCEPT ![u].exp = None] \in [Users -> Binding]
    BY Zenon DEF Binding

\* Store transactions keep the shape of their tables.
LEMMA StoreTypes ==
    ASSUME NativeTypeOK, NEW u \in Users, IntentShape(u), NativeStore(u)
    PROVE  NativeTypeOK'
<1> USE DEF NativeTypeOK
<1>1. CASE CreateNativeSession(u)
    BY Zenon, <1>1 DEF CreateNativeSession, nativeDB, nativeGuest, nativeSeen
<1>2. CASE NativeSessionExpires(u)
    BY Zenon, <1>2 DEF NativeSessionExpires, nativeGuest, nativeSeen
<1>3. CASE PutGuestIdentityBinding(u)
    BY Zenon, <1>3 DEF PutGuestIdentityBinding, Binding, nativeGuest, nativeSeen
<1>4. CASE RevokeNativeSession(u)
    BY <1>4 DEF RevokeNativeSession, BindDisabled, RequestRaised, ConnsRevoking, Binding,
       nativeGuest, nativeSeen
<1>5. CASE BindNativeGuestAccount(u)
    <2>1. acct' \in [Users -> Account]
        <3>1. acct' = [acct EXCEPT ![u].st = "idle"]
            BY Zenon, <1>5 DEF BindNativeGuestAccount
        <3> QED
            BY Zenon, <3>1, StateType
    <2> QED
        BY Zenon, <1>5, <2>1 DEF BindNativeGuestAccount, nativeGuest, nativeSeen
<1>6. ASSUME NEW c \in Conns, BeginNativeGuestCredential(u, c) PROVE NativeTypeOK'
    BY <1>6 DEF BeginNativeGuestCredential, Dispatch, Account, NativeReq, NativeOps, nativeSeen
<1>7. ASSUME NEW op \in {"retire", "revoke"}, acct[u].st \in {"pending", "applied"},
             BeginNativeGuestCleanup(u, op)
      PROVE  NativeTypeOK'
    <2>1. acct[u].conn \in Conns
        BY Zenon, <1>7, IntentIsCommand
    <2> QED
        BY <1>7, <2>1 DEF BeginNativeGuestCleanup, Dispatch, Account, NativeReq, NativeOps, nativeSeen
<1>8. CASE ResendRevoke(u)
    <2>1. Intent(u) \in NativeReq
        BY Zenon, <1>8 DEF ResendRevoke, Intent, IntentShape, Account, NativeReq, NativeOps
    <2> QED
        BY Zenon, <1>8, <2>1 DEF ResendRevoke, Dispatch, nativeDB, nativeSeen
<1>9. CASE CompleteIssue(u)
    <2>1. acct[u].conn \in Conns
        BY Zenon, <1>9, IntentIsCommand DEF CompleteIssue
    <2>2. bind' \in [Users -> Binding]
        BY ZenonT(40), <1>9, <2>1 DEF CompleteIssue, Binding
    <2>3. acct' \in [Users -> Account]
        <3>1. acct' = [acct EXCEPT ![u].st = "applied"]
            BY Zenon, <1>9 DEF CompleteIssue
        <3> QED
            BY Zenon, <3>1, StateType
    <2> QED
        BY Zenon, <1>9, <2>2, <2>3 DEF CompleteIssue, nativeGuest, nativeSeen
<1>10. CASE CompleteCleanup(u)
    <2>1. bind' \in [Users -> Binding]
        <3>1. bind' = bind \/ bind' = [bind EXCEPT ![u].exp = None]
            BY Zenon, <1>10 DEF CompleteCleanup
        <3> QED
            BY ZenonT(40), <3>1, ForgetType
    <2>2. acct' \in [Users -> Account]
        <3>1. acct' = [acct EXCEPT ![u].st = "applied"]
            BY Zenon, <1>10 DEF CompleteCleanup
        <3> QED
            BY Zenon, <3>1, StateType
    <2> QED
        BY Zenon, <1>10, <2>1, <2>2 DEF CompleteCleanup, ConnClosed, nativeGuest, nativeSeen
<1>11. CASE ConfirmNativeCredential(u)
    <2>1. Intent(u) \in NativeReq
        BY Zenon, <1>11, IntentIsCommand DEF ConfirmNativeCredential
    <2> QED
        BY Zenon, <1>11, <2>1 DEF ConfirmNativeCredential, nativeDB, nativeGuest
<1>12. CASE ObserveIdentityClosed(u)
    BY Zenon, <1>12 DEF ObserveIdentityClosed, nativeDB, nativeGuest
<1>13. ASSUME NEW r \in idSeen[u], CompleteGuestIdentityRevocation(u, r) PROVE NativeTypeOK'
    BY Zenon, <1>13 DEF CompleteGuestIdentityRevocation, Binding, nativeGuest, nativeSeen
<1> QED
    BY Zenon, <1>1, <1>2, <1>3, <1>4, <1>5, <1>6, <1>7, <1>8, <1>9, <1>10, <1>11, <1>12, <1>13
       DEF NativeStore, RetireNativeGuestCredential, RevokeNativeGuestAccount

\* Guest commands keep the shape of the durable records.
LEMMA GuestTypes ==
    ASSUME NativeTypeOK, NEW u \in Users, CommandsOrdered(u), NativeGuest(u)
    PROVE  NativeTypeOK'
<1> USE DEF NativeTypeOK
<1>1. ASSUME NEW q \in nSent[u], AcceptNative(u, q) PROVE NativeTypeOK'
    <2>1. q \in NativeReq
        BY Zenon, <1>1
    <2>2. NativePending(q) \in NativeFence
        BY Zenon, <2>1, NativeRecords DEF NativeReq
    <2>3. PreserveDesktop(nFence[u], q) \in BOOLEAN
        BY Zenon DEF PreserveDesktop
    <2>4. nBusy' \in [Users -> NativeRun]
        BY <1>1, <2>1, <2>3 DEF AcceptNative, NativeRun, NativeReq
    <2> QED
        BY ZenonT(30), <1>1, <2>2, <2>4 DEF AcceptNative, nativeDB, nativeSeen
<1>2. ASSUME nBusy[u] # NoReq
      PROVE  /\ NativeCompleted(nBusy[u]) \in NativeFence
             /\ Applied(u, nBusy[u]) \in OSAccount
    <2>1. NativeCompleted(nBusy[u]) \in NativeFence
        BY Zenon, <1>2 DEF CommandsOrdered, NativeRun, NativeCompleted, NativePhases, NativeOps, NativeFence
    <2>2. Applied(u, nBusy[u]) \in OSAccount
        BY Zenon, <1>2 DEF CommandsOrdered, NativeRun, NativeOps, Applied, OSAccount, ClosedOS
    <2> QED
        BY Zenon, <2>1, <2>2
<1>3. NoReq \in NativeRun /\ ClosedOS \in OSAccount /\ LoginDisabled(nOS[u]) \in OSAccount
    <2>1. NoReq \in NativeRun
        BY Zenon DEF NoReq, NativeRun
    <2>2. ClosedOS \in OSAccount
        BY Zenon DEF ClosedOS, OSAccount
    <2>3. nOS[u] \in OSAccount
        OBVIOUS
    <2>4. LoginDisabled(nOS[u]) \in OSAccount
        BY Zenon, <2>3 DEF OSAccount, LoginDisabled
    <2> QED
        BY Zenon, <2>1, <2>2, <2>4
<1>4. Revoked(nFence[u]) \in NativeFence
    BY ZenonT(40) DEF Revoked, NativeFence, NativePhases
<1>5. CASE FinishNative(u)
    BY Zenon, <1>2, <1>3, <1>5 DEF FinishNative, nativeDB, nativeSeen
<1>6. CASE InterruptNative(u)
    BY <1>2, <1>3, <1>4, <1>6 DEF InterruptNative, nativeDB, nativeSeen
<1>7. CASE ReconcileNative(u)
    BY <1>3, <1>4, <1>7 DEF ReconcileNative, nativeDB, nativeSeen
<1>8. CASE LoginNative(u)
    BY Zenon, <1>8 DEF LoginNative, OSAccount, nativeDB, nativeSeen
<1>9. CASE EndNativeDesktop(u)
    BY Zenon, <1>9 DEF EndNativeDesktop, OSAccount, nativeDB, nativeSeen
<1> QED
    BY Zenon, <1>1, <1>5, <1>6, <1>7, <1>8, <1>9 DEF NativeGuest

\* So do deadlines, releases, expiry and administrative changes.
LEMMA OtherTypes ==
    ASSUME NativeTypeOK,
           \/ QueueExpiredGuestIdentities
           \/ \E c \in Conns : ConnectionDeadline(c) \/ BeginRevokeDesktopConnection(c)
           \/ AccessNext
    PROVE  NativeTypeOK'
<1> USE DEF NativeTypeOK
<1>1. CASE QueueExpiredGuestIdentities
    BY SMTT(40), <1>1 DEF QueueExpiredGuestIdentities, BindDisabled, RequestRaised, Binding,
       nativeGuest, nativeSeen
<1>2. ASSUME NEW c \in Conns, ConnectionDeadline(c) PROVE NativeTypeOK'
    BY Zenon, <1>2 DEF ConnectionDeadline, nativeDB, nativeGuest, nativeSeen
<1>3. ASSUME NEW c \in Conns, BeginRevokeDesktopConnection(c) PROVE NativeTypeOK'
    BY Zenon, <1>3 DEF BeginRevokeDesktopConnection, nativeGuest, nativeSeen
<1>4. ASSUME NEW A \in SUBSET Users, NEW M \in SUBSET Agents, CommitAccessChange(A, M)
      PROVE  NativeTypeOK'
    <2>1. ASSUME NEW S PROVE BindDisabled(S) \in [Users -> Binding] /\ RequestRaised(S) \in [Users -> Nat]
        <3>1. BindDisabled(S) \in [Users -> Binding]
            BY DEF BindDisabled, Binding
        <3>2. RequestRaised(S) \in [Users -> Nat]
            BY DEF RequestRaised
        <3> QED
            BY Zenon, <3>1, <3>2
    <2>2. ConnsRevoking(Users \ A) \in [Conns -> {"none", "active", "revoking", "closed"}]
        BY DEF ConnsRevoking
    <2> QED
        BY Zenon, <1>4, <2>1, <2>2 DEF CommitAccessChange, nativeGuest, nativeSeen
<1> QED
    BY Zenon, <1>1, <1>2, <1>3, <1>4 DEF AccessNext

\* The initial state is well-formed.
LEMMA InitTypes == NativeInit => NativeTypeOK
    BY DEF NativeInit, NativeTypeOK, Binding, Account, NativeFence, OSAccount, NativeRun, NoFence,
       ClosedOS, NoReq, NativePhases

\* The planner never goes back, and repeats a version only to revoke it again or
\* to observe a retirement.
LEMMA PlanOrder ==
    ASSUME NEW f \in NativeFence, NEW q \in NativeReq, NEW E, NativePlan(f, q, E)
    PROVE  /\ q.rev >= f.rev
           /\ q.rev = f.rev => q.op = "revoke" \/ ObserveOnly(f, q)
<1>1. q.rev \in Nat /\ f.rev \in Nat
    BY Zenon DEF NativeFence, NativeReq
<1>2. q.rev >= f.rev
    BY Zenon, <1>1 DEF NativePlan
<1>3. q.rev = f.rev => q.op = "revoke" \/ ObserveOnly(f, q)
    BY <1>1 DEF NativePlan, ObserveOnly
<1> QED
    BY Zenon, <1>2, <1>3

------------------------------------------------------------------------------
(* Frames: what a step that leaves one user's rows and records alone keeps. *)

\* The intent and the Guest's side of it are as they were.
LEMMA GuestFrame ==
    ASSUME NEW u \in Users, GuestInv(u),
           acct'[u] = acct[u], nFence'[u] = nFence[u], nOS'[u] = nOS[u],
           nBusy'[u] = nBusy[u], nSent'[u] = nSent[u], nSeen'[u] = nSeen[u],
           acct[u].rev # 0 => issuedTo'[acct[u].conn] = u
    PROVE  GuestInv(u)'
<1>1. IntentShape(u)' /\ FenceOrdered(u)'
    BY Zenon DEF GuestInv, IntentShape, FenceOrdered
<1>2. CommandsOrdered(u)'
    BY Zenon DEF GuestInv, CommandsOrdered, NotAhead
<1>3. ReceiptsValid(u)'
    BY Zenon DEF GuestInv, ReceiptsValid, NotAhead, Intent
<1> QED
    BY Zenon, <1>1, <1>2, <1>3 DEF GuestInv

\* The revocation queue is as it was and the user is no less entitled.
LEMMA QueueFrame ==
    ASSUME NEW u \in Users, QueueInv(u),
           acct'[u] = acct[u], idReq'[u] = idReq[u], idDone'[u] = idDone[u],
           idSeen'[u] = idSeen[u],
           bind[u].st = "ready" => bind'[u].st = "ready", u \in access => u \in access'
    PROVE  QueueInv(u)'
    BY Zenon DEF QueueInv, ObservationsValid, Entitled

\* A request raised for a user covers the loss of the binding and of access.
LEMMA QueueRaised ==
    ASSUME NEW u \in Users, NativeTypeOK, QueueInv(u),
           acct'[u] = acct[u], idReq'[u] = idReq[u] + 1, idDone'[u] = idDone[u],
           idSeen'[u] = idSeen[u]
    PROVE  QueueInv(u)'
    BY DEF NativeTypeOK, QueueInv, ObservationsValid, Entitled

\* What the intent says about the credential in the Guest.
LEMMA HeatIsReserved ==
    ASSUME NativeTypeOK, NEW u \in Users, GuestInv(u), CanHeat(u)
    PROVE  Reserved(u)
<1> SUFFICES ASSUME ~Reserved(u) PROVE FALSE
    OBVIOUS
<1>1. acct[u] \in Account /\ nFence[u] \in NativeFence /\ nSent[u] \subseteq NativeReq
    BY Zenon DEF NativeTypeOK
<1>2. CASE acct[u].rev = 0
    BY <1>1, <1>2 DEF GuestInv, IntentShape, CommandsOrdered, NotAhead, CanHeat, CredentialLive,
       NoFence, NativeReq
<1>3. CASE acct[u].rev # 0
    <2>1. acct[u].st = "applied" /\ acct[u].op \in {"retire", "revoke"}
        BY Zenon, <1>1, <1>3 DEF Reserved, GuestInv, IntentShape, Account, NativeOps
    <2>2. /\ nFence[u].rev = acct[u].rev
          /\ nFence[u].phase \in {NativeCompleted(Intent(u)).phase, "revoked"}
        BY Zenon, <2>1 DEF GuestInv, ReceiptsValid, Intent
    <2>3. nFence[u].phase \in {"retired", "revoked"}
        BY Zenon, <2>1, <2>2 DEF NativeCompleted, Intent
    <2>4. \A q \in nSent[u] : q.rev <= nFence[u].rev
        BY Zenon, <2>2 DEF GuestInv, CommandsOrdered, NotAhead
    <2> QED
        BY <1>1, <2>3, <2>4 DEF CanHeat, CredentialLive, NativeReq, NativeFence
<1> QED
    BY Zenon, <1>2, <1>3

\* The conjuncts about one user, over all users.
Persons == \A v \in Users : GuestInv(v) /\ QueueInv(v)

\* A new intent (issue, retire or revoke) is a version no command has yet.
LEMMA NewIntent ==
    ASSUME NativeTypeOK, NEW u \in Users, GuestInv(u),
           NEW op \in NativeOps, NEW c \in Conns, NEW q,
           q = [op |-> op, rev |-> acct[u].rev + 1, conn |-> c],
           acct' = [acct EXCEPT ![u] = [rev |-> q.rev, op |-> op, st |-> "pending", conn |-> c]],
           Dispatch(u, q), issuedTo'[c] = u,
           UNCHANGED <<nFence, nOS, nBusy, nSeen>>
    PROVE  GuestInv(u)'
<1>1. acct[u] \in Account /\ nFence[u] \in NativeFence /\ nSent[u] \subseteq NativeReq
      /\ nSeen[u] \subseteq NativeReq /\ nBusy[u] \in NativeRun
    BY Zenon DEF NativeTypeOK
<1>2. acct'[u] = [rev |-> acct[u].rev + 1, op |-> op, st |-> "pending", conn |-> c]
    BY Zenon DEF NativeTypeOK
<1>3. nSent'[u] = nSent[u] \cup {q}
    BY Zenon DEF Dispatch, NativeTypeOK
<1>4. acct[u].rev \in Nat
    BY Zenon, <1>1 DEF Account
<1>5. IntentShape(u)'
    BY <1>2, <1>4 DEF IntentShape, NativeOps
<1>6. CommandsOrdered(u)'
    <2>1. ASSUME NEW p \in nSent'[u] PROVE p.rev > 0 /\ NotAhead(u, p.op, p.rev, p.conn)'
        <3>1. CASE p = q
            BY <3>1, <1>2, <1>4 DEF NotAhead
        <3>2. CASE p \in nSent[u]
            <4>1. p.rev \in Nat /\ p.rev > 0 /\ p.rev <= acct[u].rev
                BY Zenon, <3>2, <1>1 DEF GuestInv, CommandsOrdered, NotAhead, NativeReq
            <4> QED
                BY <4>1, <1>2, <1>4 DEF NotAhead
        <3> QED
            BY Zenon, <3>1, <3>2, <1>3
    <2>2. ASSUME nBusy[u] # NoReq
          PROVE  NotAhead(u, nBusy[u].op, nBusy[u].rev, nBusy[u].conn)'
        <3>1. nBusy[u].rev \in Nat /\ nBusy[u].rev <= acct[u].rev
            BY Zenon, <2>2, <1>1 DEF GuestInv, CommandsOrdered, NotAhead, NativeRun
        <3> QED
            BY <3>1, <1>2, <1>4 DEF NotAhead
    <2> QED
        BY Zenon, <2>1, <2>2 DEF GuestInv, CommandsOrdered
<1>7. FenceOrdered(u)'
    BY <1>1, <1>2, <1>4 DEF GuestInv, FenceOrdered, NativeFence
<1>8. ReceiptsValid(u)'
    <2>1. ASSUME NEW p \in nSeen[u] PROVE p.rev \in Nat /\ p.rev < acct'[u].rev
        BY <1>1, <1>2, <1>4 DEF GuestInv, ReceiptsValid, NotAhead, NativeReq
    <2> QED
        BY <1>2, <1>4, <2>1 DEF ReceiptsValid, NotAhead
<1> QED
    BY Zenon, <1>5, <1>6, <1>7, <1>8 DEF GuestInv

\* Settling an intent needs its receipt and changes nothing else.
LEMMA SettleIntent ==
    ASSUME NativeTypeOK, NEW u \in Users, GuestInv(u),
           acct[u].st = "pending", Intent(u) \in nSeen[u],
           acct' = [acct EXCEPT ![u].st = "applied"],
           UNCHANGED <<nFence, nOS, nBusy, nSent, nSeen, issuedTo>>
    PROVE  GuestInv(u)'
<1>1. acct[u] \in Account
    BY Zenon DEF NativeTypeOK
<1>2. acct'[u] = [acct[u] EXCEPT !.st = "applied"]
    BY Zenon DEF NativeTypeOK
<1>3. /\ acct'[u].rev = acct[u].rev /\ acct'[u].op = acct[u].op
      /\ acct'[u].conn = acct[u].conn /\ acct'[u].st = "applied"
    BY Zenon, <1>1, <1>2 DEF Account
<1>4. IntentShape(u)'
    BY Zenon, <1>1, <1>3 DEF GuestInv, IntentShape, Account
<1>5. CommandsOrdered(u)' /\ FenceOrdered(u)'
    BY Zenon, <1>3 DEF GuestInv, CommandsOrdered, FenceOrdered, NotAhead
<1>6. ReceiptsValid(u)'
    BY Zenon, <1>3 DEF GuestInv, ReceiptsValid, NotAhead, Intent
<1> QED
    BY Zenon, <1>4, <1>5, <1>6 DEF GuestInv

\* Every store transaction of one user keeps the invariant of all users.
LEMMA StorePersons ==
    ASSUME NativeTypeOK, Persons, NEW u \in Users, NativeStore(u)
    PROVE  Persons'
<1> SUFFICES ASSUME NEW v \in Users PROVE GuestInv(v)' /\ QueueInv(v)'
    BY Zenon DEF Persons
<1>0. GuestInv(u) /\ QueueInv(u) /\ GuestInv(v) /\ QueueInv(v)
    BY Zenon DEF Persons
<1>t. /\ acct[u] \in Account /\ acct[v] \in Account /\ bind[u] \in Binding /\ bind[v] \in Binding
      /\ idReq[u] \in Nat /\ idReq[v] \in Nat /\ idDone[u] \in Nat /\ idDone[v] \in Nat
      /\ acct[v].rev # 0 => issuedTo[acct[v].conn] = v
    BY Zenon, <1>0 DEF NativeTypeOK, GuestInv, IntentShape
<1>1. CASE CreateNativeSession(u) \/ NativeSessionExpires(u)
    <2>1. UNCHANGED <<acct, bind, idReq, idDone, idSeen, access, issuedTo, nFence, nOS, nBusy, nSent, nSeen>>
        BY Zenon, <1>1 DEF CreateNativeSession, NativeSessionExpires, nativeDB, nativeGuest, nativeSeen
    <2> QED
        BY Zenon, <1>0, <1>t, <2>1, GuestFrame, QueueFrame
<1>2. CASE PutGuestIdentityBinding(u)
    <2>1. UNCHANGED <<acct, idReq, idDone, idSeen, access, issuedTo, nFence, nOS, nBusy, nSent, nSeen>>
        BY Zenon, <1>2 DEF PutGuestIdentityBinding, nativeGuest, nativeSeen
    <2>2. bind[v].st = "ready" => bind'[v].st = "ready"
        BY Zenon, <1>2 DEF PutGuestIdentityBinding, NativeTypeOK, Binding
    <2> QED
        BY Zenon, <1>0, <1>t, <2>1, <2>2, GuestFrame, QueueFrame
<1>3. CASE RevokeNativeSession(u)
    <2>1. UNCHANGED <<acct, idDone, idSeen, access, issuedTo, nFence, nOS, nBusy, nSent, nSeen>>
        BY Zenon, <1>3 DEF RevokeNativeSession, nativeGuest, nativeSeen
    <2>2. GuestInv(v)'
        BY Zenon, <1>0, <1>t, <2>1, GuestFrame
    <2>3. \/ idReq'[v] = idReq[v] + 1
          \/ idReq'[v] = idReq[v] /\ bind'[v] = bind[v]
        BY Zenon, <1>3 DEF RevokeNativeSession, RequestRaised, BindDisabled
    <2> QED
        BY Zenon, <1>0, <2>1, <2>2, <2>3, QueueFrame, QueueRaised
<1>4. CASE BindNativeGuestAccount(u)
    <2>1. /\ UNCHANGED <<bind, idReq, idDone, idSeen, access, issuedTo, nFence, nOS, nBusy, nSent, nSeen>>
          /\ acct' = [acct EXCEPT ![u].st = "idle"]
          /\ acct[u].st = "unbound"
        BY Zenon, <1>4 DEF BindNativeGuestAccount, nativeGuest, nativeSeen
    <2>2. CASE v = u
        <3>1. /\ acct'[u].rev = acct[u].rev /\ acct'[u].op = acct[u].op
              /\ acct'[u].conn = acct[u].conn /\ acct'[u].st = "idle" /\ acct[u].rev = 0
            BY Zenon, <1>0, <1>t, <2>1 DEF NativeTypeOK, Account, GuestInv, IntentShape
        <3>2. GuestInv(u)'
            BY ZenonT(40), <1>0, <2>1, <3>1 DEF GuestInv, IntentShape, CommandsOrdered, FenceOrdered,
               ReceiptsValid, NotAhead
        <3>3. QueueInv(u)'
            BY Zenon, <1>0, <2>1, <3>1 DEF QueueInv, ObservationsValid, Entitled
        <3> QED
            BY Zenon, <2>2, <3>2, <3>3
    <2>3. CASE v # u
        BY Zenon, <1>0, <1>t, <2>1, <2>3, GuestFrame, QueueFrame DEF NativeTypeOK
    <2> QED
        BY Zenon, <2>2, <2>3
<1>5. ASSUME NEW c \in Conns, BeginNativeGuestCredential(u, c) PROVE GuestInv(v)' /\ QueueInv(v)'
    <2> DEFINE q == [op |-> "issue", rev |-> acct[u].rev + 1, conn |-> c]
    <2>1. /\ UNCHANGED <<bind, idReq, idDone, idSeen, access, nFence, nOS, nBusy, nSeen>>
          /\ acct' = [acct EXCEPT ![u] = [rev |-> q.rev, op |-> "issue", st |-> "pending", conn |-> c]]
          /\ issuedTo' = [issuedTo EXCEPT ![c] = u]
          /\ Dispatch(u, q) /\ Authorized(u) /\ issuedTo[c] = None
        BY Zenon, <1>5 DEF BeginNativeGuestCredential, nativeSeen
    <2>2. CASE v = u
        <3>1. GuestInv(u)'
            <4>1. issuedTo'[c] = u
                BY Zenon, <2>1 DEF NativeTypeOK
            <4> QED
                BY Zenon, <1>0, <2>1, <4>1, NewIntent DEF NativeOps
        <3>2. QueueInv(u)'
            <4>1. ~(idReq[u] > idDone[u]) /\ bind[u].st = "ready" /\ u \in access
                BY Zenon, <2>1 DEF Authorized, IdentityRevocationPending
            <4> QED
                BY Zenon, <1>0, <1>t, <2>1, <4>1 DEF QueueInv, ObservationsValid, Entitled, NativeTypeOK
        <3> QED
            BY Zenon, <2>2, <3>1, <3>2
    <2>3. CASE v # u
        <3>1. acct'[v] = acct[v] /\ nSent'[v] = nSent[v]
            BY Zenon, <2>1, <2>3 DEF Dispatch, NativeTypeOK
        <3>2. acct[v].rev # 0 => issuedTo'[acct[v].conn] = v
            BY Zenon, <1>0, <1>t, <2>1, DesktopAssumption DEF NativeTypeOK, GuestInv, IntentShape
        <3> QED
            BY Zenon, <1>0, <2>1, <3>1, <3>2, GuestFrame, QueueFrame
    <2> QED
        BY Zenon, <2>2, <2>3
<1>6. ASSUME NEW op \in {"retire", "revoke"}, acct[u].st \in {"pending", "applied"},
             acct[u].op # "revoke", op = "retire" => acct[u].op = "issue",
             BeginNativeGuestCleanup(u, op)
      PROVE  GuestInv(v)' /\ QueueInv(v)'
    <2> DEFINE c == acct[u].conn
               q == [op |-> op, rev |-> acct[u].rev + 1, conn |-> c]
    <2>1. /\ UNCHANGED <<bind, idReq, idDone, idSeen, access, issuedTo, nFence, nOS, nBusy, nSeen>>
          /\ acct' = [acct EXCEPT ![u] = [rev |-> q.rev, op |-> op, st |-> "pending", conn |-> c]]
          /\ Dispatch(u, q)
        BY Zenon, <1>6 DEF BeginNativeGuestCleanup, nativeSeen
    <2>2. CASE v = u
        <3>0. acct[u].rev # 0 /\ c \in Conns /\ issuedTo[c] = u
            BY Zenon, <1>0, <1>6, <1>t DEF GuestInv, IntentShape
        <3>1. GuestInv(u)'
            BY Zenon, <1>0, <2>1, <3>0, NewIntent DEF NativeOps
        <3>2. QueueInv(u)'
            <4>1. acct'[u].op = op /\ acct'[u].st = "pending" /\ acct'[u].rev = acct[u].rev + 1
                BY Zenon, <2>1 DEF NativeTypeOK
            <4>2. ASSUME op = "retire" PROVE Entitled(u)'
                BY Zenon, <1>0, <1>6, <2>1, <4>2 DEF QueueInv, Entitled
            <4>3. Entitled(u)'
                BY Zenon, <4>1, <4>2 DEF Entitled
            <4>4. ObservationsValid(u)'
                BY Zenon, <1>0, <1>6, <2>1, <3>0 DEF QueueInv, ObservationsValid
            <4> QED
                BY Zenon, <4>3, <4>4 DEF QueueInv
        <3> QED
            BY Zenon, <2>2, <3>1, <3>2
    <2>3. CASE v # u
        <3>1. acct'[v] = acct[v] /\ nSent'[v] = nSent[v]
            BY Zenon, <2>1, <2>3 DEF Dispatch, NativeTypeOK
        <3> QED
            BY Zenon, <1>0, <1>t, <2>1, <3>1, GuestFrame, QueueFrame
    <2> QED
        BY Zenon, <2>2, <2>3
<1>7. CASE ResendRevoke(u)
    <2>1. /\ UNCHANGED <<acct, bind, idReq, idDone, idSeen, access, issuedTo, nFence, nOS, nBusy, nSeen>>
          /\ nSent' = [nSent EXCEPT ![u] = @ \cup {Intent(u)}]
          /\ acct[u].op = "revoke"
        BY Zenon, <1>7 DEF ResendRevoke, Dispatch, nativeDB, nativeSeen
    <2>2. QueueInv(v)'
        BY Zenon, <1>0, <2>1, QueueFrame
    <2>3. CASE v = u
        <3>1. nSent'[u] = nSent[u] \cup {Intent(u)} /\ acct[u].rev > 0
            BY <1>0, <1>t, <2>1 DEF NativeTypeOK, GuestInv, IntentShape, Account
        <3>2. NotAhead(u, Intent(u).op, Intent(u).rev, Intent(u).conn)
            BY <1>t DEF NotAhead, Intent, Account
        <3>3. CommandsOrdered(u)'
            <4>1. Intent(u).rev > 0
                BY Zenon, <3>1 DEF Intent
            <4>2. \A q \in nSent'[u] : q.rev > 0 /\ NotAhead(u, q.op, q.rev, q.conn)
                BY Zenon, <1>0, <3>1, <3>2, <4>1 DEF GuestInv, CommandsOrdered
            <4> QED
                BY Zenon, <1>0, <2>1, <4>2 DEF GuestInv, CommandsOrdered, NotAhead
        <3> QED
            BY Zenon, <1>0, <2>1, <2>2, <2>3, <3>3 DEF GuestInv, IntentShape, FenceOrdered, ReceiptsValid,
               NotAhead, Intent
    <2>4. CASE v # u
        BY Zenon, <1>0, <1>t, <2>1, <2>2, <2>4, GuestFrame DEF NativeTypeOK
    <2> QED
        BY Zenon, <2>3, <2>4
<1>8. CASE CompleteIssue(u) \/ CompleteCleanup(u)
    <2>1. /\ UNCHANGED <<idReq, idDone, idSeen, access, issuedTo, nFence, nOS, nBusy, nSent, nSeen>>
          /\ acct' = [acct EXCEPT ![u].st = "applied"]
          /\ acct[u].st = "pending" /\ Intent(u) \in nSeen[u]
        BY Zenon, <1>8 DEF CompleteIssue, CompleteCleanup, nativeGuest, nativeSeen
    <2>2. bind'[v].st = bind[v].st
        <3>1. \/ bind' = bind
              \/ bind' = [bind EXCEPT ![u].exp = None]
              \/ bind' = [bind EXCEPT ![u].exp = acct[u].conn]
            BY Zenon, <1>8 DEF CompleteIssue, CompleteCleanup
        <3>2. bind \in [Users -> Binding]
            BY Zenon DEF NativeTypeOK
        <3> QED
            BY <3>1, <3>2 DEF Binding
    <2>3. CASE v = u
        <3>1. GuestInv(u)'
            BY Zenon, <1>0, <2>1, SettleIntent
        <3>2. /\ acct'[u].op = acct[u].op /\ acct'[u].rev = acct[u].rev
              /\ acct'[u].st = "applied"
            BY Zenon, <1>t, <2>1 DEF NativeTypeOK, Account
        <3>3. QueueInv(u)'
            BY Zenon, <1>0, <2>1, <2>2, <2>3, <3>2 DEF QueueInv, ObservationsValid, Entitled
        <3> QED
            BY Zenon, <2>3, <3>1, <3>3
    <2>4. CASE v # u
        BY Zenon, <1>0, <1>t, <2>1, <2>2, <2>4, GuestFrame, QueueFrame DEF NativeTypeOK
    <2> QED
        BY Zenon, <2>3, <2>4
<1>9. CASE ConfirmNativeCredential(u)
    <2>1. /\ UNCHANGED <<acct, bind, idReq, idDone, idSeen, access, issuedTo, nFence, nOS, nBusy, nSent>>
          /\ nSeen' = [nSeen EXCEPT ![u] = @ \cup {Intent(u)}]
          /\ acct[u].st \in {"pending", "applied"}
          /\ nFence[u] = NativeCompleted(Intent(u))
          /\ acct[u].op = "revoke" => Closed(u)
        BY Zenon, <1>9 DEF ConfirmNativeCredential, Intent, nativeDB, nativeGuest
    <2>2. QueueInv(v)'
        BY Zenon, <1>0, <2>1, QueueFrame
    <2>3. CASE v = u
        <3>1. nSeen'[u] = nSeen[u] \cup {Intent(u)}
            BY Zenon, <2>1 DEF NativeTypeOK
        <3>2. Closed(u) => nOS[u] = ClosedOS
            <4>1. nOS[u] \in OSAccount
                BY Zenon DEF NativeTypeOK
            <4> QED
                BY Zenon, <4>1 DEF Closed, ClosedOS, OSAccount
        <3>3. nFence[u].rev = Intent(u).rev
            BY <2>1 DEF NativeCompleted
        <3>4. ReceiptsValid(u)'
            <4>1. ASSUME NEW q \in nSeen'[u]
                  PROVE  /\ NotAhead(u, q.op, q.rev, q.conn)
                         /\ q.rev = acct[u].rev =>
                               /\ nFence[u].rev = q.rev
                               /\ nFence[u].phase \in {NativeCompleted(q).phase, "revoked"}
                               /\ q.op = "revoke" => nOS[u] = ClosedOS
                <5>1. CASE q \in nSeen[u]
                    BY Zenon, <1>0, <5>1 DEF GuestInv, ReceiptsValid
                <5>2. CASE q = Intent(u)
                    <6>1. NotAhead(u, q.op, q.rev, q.conn)
                        BY <1>t, <5>2 DEF NotAhead, Intent, Account
                    <6>2. q.op = "revoke" => nOS[u] = ClosedOS
                        BY Zenon, <2>1, <3>2, <5>2 DEF Intent
                    <6> QED
                        BY Zenon, <2>1, <3>3, <5>2, <6>1, <6>2
                <5> QED
                    BY Zenon, <3>1, <5>1, <5>2
            <4> QED
                BY Zenon, <1>0, <2>1, <3>1, <4>1 DEF GuestInv, ReceiptsValid, NotAhead, Intent
        <3> QED
            BY Zenon, <1>0, <2>1, <2>2, <2>3, <3>4 DEF GuestInv, IntentShape, CommandsOrdered, FenceOrdered,
               NotAhead
    <2>4. CASE v # u
        BY Zenon, <1>0, <1>t, <2>1, <2>2, <2>4, GuestFrame DEF NativeTypeOK
    <2> QED
        BY Zenon, <2>3, <2>4
<1>10. CASE ObserveIdentityClosed(u)
    <2>1. /\ UNCHANGED <<acct, bind, idReq, idDone, access, issuedTo, nFence, nOS, nBusy, nSent, nSeen>>
          /\ idSeen' = [idSeen EXCEPT ![u] = @ \cup {idReq[u]}]
          /\ \/ acct[u].st \in {"unbound", "idle"}
             \/ acct[u].op = "revoke" /\ acct[u].st = "applied"
        BY Zenon, <1>10 DEF ObserveIdentityClosed, nativeDB, nativeGuest
    <2>2. GuestInv(v)'
        BY Zenon, <1>0, <1>t, <2>1, GuestFrame
    <2>3. CASE v = u
        <3>1. idSeen'[u] = idSeen[u] \cup {idReq[u]}
            BY Zenon, <2>1 DEF NativeTypeOK
        <3>2. acct[u].rev = 0 \/ (acct[u].op = "revoke" /\ acct[u].st = "applied")
            BY Zenon, <1>0, <2>1 DEF GuestInv, IntentShape
        <3>3. ObservationsValid(u)'
            BY <1>0, <1>t, <2>1, <3>1, <3>2 DEF QueueInv, ObservationsValid
        <3> QED
            BY Zenon, <1>0, <2>1, <2>2, <2>3, <3>3 DEF QueueInv, Entitled
    <2>4. CASE v # u
        BY Zenon, <1>0, <2>1, <2>2, <2>4, QueueFrame DEF NativeTypeOK
    <2> QED
        BY Zenon, <2>3, <2>4
<1>11. ASSUME NEW r \in idSeen[u], CompleteGuestIdentityRevocation(u, r)
       PROVE  GuestInv(v)' /\ QueueInv(v)'
    <2>1. /\ UNCHANGED <<acct, idReq, idSeen, access, issuedTo, nFence, nOS, nBusy, nSent, nSeen>>
          /\ idDone' = [idDone EXCEPT ![u] = r]
          /\ bind' = [bind EXCEPT ![u] = [st |-> "disabled", exp |-> None]]
          /\ r = idReq[u] /\ idDone[u] < r
        BY Zenon, <1>11 DEF CompleteGuestIdentityRevocation, nativeGuest, nativeSeen
    <2>2. GuestInv(v)'
        BY Zenon, <1>0, <1>t, <2>1, GuestFrame
    <2>3. CASE v = u
        <3>1. acct[u].rev = 0 \/ acct[u].op = "revoke"
            BY Zenon, <1>0, <1>11, <2>1 DEF QueueInv, ObservationsValid
        <3>2. acct[u].op \notin {"issue", "retire"}
            BY Zenon, <1>0, <3>1 DEF GuestInv, IntentShape
        <3>3. idDone'[u] = idReq[u]
            BY Zenon, <2>1 DEF NativeTypeOK
        <3>4. ObservationsValid(u)'
            BY Zenon, <1>0, <1>t, <2>1, <3>3 DEF QueueInv, ObservationsValid
        <3> QED
            BY Zenon, <2>1, <2>2, <2>3, <3>2, <3>4 DEF QueueInv, Entitled
    <2>4. CASE v # u
        BY Zenon, <1>0, <2>1, <2>2, <2>4, QueueFrame DEF NativeTypeOK
    <2> QED
        BY Zenon, <2>3, <2>4
<1>12. CASE RetireNativeGuestCredential(u)
    BY Zenon, <1>6, <1>12 DEF RetireNativeGuestCredential
<1>13. CASE RevokeNativeGuestAccount(u)
    BY Zenon, <1>6, <1>13 DEF RevokeNativeGuestAccount
<1> QED
    BY Zenon, <1>1, <1>2, <1>3, <1>4, <1>5, <1>7, <1>8, <1>9, <1>10, <1>11, <1>12, <1>13 DEF NativeStore

\* A fence write of a user that keeps the order of versions, the receipts and
\* the gate keeps that user's invariant: the shape shared by all Guest commands.
LEMMA FenceWrite ==
    ASSUME NativeTypeOK, NEW u \in Users, GuestInv(u), acct[u].rev # 0,
           UNCHANGED <<acct, issuedTo, nSeen>>, nSent'[u] \subseteq nSent[u],
           CommandsOrdered(u)', FenceOrdered(u)',
           \A q \in nSeen[u] : q.rev = acct[u].rev =>
               /\ nFence'[u].rev = q.rev
               /\ nFence'[u].phase \in {NativeCompleted(q).phase, "revoked"}
               /\ q.op = "revoke" => nOS'[u] = ClosedOS
    PROVE  GuestInv(u)'
    BY Zenon DEF GuestInv, IntentShape, ReceiptsValid, NotAhead, Intent

\* Every Guest step of one user keeps the invariant of all users.
LEMMA GuestPersons ==
    ASSUME NativeTypeOK, Persons, NEW u \in Users, NativeGuest(u)
    PROVE  Persons'
<1> SUFFICES ASSUME NEW v \in Users PROVE GuestInv(v)' /\ QueueInv(v)'
    BY Zenon DEF Persons
<1>0. GuestInv(u) /\ GuestInv(v) /\ QueueInv(v)
    BY Zenon DEF Persons
<1>t. /\ acct[u] \in Account /\ nFence[u] \in NativeFence /\ nBusy[u] \in NativeRun
      /\ nSent[u] \subseteq NativeReq /\ nSeen[u] \subseteq NativeReq /\ nOS[u] \in OSAccount
      /\ acct[v].rev # 0 => issuedTo[acct[v].conn] = v
    BY Zenon, <1>0 DEF NativeTypeOK, GuestInv, IntentShape
<1>f. UNCHANGED <<acct, bind, idReq, idDone, idSeen, access, issuedTo, nSeen>>
    BY Zenon DEF NativeGuest, AcceptNative, FinishNative, InterruptNative, ReconcileNative, LoginNative,
       EndNativeDesktop, nativeDB, nativeSeen
<1>q. QueueInv(v)'
    BY Zenon, <1>0, <1>f, QueueFrame
<1>o. CASE v # u
    <2>1. /\ nFence'[v] = nFence[v] /\ nOS'[v] = nOS[v] /\ nBusy'[v] = nBusy[v]
          /\ nSent'[v] = nSent[v]
        <3>1. ASSUME NEW q \in nSent[u], AcceptNative(u, q)
              PROVE  /\ nFence'[v] = nFence[v] /\ nOS'[v] = nOS[v] /\ nBusy'[v] = nBusy[v]
                     /\ nSent'[v] = nSent[v]
            BY Zenon, <1>o, <3>1 DEF AcceptNative, NativeTypeOK
        <3>2. CASE FinishNative(u) \/ InterruptNative(u)
            BY Zenon, <1>o, <3>2 DEF FinishNative, InterruptNative, NativeTypeOK
        <3>3. CASE ReconcileNative(u) \/ LoginNative(u) \/ EndNativeDesktop(u)
            BY Zenon, <1>o, <3>3 DEF ReconcileNative, LoginNative, EndNativeDesktop, NativeTypeOK
        <3> QED
            BY Zenon, <3>1, <3>2, <3>3 DEF NativeGuest
    <2> QED
        BY Zenon, <1>0, <1>t, <1>f, <1>q, <2>1, GuestFrame
<1>d. nOS[u] = ClosedOS => LoginDisabled(nOS[u]) = ClosedOS
    <2>1. nOS[u] = ClosedOS => nOS[u].open = FALSE
        BY DEF ClosedOS
    <2>2. nOS[u].open = FALSE => LoginDisabled(nOS[u]) = nOS[u]
        BY Zenon, <1>t DEF OSAccount, LoginDisabled
    <2> QED
        BY Zenon, <2>1, <2>2
<1>s. ASSUME NEW q \in nSeen[u], q.rev = acct[u].rev
      PROVE  /\ q.op = acct[u].op
             /\ nFence[u].rev = q.rev
             /\ nFence[u].phase \in {NativeCompleted(q).phase, "revoked"}
             /\ q.op = "revoke" => nOS[u] = ClosedOS
    BY Zenon, <1>0, <1>s DEF GuestInv, ReceiptsValid, NotAhead
<1>1. ASSUME NEW q \in nSent[u], AcceptNative(u, q) PROVE GuestInv(u)'
    <2>1. /\ nBusy[u] = NoReq /\ nOS' = nOS /\ NativePlan(nFence[u], q, expired)
          /\ nSent'[u] = nSent[u] \ {q}
        BY Zenon, <1>1 DEF AcceptNative, NativeTypeOK
    <2>2. /\ q \in NativeReq /\ q.rev > 0 /\ NotAhead(u, q.op, q.rev, q.conn)
        BY Zenon, <1>0, <1>t DEF GuestInv, CommandsOrdered
    <2>3. acct[u].rev # 0
        <3>1. q.rev \in Nat /\ acct[u].rev \in Nat
            BY Zenon, <1>t, <2>2 DEF NativeReq, Account
        <3>2. q.rev <= acct[u].rev
            BY Zenon, <2>2 DEF NotAhead
        <3> QED
            BY <2>2, <3>1, <3>2
    <2>4. CASE ObserveOnly(nFence[u], q)
        <3>1. nFence' = nFence /\ nBusy' = nBusy
            BY Zenon, <1>1, <2>4 DEF AcceptNative
        <3>2. CommandsOrdered(u)'
            BY Zenon, <1>0, <1>f, <2>1, <3>1 DEF GuestInv, CommandsOrdered, NotAhead
        <3>3. FenceOrdered(u)'
            BY Zenon, <1>0, <1>f, <3>1 DEF GuestInv, FenceOrdered
        <3> QED
            BY Zenon, <1>0, <1>f, <1>s, <2>1, <2>3, <3>1, <3>2, <3>3, FenceWrite
    <2>5. CASE ~ObserveOnly(nFence[u], q)
        <3> DEFINE b == [op |-> q.op, rev |-> q.rev, conn |-> q.conn,
                         keep |-> PreserveDesktop(nFence[u], q)]
        <3>1. nFence'[u] = NativePending(q) /\ nBusy'[u] = b
            BY Zenon, <1>1, <2>5 DEF AcceptNative, NativeTypeOK
        <3>2. NativePending(b) = NativePending(q)
            BY Zenon DEF NativePending
        <3>3. CommandsOrdered(u)'
            BY SMTT(40), <1>0, <1>f, <2>1, <2>2, <3>1, <3>2 DEF GuestInv, CommandsOrdered, NotAhead, NativeReq
        <3>4. nFence'[u].rev = q.rev /\ nFence'[u].conn = q.conn
            BY <3>1 DEF NativePending
        <3>5. nFence'[u].phase \in PhasesOf(q.op)
            BY <2>2, <3>1 DEF NativePending, PhasesOf, NativeReq, NativeOps
        <3>6. FenceOrdered(u)'
            BY Zenon, <1>f, <2>2, <3>4, <3>5 DEF FenceOrdered, NotAhead
        <3>7. ASSUME NEW p \in nSeen[u], p.rev = acct[u].rev
              PROVE  /\ nFence'[u].rev = p.rev
                     /\ nFence'[u].phase \in {NativeCompleted(p).phase, "revoked"}
                     /\ p.op = "revoke" => nOS'[u] = ClosedOS
            <4>0. nFence[u].rev = acct[u].rev /\ q.rev >= nFence[u].rev
                BY Zenon, <1>s, <1>t, <2>1, <2>2, <3>7, PlanOrder
            <4>1. q.rev = acct[u].rev /\ q.op = acct[u].op /\ nFence[u].rev = q.rev
                <5>1. q.rev <= acct[u].rev /\ (q.rev = acct[u].rev => q.op = acct[u].op)
                    BY Zenon, <2>2 DEF NotAhead
                <5>2. q.rev \in Nat /\ acct[u].rev \in Nat
                    BY Zenon, <1>t, <2>2 DEF NativeReq, Account
                <5> QED
                    BY <4>0, <5>1, <5>2
            <4>2. q.op = "revoke"
                BY Zenon, <1>t, <2>1, <2>2, <2>5, <4>1, PlanOrder
            <4>3. nFence'[u].phase = "revoked"
                BY <3>1, <4>2 DEF NativePending
            <4> QED
                BY Zenon, <1>s, <2>1, <3>4, <3>7, <4>1, <4>3
        <3> QED
            BY Zenon, <1>0, <1>f, <2>1, <2>3, <3>3, <3>6, <3>7, FenceWrite
    <2> QED
        BY Zenon, <2>4, <2>5
<1>b. ASSUME nBusy[u] # NoReq
      PROVE  /\ acct[u].rev # 0
             /\ nBusy[u].op \in NativeOps
             /\ NotAhead(u, nBusy[u].op, nBusy[u].rev, nBusy[u].conn)
             /\ nFence[u].rev = nBusy[u].rev /\ nFence[u].conn = nBusy[u].conn
             /\ nFence[u] = NativePending(nBusy[u])
             /\ nFence[u].phase = "revoked" => Applied(u, nBusy[u]) = ClosedOS
    <2>1. /\ nBusy[u].op \in NativeOps /\ nBusy[u].rev > 0
          /\ NotAhead(u, nBusy[u].op, nBusy[u].rev, nBusy[u].conn)
          /\ nFence[u] = NativePending(nBusy[u])
        BY Zenon, <1>0, <1>b DEF GuestInv, CommandsOrdered
    <2>2. acct[u].rev # 0
        BY <1>t, <2>1 DEF NotAhead, NativeRun, Account
    <2>3. nFence[u].phase = "revoked" => nBusy[u].op = "revoke"
        BY <2>1 DEF NativePending, NativeOps
    <2>4. nBusy[u].op = "revoke" => Applied(u, nBusy[u]) = ClosedOS
        BY Zenon DEF Applied
    <2> QED
        BY <2>1, <2>2, <2>3, <2>4 DEF NativePending
<1>2. ASSUME FinishNative(u) PROVE GuestInv(u)'
    <2>1. /\ nBusy[u] # NoReq /\ nSent' = nSent /\ nBusy'[u] = NoReq
          /\ nFence'[u] = NativeCompleted(nBusy[u]) /\ nOS'[u] = Applied(u, nBusy[u])
        BY Zenon, <1>2 DEF FinishNative, NativeTypeOK
    <2>2. nFence'[u].rev = nBusy[u].rev /\ nFence'[u].conn = nBusy[u].conn
        BY <2>1 DEF NativeCompleted
    <2>3. CommandsOrdered(u)'
        BY Zenon, <1>0, <1>f, <2>1 DEF GuestInv, CommandsOrdered, NotAhead
    <2>4. nFence'[u].phase \in PhasesOf(nBusy[u].op)
        BY <1>b, <2>1 DEF NativeCompleted, PhasesOf, NativeOps
    <2>5. FenceOrdered(u)'
        BY Zenon, <1>b, <1>f, <2>1, <2>2, <2>4 DEF FenceOrdered, NotAhead
    <2>6. ASSUME NEW p \in nSeen[u], p.rev = acct[u].rev
          PROVE  /\ nFence'[u].rev = p.rev
                 /\ nFence'[u].phase \in {NativeCompleted(p).phase, "revoked"}
                 /\ p.op = "revoke" => nOS'[u] = ClosedOS
        <3>1. nBusy[u].rev = acct[u].rev /\ nBusy[u].op = p.op
            BY Zenon, <1>b, <1>s, <2>1, <2>6 DEF NotAhead
        <3>2. NativeCompleted(nBusy[u]).phase = NativeCompleted(p).phase
            BY Zenon, <3>1 DEF NativeCompleted
        <3>3. p.op = "revoke" => nOS'[u] = ClosedOS
            BY Zenon, <2>1, <3>1 DEF Applied
        <3> QED
            BY Zenon, <2>1, <2>2, <2>6, <3>1, <3>2, <3>3
    <2> QED
        BY Zenon, <1>0, <1>b, <1>f, <2>1, <2>3, <2>5, <2>6, FenceWrite
<1>r. ASSUME acct[u].rev # 0,
             nFence'[u] \in {nFence[u], Revoked(nFence[u])}, nBusy'[u] = NoReq, nSent' = nSent,
             nFence[u].phase = "revoked" /\ nOS[u] = ClosedOS => nOS'[u] = ClosedOS
      PROVE  GuestInv(u)'
    <2>1. /\ nFence'[u].rev = nFence[u].rev /\ nFence'[u].conn = nFence[u].conn
          /\ nFence'[u].phase \in {nFence[u].phase, "revoked"}
        BY Zenon, <1>t, <1>r DEF Revoked, NativeFence
    <2>2. CommandsOrdered(u)'
        BY Zenon, <1>0, <1>f, <1>r DEF GuestInv, CommandsOrdered, NotAhead
    <2>3. "revoked" \in PhasesOf(acct[u].op)
        BY Zenon, <1>0, <1>r, <1>t DEF PhasesOf, GuestInv, IntentShape, Account, NativeOps
    <2>4. FenceOrdered(u)'
        BY Zenon, <1>0, <1>f, <2>1, <2>3 DEF GuestInv, FenceOrdered
    <2>5. ASSUME NEW p \in nSeen[u], p.rev = acct[u].rev
          PROVE  /\ nFence'[u].rev = p.rev
                 /\ nFence'[u].phase \in {NativeCompleted(p).phase, "revoked"}
                 /\ p.op = "revoke" => nOS'[u] = ClosedOS
        <3>1. p.op = "revoke" => nFence[u].phase = "revoked"
            BY Zenon, <1>s, <2>5 DEF NativeCompleted
        <3> QED
            BY Zenon, <1>r, <1>s, <2>1, <2>5, <3>1
    <2> QED
        BY Zenon, <1>0, <1>f, <1>r, <2>2, <2>4, <2>5, FenceWrite
<1>3. ASSUME InterruptNative(u) PROVE GuestInv(u)'
    <2>1. /\ nBusy[u] # NoReq /\ nSent' = nSent /\ nBusy'[u] = NoReq
          /\ nFence'[u] \in {nFence[u], Revoked(nFence[u])}
          /\ nOS'[u] \in {nOS[u], LoginDisabled(nOS[u]), Applied(u, nBusy[u]), ClosedOS}
        BY Zenon, <1>3 DEF InterruptNative, NativeTypeOK
    <2> QED
        BY Zenon, <1>b, <1>d, <1>r, <2>1
<1>4. ASSUME ReconcileNative(u) PROVE GuestInv(u)'
    <2>1. /\ nFence[u] # NoFence /\ nSent' = nSent /\ nBusy'[u] = NoReq
          /\ nFence'[u] = Revoked(nFence[u])
          /\ nOS'[u] \in {nOS[u], LoginDisabled(nOS[u]), ClosedOS}
        BY Zenon, <1>4 DEF ReconcileNative, NativeTypeOK
    <2>2. acct[u].rev # 0
        BY Zenon, <1>0, <2>1 DEF GuestInv, IntentShape
    <2> QED
        BY Zenon, <1>d, <1>r, <2>1, <2>2
<1>5. ASSUME LoginNative(u) PROVE GuestInv(u)'
    <2>1. /\ nFence[u].phase = "issued" /\ nSent' = nSent /\ nBusy'[u] = NoReq
          /\ nFence'[u] = nFence[u]
        BY Zenon, <1>5 DEF LoginNative, NativeTypeOK
    <2>2. acct[u].rev # 0
        BY <1>0, <2>1 DEF GuestInv, IntentShape, NoFence
    <2> QED
        BY Zenon, <1>r, <2>1, <2>2
<1>6. ASSUME EndNativeDesktop(u) PROVE GuestInv(u)'
    <2>1. UNCHANGED <<nFence, nSent, nBusy>> /\ nOS[u] # ClosedOS
        BY <1>6 DEF EndNativeDesktop, ClosedOS
    <2>2. acct[u].rev # 0
        BY Zenon, <1>0, <2>1 DEF GuestInv, IntentShape
    <2>3. CommandsOrdered(u)' /\ FenceOrdered(u)'
        BY Zenon, <1>0, <1>f, <2>1 DEF GuestInv, CommandsOrdered, FenceOrdered, NotAhead
    <2> QED
        BY Zenon, <1>0, <1>f, <1>s, <2>1, <2>2, <2>3, FenceWrite
<1>u. GuestInv(u)'
    BY Zenon, <1>1, <1>2, <1>3, <1>4, <1>5, <1>6 DEF NativeGuest
<1> QED
    BY Zenon, <1>o, <1>q, <1>u

\* Deadlines, releases, expiry and administrative changes keep it too.
LEMMA OtherPersons ==
    ASSUME NativeTypeOK, Persons,
           \/ QueueExpiredGuestIdentities
           \/ \E c \in Conns : ConnectionDeadline(c) \/ BeginRevokeDesktopConnection(c)
           \/ AccessNext
    PROVE  Persons'
<1> SUFFICES ASSUME NEW v \in Users PROVE GuestInv(v)' /\ QueueInv(v)'
    BY Zenon DEF Persons
<1>0. GuestInv(v) /\ QueueInv(v) /\ (acct[v].rev # 0 => issuedTo[acct[v].conn] = v)
    BY Zenon DEF Persons, GuestInv, IntentShape
<1>1. UNCHANGED <<acct, idDone, idSeen, issuedTo, nFence, nOS, nBusy, nSent, nSeen>>
    BY Zenon DEF QueueExpiredGuestIdentities, ConnectionDeadline, BeginRevokeDesktopConnection,
       AccessNext, CommitAccessChange, nativeDB, nativeGuest, nativeSeen
<1>2. \/ idReq'[v] = idReq[v] + 1
      \/ /\ idReq'[v] = idReq[v]
         /\ bind[v].st = "ready" => bind'[v].st = "ready" /\ (v \in access => v \in access')
    <2>1. CASE QueueExpiredGuestIdentities
        BY Zenon, <2>1 DEF QueueExpiredGuestIdentities, RequestRaised, BindDisabled
    <2>2. CASE \E c \in Conns : ConnectionDeadline(c) \/ BeginRevokeDesktopConnection(c)
        BY Zenon, <2>2 DEF ConnectionDeadline, BeginRevokeDesktopConnection, nativeDB
    <2>3. CASE AccessNext
        BY Zenon, <2>3 DEF AccessNext, CommitAccessChange, RequestRaised, BindDisabled
    <2> QED
        BY Zenon, <2>1, <2>2, <2>3
<1>3. GuestInv(v)'
    BY Zenon, <1>0, <1>1, GuestFrame
<1>4. CASE idReq'[v] = idReq[v] + 1
    BY Zenon, <1>0, <1>1, <1>3, <1>4, QueueRaised
<1>5. CASE /\ idReq'[v] = idReq[v]
           /\ bind[v].st = "ready" => bind'[v].st = "ready" /\ (v \in access => v \in access')
    BY Zenon, <1>0, <1>1, <1>3, <1>5 DEF QueueInv, ObservationsValid, Entitled
<1> QED
    BY Zenon, <1>2, <1>4, <1>5

------------------------------------------------------------------------------
(* The conjuncts about several users or about connections.                 *)

\* Only a new issue lets a user have a credential who could not have one before.
LEMMA HeatOrigin ==
    ASSUME NativeTypeOK, Persons, Next, NEW v \in Users, CanHeat(v)'
    PROVE  CanHeat(v) \/ \E c \in Conns : BeginNativeGuestCredential(v, c)
<1>0. /\ acct[v] \in Account /\ nFence[v] \in NativeFence /\ nSent[v] \subseteq NativeReq
      /\ GuestInv(v)
    BY Zenon DEF NativeTypeOK, Persons
<1>1. ASSUME nFence'[v] = nFence[v], \A q \in nSent'[v] : q.op = "issue" => q \in nSent[v]
      PROVE  CanHeat(v)
    BY Zenon, <1>1 DEF CanHeat, CredentialLive
<1>2. ASSUME NEW u \in Users, NativeGuest(u) PROVE CanHeat(v)
    <2>1. CASE u # v
        <3>1. nFence'[v] = nFence[v] /\ nSent'[v] = nSent[v]
            <4>1. nFence \in [Users -> NativeFence] /\ nSent \in [Users -> SUBSET NativeReq]
                BY Zenon DEF NativeTypeOK
            <4>2. ASSUME NEW q \in nSent[u], AcceptNative(u, q)
                  PROVE  nFence'[v] = nFence[v] /\ nSent'[v] = nSent[v]
                BY Zenon, <2>1, <4>1, <4>2 DEF AcceptNative
            <4>3. CASE \/ FinishNative(u) \/ InterruptNative(u) \/ ReconcileNative(u)
                       \/ LoginNative(u) \/ EndNativeDesktop(u)
                BY Zenon, <2>1, <4>1, <4>3 DEF FinishNative, InterruptNative, ReconcileNative,
                   LoginNative, EndNativeDesktop
            <4> QED
                BY Zenon, <1>2, <4>2, <4>3 DEF NativeGuest
        <3> QED
            BY Zenon, <3>1 DEF CanHeat, CredentialLive
    <2>2. ASSUME NEW q \in nSent[v], AcceptNative(v, q) PROVE CanHeat(v)
        <3>1. CASE ObserveOnly(nFence[v], q)
            BY Zenon, <2>2, <3>1 DEF AcceptNative, NativeTypeOK, CanHeat, CredentialLive
        <3>2. CASE ~ObserveOnly(nFence[v], q)
            <4>1. /\ nFence'[v] = NativePending(q) /\ nSent'[v] = nSent[v] \ {q}
                  /\ NativePlan(nFence[v], q, expired) /\ q \in NativeReq
                BY Zenon, <2>2, <3>2, <1>0 DEF AcceptNative, NativeTypeOK
            <4>2. CASE q.op = "issue"
                BY <1>0, <4>1, <4>2 DEF NativePlan, CanHeat, NativeFence, NativeReq
            <4>3. CASE q.op = "retire"
                BY Zenon, <1>0, <3>2, <4>1, <4>3 DEF NativePlan, ObserveOnly, CanHeat, CredentialLive
            <4>4. CASE q.op = "revoke"
                <5>1. nFence'[v].phase = "revoked" /\ nFence'[v].rev = q.rev /\ q.rev >= nFence[v].rev
                    BY <4>1, <4>4 DEF NativePending, NativePlan
                <5> QED
                    BY <1>0, <4>1, <5>1 DEF CanHeat, CredentialLive, NativeFence, NativeReq
            <4> QED
                BY Zenon, <4>1, <4>2, <4>3, <4>4 DEF NativeReq, NativeOps
        <3> QED
            BY Zenon, <3>1, <3>2
    <2>3. ASSUME nBusy[v] # NoReq, nSent' = nSent,
                 nFence'[v] \in {nFence[v], Revoked(nFence[v]), NativeCompleted(nBusy[v])}
          PROVE  CanHeat(v)
        <3>1. nFence[v] = NativePending(nBusy[v]) /\ nBusy[v].op \in NativeOps
            BY Zenon, <1>0, <2>3 DEF GuestInv, CommandsOrdered
        <3>2. /\ nFence'[v].rev = nFence[v].rev
              /\ nFence'[v].phase \in {"issuing", "issued", "retiring"} =>
                     nFence[v].phase \in {"issuing", "retiring"}
            BY <1>0, <2>3, <3>1 DEF NativePending, NativeCompleted, Revoked, NativeFence, NativeOps
        <3> QED
            BY Zenon, <2>3, <3>2 DEF CanHeat, CredentialLive
    <2>4. CASE FinishNative(v) \/ InterruptNative(v)
        BY Zenon, <2>3, <2>4 DEF FinishNative, InterruptNative, NativeTypeOK
    <2>5. CASE ReconcileNative(v)
        <3>1. nSent' = nSent /\ nFence'[v] = Revoked(nFence[v])
            BY Zenon, <2>5 DEF ReconcileNative, NativeTypeOK
        <3>2. nFence'[v].rev = nFence[v].rev /\ nFence'[v].phase = "revoked"
            BY Zenon, <1>0, <3>1 DEF Revoked, NativeFence
        <3> QED
            BY Zenon, <3>1, <3>2 DEF CanHeat, CredentialLive
    <2>6. CASE LoginNative(v) \/ EndNativeDesktop(v)
        BY Zenon, <2>6 DEF LoginNative, EndNativeDesktop, CanHeat, CredentialLive
    <2> QED
        BY Zenon, <1>2, <2>1, <2>2, <2>4, <2>5, <2>6 DEF NativeGuest
<1>3. ASSUME NEW u \in Users, NativeStore(u)
      PROVE  CanHeat(v) \/ \E c \in Conns : BeginNativeGuestCredential(v, c)
    <2>1. ASSUME NEW c \in Conns, BeginNativeGuestCredential(u, c), u # v PROVE CanHeat(v)
        <3>1. nFence' = nFence /\ nSent'[v] = nSent[v]
            BY Zenon, <2>1 DEF BeginNativeGuestCredential, Dispatch, NativeTypeOK
        <3> QED
            BY Zenon, <1>1, <3>1
    <2>2. ASSUME NEW op \in {"retire", "revoke"}, BeginNativeGuestCleanup(u, op) PROVE CanHeat(v)
        <3>1. /\ nFence' = nFence
              /\ \A q \in nSent'[v] : q \in nSent[v] \/ q.op = op
            BY <2>2 DEF BeginNativeGuestCleanup, Dispatch, NativeTypeOK
        <3> QED
            BY Zenon, <1>1, <3>1
    <2>3. CASE ResendRevoke(u)
        BY <1>1, <2>3 DEF ResendRevoke, Dispatch, Intent, NativeTypeOK
    <2>4. CASE UNCHANGED <<nFence, nSent>>
        BY Zenon, <1>1, <2>4
    <2> QED
        BY Zenon, <1>3, <2>1, <2>2, <2>3, <2>4 DEF NativeStore, CreateNativeSession, NativeSessionExpires,
           PutGuestIdentityBinding, RevokeNativeSession, BindNativeGuestAccount,
           RetireNativeGuestCredential, RevokeNativeGuestAccount, CompleteIssue, CompleteCleanup,
           ConfirmNativeCredential, ObserveIdentityClosed, CompleteGuestIdentityRevocation,
           nativeGuest
<1>4. CASE UNCHANGED <<nFence, nSent>>
    BY Zenon, <1>1, <1>4
<1>5. CASE \/ QueueExpiredGuestIdentities
           \/ \E c \in Conns : ConnectionDeadline(c) \/ BeginRevokeDesktopConnection(c)
           \/ AccessNext
    BY Zenon, <1>4, <1>5 DEF QueueExpiredGuestIdentities, ConnectionDeadline,
       BeginRevokeDesktopConnection, AccessNext, CommitAccessChange, nativeGuest
<1>6. CASE AgentNext
    BY Zenon, <1>4, <1>6, AgentStepsSparePeople DEF people, nativeGuest
<1> QED
    BY Zenon, <1>2, <1>3, <1>5, <1>6 DEF Next, NativeNext

\* A new issue is reserved only while nobody else has or can get a credential.
LEMMA HeatStep ==
    ASSUME NativeInv, Next
    PROVE  OneCanHeat'
<1> USE DEF NativeInv
<1>0. Persons
    BY Zenon DEF Persons
<1>1. ASSUME NEW u \in Users, NEW v \in Users, u # v, NEW c \in Conns,
             BeginNativeGuestCredential(u, c), CanHeat(v)'
      PROVE  FALSE
    <2>1. ~CanHeat(v)
        BY Zenon, <1>1, HeatIsReserved DEF BeginNativeGuestCredential, NoOtherReservation
    <2>2. nFence' = nFence /\ nSent'[v] = nSent[v]
        BY Zenon, <1>1 DEF BeginNativeGuestCredential, Dispatch, NativeTypeOK
    <2> QED
        BY Zenon, <1>1, <2>1, <2>2 DEF CanHeat, CredentialLive
<1>2. ASSUME NEW u \in Users, NEW v \in Users, CanHeat(u)', CanHeat(v)' PROVE u = v
    <2>1. CanHeat(u) \/ \E c \in Conns : BeginNativeGuestCredential(u, c)
        BY Zenon, <1>0, <1>2, HeatOrigin
    <2>2. CanHeat(v) \/ \E c \in Conns : BeginNativeGuestCredential(v, c)
        BY Zenon, <1>0, <1>2, HeatOrigin
    <2>3. CASE CanHeat(u) /\ CanHeat(v)
        BY Zenon, <2>3 DEF OneCanHeat
    <2> QED
        BY Zenon, <1>1, <1>2, <2>1, <2>2, <2>3
<1> QED
    BY Zenon, <1>2 DEF OneCanHeat

\* A connection stays open only while its owner's intent names it.
LEMMA ConnStep ==
    ASSUME NativeInv, Next
    PROVE  OpenConnectionHasIntent'
<1> SUFFICES ASSUME NEW c \in Conns, conn'[c] \in {"active", "revoking"}
             PROVE  acct'[issuedTo'[c]].conn = c /\ Reserved(issuedTo[c])' /\ issuedTo'[c] = issuedTo[c]
    BY Zenon DEF OpenConnectionHasIntent
<1> DEFINE o == issuedTo[c]
           Goal == acct'[issuedTo'[c]].conn = c /\ Reserved(issuedTo[c])' /\ issuedTo'[c] = issuedTo[c]
<1> USE DEF NativeInv
<1>0. conn[c] \in {"active", "revoking"} => acct[o].conn = c /\ Reserved(o)
    BY Zenon DEF OpenConnectionHasIntent
<1>1. ASSUME UNCHANGED <<acct, issuedTo>>, conn[c] \in {"active", "revoking"} PROVE Goal
    BY Zenon, <1>0, <1>1 DEF Reserved
<1>2. CASE UNCHANGED <<acct, issuedTo, conn>>
    BY Zenon, <1>1, <1>2
<1>3. ASSUME NEW u \in Users, NativeGuest(u) PROVE Goal
    BY Zenon, <1>2, <1>3 DEF NativeGuest, AcceptNative, FinishNative, InterruptNative, ReconcileNative,
       LoginNative, EndNativeDesktop, nativeDB
<1>4. CASE \/ QueueExpiredGuestIdentities
           \/ \E d \in Conns : ConnectionDeadline(d) \/ BeginRevokeDesktopConnection(d)
           \/ AccessNext
    <2>1. UNCHANGED <<acct, issuedTo>>
        BY Zenon, <1>4 DEF QueueExpiredGuestIdentities, ConnectionDeadline, BeginRevokeDesktopConnection,
           AccessNext, CommitAccessChange, nativeDB
    <2>2. conn[c] \in {"active", "revoking"}
        BY Zenon, <1>4 DEF QueueExpiredGuestIdentities, ConnectionDeadline, BeginRevokeDesktopConnection,
           AccessNext, CommitAccessChange, ConnsRevoking, nativeDB, NativeTypeOK
    <2> QED
        BY Zenon, <1>1, <2>1, <2>2
<1>5. CASE AgentNext
    BY Zenon, <1>2, <1>5, AgentStepsSparePeople DEF people, nativeDB
<1>6. ASSUME NEW u \in Users, NativeStore(u) PROVE Goal
    <2>0. GuestInv(u) /\ acct[u] \in Account /\ issuedTo[c] \in Users \cup {None}
        BY Zenon DEF NativeTypeOK
    <2>1. CASE RevokeNativeSession(u)
        BY Zenon, <1>1, <2>1 DEF RevokeNativeSession, ConnsRevoking
    <2>2. CASE BindNativeGuestAccount(u)
        <3>1. acct[u].st = "unbound" /\ UNCHANGED <<issuedTo, conn>>
              /\ acct' = [acct EXCEPT ![u].st = "idle"]
            BY Zenon, <2>2 DEF BindNativeGuestAccount
        <3>2. o # u
            BY Zenon, <1>0, <2>0, <3>1 DEF Reserved, GuestInv, IntentShape
        <3>3. acct'[o] = acct[o]
            BY <3>1, <3>2 DEF NativeTypeOK
        <3> QED
            BY Zenon, <1>0, <3>1, <3>3 DEF Reserved
    <2>3. ASSUME NEW d \in Conns, BeginNativeGuestCredential(u, d) PROVE Goal
        BY Zenon, <2>3 DEF BeginNativeGuestCredential, ConnectionOpen
    <2>4. ASSUME NEW op \in {"retire", "revoke"}, BeginNativeGuestCleanup(u, op) PROVE Goal
        <3>1. /\ UNCHANGED <<issuedTo, conn>>
              /\ acct' = [acct EXCEPT ![u] = [rev |-> acct[u].rev + 1, op |-> op, st |-> "pending",
                                              conn |-> acct[u].conn]]
            BY Zenon, <2>4 DEF BeginNativeGuestCleanup
        <3>2. CASE o = u
            <4>1. acct'[u].conn = acct[u].conn /\ acct'[u].st = "pending"
                BY Zenon, <3>1 DEF NativeTypeOK
            <4> QED
                BY Zenon, <1>0, <3>1, <3>2, <4>1 DEF Reserved
        <3>3. CASE o # u
            <4>1. acct'[o] = acct[o]
                BY <3>1, <3>3 DEF NativeTypeOK
            <4> QED
                BY Zenon, <1>0, <3>1, <4>1 DEF Reserved
        <3> QED
            BY Zenon, <3>2, <3>3
    <2>5. CASE CompleteIssue(u)
        <3>1. /\ ~ConnectionOpen /\ issuedTo' = issuedTo /\ conn' = [conn EXCEPT ![acct[u].conn] = "active"]
              /\ acct' = [acct EXCEPT ![u].st = "applied"]
              /\ acct[u].op = "issue" /\ acct[u].st = "pending"
            BY Zenon, <2>5 DEF CompleteIssue
        <3>2. acct[u].conn = c /\ o = u
            BY Zenon, <2>0, <3>1 DEF ConnectionOpen, NativeTypeOK, GuestInv, IntentShape
        <3>3. acct'[u].conn = c /\ acct'[u].op = "issue" /\ acct'[u].st = "applied"
            BY Zenon, <2>0, <3>1, <3>2 DEF NativeTypeOK, Account
        <3> QED
            BY Zenon, <3>1, <3>2, <3>3 DEF Reserved
    <2>6. CASE CompleteCleanup(u)
        <3>1. /\ issuedTo' = issuedTo /\ conn' = ConnClosed(acct[u].conn)
              /\ acct' = [acct EXCEPT ![u].st = "applied"] /\ acct[u].st = "pending"
            BY Zenon, <2>6 DEF CompleteCleanup
        <3>2. conn[c] \in {"active", "revoking"} /\ acct[u].conn # c
            BY Zenon, <3>1 DEF ConnClosed, NativeTypeOK
        <3>3. acct'[o] = acct[o]
            BY <1>0, <3>1, <3>2 DEF NativeTypeOK
        <3> QED
            BY Zenon, <1>0, <3>1, <3>2, <3>3 DEF Reserved
    <2>7. ASSUME NEW r \in idSeen[u], CompleteGuestIdentityRevocation(u, r) PROVE Goal
        BY Zenon, <1>1, <2>7 DEF CompleteGuestIdentityRevocation
    <2> QED
        BY Zenon, <1>2, <1>6, <2>1, <2>2, <2>3, <2>4, <2>5, <2>6, <2>7 DEF NativeStore, CreateNativeSession,
           NativeSessionExpires, PutGuestIdentityBinding, RetireNativeGuestCredential,
           RevokeNativeGuestAccount, ResendRevoke, ConfirmNativeCredential, ObserveIdentityClosed,
           nativeDB
<1> QED
    BY Zenon, <1>3, <1>4, <1>5, <1>6 DEF Next, NativeNext

------------------------------------------------------------------------------
(* What holds of people.                                                   *)

\* The inductive step.
LEMMA NativeInvStep == NativeInv /\ [Next]_vars => NativeInv'
<1> SUFFICES ASSUME NativeInv, [Next]_vars PROVE NativeInv'
    OBVIOUS
<1>0. NativeTypeOK /\ Persons
    BY Zenon DEF NativeInv, Persons
<1>1. CASE UNCHANGED people
    <2>0. UNCHANGED <<access, session, bind, idReq, idDone, acct, digest, issuedTo, conn, expired,
                      nFence, nOS, nBusy, nSent, nSeen, idSeen>>
        BY Zenon, <1>1 DEF people, nativeDB, nativeGuest, nativeSeen
    <2>1. NativeTypeOK'
        BY Zenon, <1>0, <2>0 DEF NativeTypeOK
    <2>2. ASSUME NEW u \in Users PROVE GuestInv(u)' /\ QueueInv(u)'
        <3>1. GuestInv(u) /\ QueueInv(u) /\ (acct[u].rev # 0 => issuedTo[acct[u].conn] = u)
            BY Zenon, <1>0 DEF Persons, GuestInv, IntentShape
        <3> QED
            BY Zenon, <2>0, <3>1, GuestFrame, QueueFrame
    <2>3. OneCanHeat'
        BY Zenon, <2>0 DEF NativeInv, OneCanHeat, CanHeat, CredentialLive
    <2>4. OpenConnectionHasIntent'
        BY Zenon, <2>0 DEF NativeInv, OpenConnectionHasIntent, Reserved
    <2> QED
        BY Zenon, <2>1, <2>2, <2>3, <2>4 DEF NativeInv
<1>2. CASE UNCHANGED vars
    BY Zenon, <1>1, <1>2 DEF vars
<1>3. CASE AgentNext
    BY Zenon, <1>1, <1>3, AgentStepsSparePeople
<1>4. CASE NativeNext \/ AccessNext
    <2>1. NativeTypeOK' /\ Persons'
        <3>1. ASSUME NEW u \in Users, NativeStore(u) PROVE NativeTypeOK' /\ Persons'
            <4>1. IntentShape(u)
                BY Zenon, <1>0 DEF Persons, GuestInv
            <4> QED
                BY Zenon, <1>0, <3>1, <4>1, StoreTypes, StorePersons
        <3>2. ASSUME NEW u \in Users, NativeGuest(u) PROVE NativeTypeOK' /\ Persons'
            <4>1. CommandsOrdered(u)
                BY Zenon, <1>0 DEF Persons, GuestInv
            <4> QED
                BY Zenon, <1>0, <3>2, <4>1, GuestTypes, GuestPersons
        <3>3. CASE \/ QueueExpiredGuestIdentities
                   \/ \E c \in Conns : ConnectionDeadline(c) \/ BeginRevokeDesktopConnection(c)
                   \/ AccessNext
            BY Zenon, <1>0, <3>3, OtherTypes, OtherPersons
        <3> QED
            BY Zenon, <1>4, <3>1, <3>2, <3>3 DEF NativeNext
    <2>2. OneCanHeat' /\ OpenConnectionHasIntent'
        BY Zenon, <1>4, HeatStep, ConnStep DEF Next
    <2> QED
        BY Zenon, <2>1, <2>2 DEF NativeInv, Persons
<1> QED
    BY Zenon, <1>2, <1>3, <1>4 DEF Next

\* Nothing is out at the start.
LEMMA NativeInvInit == Init => NativeInv
<1> SUFFICES ASSUME NativeInit PROVE NativeInv
    BY Zenon DEF Init
<1>1. NativeTypeOK
    BY Zenon, InitTypes
<1>2. ASSUME NEW u \in Users PROVE GuestInv(u) /\ QueueInv(u)
    <2>1. /\ acct[u] = [rev |-> 0, op |-> "none", st |-> "unbound", conn |-> None]
          /\ nFence[u] = NoFence /\ nOS[u] = ClosedOS /\ nBusy[u] = NoReq
          /\ nSent[u] = {} /\ nSeen[u] = {} /\ idSeen[u] = {} /\ idReq[u] = 0 /\ idDone[u] = 0
        BY Zenon DEF NativeInit
    <2>2. FenceOrdered(u)
        BY <2>1 DEF FenceOrdered, NoFence, PhasesOf
    <2>3. IntentShape(u) /\ CommandsOrdered(u) /\ ReceiptsValid(u)
        BY <2>1 DEF IntentShape, CommandsOrdered, ReceiptsValid
    <2>4. QueueInv(u)
        BY <2>1 DEF QueueInv, ObservationsValid, Entitled
    <2> QED
        BY Zenon, <2>2, <2>3, <2>4 DEF GuestInv
<1>3. OneCanHeat
    BY Zenon DEF NativeInit, OneCanHeat, CanHeat, CredentialLive, NoFence
<1>4. OpenConnectionHasIntent
    BY Zenon DEF NativeInit, OpenConnectionHasIntent
<1> QED
    BY Zenon, <1>1, <1>2, <1>3, <1>4 DEF NativeInv

\* The invariant holds in every reachable state.
THEOREM NativeInvariant == Spec => []NativeInv
<1>1. Init => NativeInv
    BY Zenon, NativeInvInit
<1>2. NativeInv /\ [Next]_vars => NativeInv'
    BY Zenon, NativeInvStep
<1> QED
    BY <1>1, <1>2, PTL DEF Spec

\* Two people never have a live credential on one desktop: the Guest's late
\* acceptance of an abandoned issue cannot meet a newer user's credential.
THEOREM OneHumanCredentialHolds == Spec => []OneHumanCredential
<1>1. NativeInv => OneHumanCredential
    BY Zenon DEF NativeInv, OneCanHeat, CanHeat, OneHumanCredential
<1> QED
    BY <1>1, NativeInvariant, PTL

\* Whatever credential the Guest accepts is reserved in native_guest_accounts.
THEOREM CredentialIsReservedHolds == Spec => []CredentialIsReserved
<1>1. NativeInv => CredentialIsReserved
    BY Zenon, HeatIsReserved DEF NativeInv, CanHeat, CredentialIsReserved
<1> QED
    BY <1>1, NativeInvariant, PTL

\* The account of an acknowledged revocation is closed, and no command on its
\* way to the Guest can be planned against its fence.
THEOREM RevokedMeansClosedHolds == Spec => []RevokedMeansClosed
<1>1. NativeInv => RevokedMeansClosed
    <2> SUFFICES ASSUME NativeInv, NEW u \in Users, acct[u].op = "revoke", acct[u].st = "applied"
                 PROVE  /\ nOS[u] = ClosedOS
                        /\ nFence[u].phase = "revoked"
                        /\ \A q \in nSent[u] : q.op # "revoke" => ~NativePlan(nFence[u], q, expired)
        BY Zenon DEF RevokedMeansClosed
    <2>0. /\ GuestInv(u) /\ acct[u] \in Account /\ nFence[u] \in NativeFence
          /\ nSent[u] \subseteq NativeReq
        BY Zenon DEF NativeInv, NativeTypeOK
    <2>1. /\ nFence[u].rev = acct[u].rev
          /\ nFence[u].phase \in {NativeCompleted(Intent(u)).phase, "revoked"}
          /\ nOS[u] = ClosedOS
        BY Zenon, <2>0 DEF GuestInv, ReceiptsValid, Intent
    <2>2. nFence[u].phase = "revoked"
        BY Zenon, <2>1 DEF NativeCompleted, Intent
    <2>3. ASSUME NEW q \in nSent[u], q.op # "revoke" PROVE ~NativePlan(nFence[u], q, expired)
        <3>1. q.rev < acct[u].rev
            BY <2>0, <2>3 DEF GuestInv, CommandsOrdered, NotAhead, NativeReq, Account
        <3> QED
            BY <2>0, <2>1, <3>1 DEF NativePlan, NativeReq, NativeFence
    <2> QED
        BY Zenon, <2>1, <2>2, <2>3
<1> QED
    BY <1>1, NativeInvariant, PTL

\* An open connection is the one its owner's intent names.
THEOREM OpenConnectionHasIntentHolds == Spec => []OpenConnectionHasIntent
<1>1. NativeInv => OpenConnectionHasIntent
    BY Zenon DEF NativeInv
<1> QED
    BY <1>1, NativeInvariant, PTL

\* Withdrawn access leaves a queued revocation, or an unsettled one, behind it
\* for as long as the Guest has anything of that user's.
THEOREM LostAccessIsPursuedHolds == Spec => []LostAccessIsPursued
<1>1. NativeInv => LostAccessIsPursued
    <2> SUFFICES ASSUME NativeInv, NEW u \in Users, u \notin access, nOS[u] # ClosedOS
                 PROVE  \/ idReq[u] > idDone[u]
                        \/ acct[u].op = "revoke" /\ acct[u].st = "pending"
        BY Zenon DEF LostAccessIsPursued
    <2>0. GuestInv(u) /\ QueueInv(u) /\ acct[u] \in Account
        BY Zenon DEF NativeInv, NativeTypeOK
    <2>1. acct[u].rev # 0 /\ acct[u].op \in NativeOps /\ acct[u].st \in {"pending", "applied"}
        BY Zenon, <2>0 DEF GuestInv, IntentShape, Account
    <2>2. CASE acct[u].op = "revoke"
        <3>1. acct[u].st # "applied"
            BY Zenon, <2>0, <2>2 DEF GuestInv, ReceiptsValid, Intent
        <3> QED
            BY Zenon, <2>1, <2>2, <3>1
    <2>3. CASE acct[u].op \in {"issue", "retire"}
        BY Zenon, <2>0, <2>3 DEF QueueInv, Entitled
    <2> QED
        BY Zenon, <2>1, <2>2, <2>3 DEF NativeOps
<1> QED
    BY <1>1, NativeInvariant, PTL

\* completed_revision only moves while the account is closed in the Guest.
THEOREM AcknowledgedWhenClosedHolds == Spec => AcknowledgedWhenClosed
<1> DEFINE Step == \A u \in Users : idDone'[u] # idDone[u] => nOS[u] = ClosedOS /\ ~CredentialLive(u)
<1>1. NativeInv /\ [Next]_vars => [Step]_vars
    <2> SUFFICES ASSUME NativeInv, Next, NEW v \in Users, idDone'[v] # idDone[v]
                 PROVE  nOS[v] = ClosedOS /\ ~CredentialLive(v)
        BY Zenon
    <2>0. GuestInv(v) /\ QueueInv(v) /\ idDone \in [Users -> Nat]
        BY Zenon DEF NativeInv, NativeTypeOK
    <2>1. ASSUME NEW u \in Users, NEW r \in idSeen[u], CompleteGuestIdentityRevocation(u, r)
          PROVE  nOS[v] = ClosedOS /\ ~CredentialLive(v)
        <3>1. u = v /\ r = idReq[v] /\ idDone[v] < r
            BY Zenon, <2>0, <2>1 DEF CompleteGuestIdentityRevocation
        <3>2. acct[v].rev = 0 \/ (acct[v].op = "revoke" /\ acct[v].st = "applied")
            BY Zenon, <2>0, <2>1, <3>1 DEF QueueInv, ObservationsValid
        <3>3. CASE acct[v].rev = 0
            <4>1. nFence[v] = NoFence /\ nOS[v] = ClosedOS
                BY Zenon, <2>0, <3>3 DEF GuestInv, IntentShape
            <4> QED
                BY <4>1 DEF CredentialLive, NoFence
        <3>4. CASE acct[v].op = "revoke" /\ acct[v].st = "applied"
            <4>1. /\ nFence[v].phase \in {NativeCompleted(Intent(v)).phase, "revoked"}
                  /\ nOS[v] = ClosedOS
                BY Zenon, <2>0, <3>4 DEF GuestInv, ReceiptsValid, Intent
            <4> QED
                BY Zenon, <3>4, <4>1 DEF NativeCompleted, Intent, CredentialLive
        <3> QED
            BY Zenon, <3>2, <3>3, <3>4
    <2>2. CASE UNCHANGED idDone
        BY Zenon, <2>2
    <2>3. ASSUME NEW u \in Users, NativeStore(u) PROVE nOS[v] = ClosedOS /\ ~CredentialLive(v)
        BY Zenon, <2>1, <2>2, <2>3 DEF NativeStore, CreateNativeSession, NativeSessionExpires,
           PutGuestIdentityBinding, RevokeNativeSession, BindNativeGuestAccount,
           BeginNativeGuestCredential, RetireNativeGuestCredential, RevokeNativeGuestAccount,
           BeginNativeGuestCleanup, ResendRevoke, CompleteIssue, CompleteCleanup,
           ConfirmNativeCredential, ObserveIdentityClosed, nativeDB
    <2>4. ASSUME NEW u \in Users, NativeGuest(u) PROVE nOS[v] = ClosedOS /\ ~CredentialLive(v)
        BY Zenon, <2>2, <2>4 DEF NativeGuest, AcceptNative, FinishNative, InterruptNative,
           ReconcileNative, LoginNative, EndNativeDesktop, nativeDB
    <2>5. CASE \/ QueueExpiredGuestIdentities
               \/ \E c \in Conns : ConnectionDeadline(c) \/ BeginRevokeDesktopConnection(c)
               \/ AccessNext
        BY Zenon, <2>2, <2>5 DEF QueueExpiredGuestIdentities, ConnectionDeadline,
           BeginRevokeDesktopConnection, AccessNext, CommitAccessChange, nativeDB
    <2>6. CASE AgentNext
        BY Zenon, <2>2, <2>6, AgentStepsSparePeople DEF people, nativeDB
    <2> QED
        BY Zenon, <2>3, <2>4, <2>5, <2>6 DEF Next, NativeNext
<1>2. Spec => [][Step]_vars
    BY <1>1, NativeInvariant, PTL DEF Spec
<1> QED
    BY Zenon, <1>2 DEF AcknowledgedWhenClosed

------------------------------------------------------------------------------
(* The types of the Agents' half.                                          *)

\* People and the workers that act for them leave the Agents' state alone.
LEMMA NativeStepsSpareAgents == NativeNext => UNCHANGED machines
<1> SUFFICES ASSUME NativeNext PROVE UNCHANGED machines
    OBVIOUS
<1>1. ASSUME NEW u \in Users, NativeStore(u) PROVE UNCHANGED machines
    BY Zenon, <1>1 DEF NativeStore, CreateNativeSession, NativeSessionExpires, PutGuestIdentityBinding,
       RevokeNativeSession, BindNativeGuestAccount, BeginNativeGuestCredential,
       RetireNativeGuestCredential, RevokeNativeGuestAccount, BeginNativeGuestCleanup,
       ResendRevoke, CompleteIssue, CompleteCleanup, ConfirmNativeCredential,
       ObserveIdentityClosed, CompleteGuestIdentityRevocation
<1>2. ASSUME NEW u \in Users, NativeGuest(u) PROVE UNCHANGED machines
    BY Zenon, <1>2 DEF NativeGuest, AcceptNative, FinishNative, InterruptNative, ReconcileNative,
       LoginNative, EndNativeDesktop
<1> QED
    BY Zenon, <1>1, <1>2 DEF NativeNext, QueueExpiredGuestIdentities, ConnectionDeadline,
       BeginRevokeDesktopConnection

\* A closed lease is a lease.
LEMMA LeasesClosedTypes ==
    ASSUME lease \in [Leases -> Lease], epoch \in Nat, NEW S
    PROVE  LeasesClosed(S) \in [Leases -> Lease]
<1>1. ASSUME NEW l \in Leases
      PROVE  /\ [st |-> "closed", agent |-> lease[l].agent, epoch |-> epoch + 1] \in Lease
             /\ lease[l] \in Lease
    BY DEF Lease
<1> QED
    BY Zenon, <1>1 DEF LeasesClosed

\* The rows that closing a set of leases writes.
LEMMA CloseLeasesTypes ==
    ASSUME AgentInv, NEW S \in SUBSET Leases, CloseLeases(S)
    PROVE  /\ lease' \in [Leases -> Lease]
           /\ epoch' \in Nat /\ crReq' \in Nat /\ crDone' \in Nat /\ crEpoch' \in Nat
           /\ asess' \in [Agents -> AgentSession]
           /\ \A a \in Agents : asess'[a].st # "none" => asess'[a].lease \in Leases
<1> USE DEF AgentInv, AgentTypeOK
<1>1. lease' \in [Leases -> Lease]
    BY Zenon, LeasesClosedTypes DEF CloseLeases
<1>2. epoch' \in Nat /\ crReq' \in Nat /\ crDone' \in Nat /\ crEpoch' \in Nat
    BY DEF CloseLeases, EpochAfter, QueueComputerRevocation
<1>3. asess' \in [Agents -> AgentSession]
    BY DEF CloseLeases, SessionsRevoking, AgentSession
<1>4. ASSUME NEW a \in Agents, asess'[a].st # "none" PROVE asess'[a].lease \in Leases
    BY Zenon, <1>4 DEF CloseLeases, SessionsRevoking, AgentSession, LiveSession, AgentShape
<1> QED
    BY Zenon, <1>1, <1>2, <1>3, <1>4

\* Leases: every way of closing them, and the creation of one.
LEMMA LeaseTypes ==
    ASSUME AgentInv, LeaseStore \/ \E a \in Agents : QueueAgentGuestSessionRevocation(a)
    PROVE  AgentInv'
<1>0. ASSUME lease' \in [Leases -> Lease],
             epoch' \in Nat, crReq' \in Nat, crDone' \in Nat, crEpoch' \in Nat,
             leaseExpired' \subseteq Leases, asess' \in [Agents -> AgentSession],
             \A a \in Agents : asess'[a].st # "none" => asess'[a].lease \in Leases,
             UNCHANGED <<allowed, agentGuest, agentSeen>>
      PROVE  AgentInv'
    BY Zenon, <1>0 DEF AgentInv, AgentTypeOK, AgentShape, agentGuest, agentSeen
<1>1. ASSUME NEW S \in SUBSET Leases, CloseLeases(S),
             UNCHANGED <<allowed, leaseExpired, agentGuest, agentSeen>>
      PROVE  AgentInv'
    <2>1. leaseExpired' \subseteq Leases
        BY Zenon, <1>1 DEF AgentInv, AgentTypeOK
    <2> QED
        BY Zenon, <1>0, <1>1, <2>1, CloseLeasesTypes
<1>2. ASSUME NEW a \in Agents, NEW l \in Leases, CreateDesktopLease(a, l) PROVE AgentInv'
    <2> DEFINE S == ActiveLeases \cap leaseExpired
    <2>1. epoch' \in Nat /\ crReq' \in Nat /\ crDone' \in Nat /\ crEpoch' \in Nat
        BY <1>2 DEF CreateDesktopLease, EpochAfter, QueueComputerRevocation, AgentInv, AgentTypeOK
    <2>2. LeasesClosed(S) \in [Leases -> Lease]
        BY Zenon, LeasesClosedTypes DEF AgentInv, AgentTypeOK
    <2>3. lease' \in [Leases -> Lease]
        <3>1. [st |-> "active", agent |-> a, epoch |-> epoch'] \in Lease
            BY Zenon, <2>1 DEF Lease
        <3> QED
            BY Zenon, <1>2, <2>2, <3>1 DEF CreateDesktopLease
    <2>4. asess' \in [Agents -> AgentSession]
        <3>1. asess' = SessionsRevoking(S) /\ asess \in [Agents -> AgentSession]
            BY Zenon, <1>2 DEF CreateDesktopLease, AgentInv, AgentTypeOK
        <3> QED
            BY Zenon, <3>1 DEF SessionsRevoking, AgentSession
    <2>5. \A b \in Agents : asess'[b].st # "none" => asess'[b].lease \in Leases
        BY Zenon, <1>2 DEF CreateDesktopLease, SessionsRevoking, AgentSession, LiveSession, AgentInv,
           AgentTypeOK, AgentShape
    <2>6. leaseExpired' \subseteq Leases /\ UNCHANGED <<allowed, agentGuest, agentSeen>>
        BY Zenon, <1>2 DEF CreateDesktopLease, AgentInv, AgentTypeOK
    <2> QED
        BY Zenon, <1>0, <2>1, <2>3, <2>4, <2>5, <2>6
<1>3. ASSUME NEW a \in Agents, NEW l \in Leases, BeginAgentGuestSession(a, l) PROVE AgentInv'
    <2>1. /\ asess' = [asess EXCEPT ![a] = [st |-> "provisioning", lease |-> l,
                          epoch |-> lease[l].epoch, login |-> 0, uid |-> asess[a].uid]]
          /\ UNCHANGED <<allowed, leaseExpired, lease, epoch, crReq, crDone, crEpoch,
                         agentGuest, agentSeen>>
        BY Zenon, <1>3 DEF BeginAgentGuestSession
    <2>2. lease[l].epoch \in Nat /\ asess[a].uid \in BOOLEAN
        BY Zenon DEF AgentInv, AgentTypeOK, Lease, AgentSession
    <2>3. asess' \in [Agents -> AgentSession]
        BY Zenon, <2>1, <2>2 DEF AgentInv, AgentTypeOK, AgentSession
    <2>4. \A b \in Agents : asess'[b].st # "none" => asess'[b].lease \in Leases
        BY Zenon, <2>1 DEF AgentInv, AgentTypeOK, AgentShape
    <2> QED
        BY Zenon, <1>0, <2>1, <2>3, <2>4 DEF AgentInv, AgentTypeOK
<1>4. ASSUME NEW l \in Leases, LeaseDeadline(l) PROVE AgentInv'
    BY Zenon, <1>0, <1>4 DEF LeaseDeadline, AgentInv, AgentTypeOK, AgentShape, leaseDB
<1>5. ASSUME NEW l \in Leases, ReleaseDesktopLease(l) PROVE AgentInv'
    BY Zenon, <1>1, <1>5 DEF ReleaseDesktopLease
<1>6. CASE RevokeDesktopLeases
    BY Zenon, <1>1, <1>6 DEF RevokeDesktopLeases, ActiveLeases
<1>7. CASE QueueExpiredComputerLeases
    BY Zenon, <1>1, <1>7 DEF QueueExpiredComputerLeases, ActiveLeases
<1>8. ASSUME NEW a \in Agents, QueueAgentGuestSessionRevocation(a) PROVE AgentInv'
    <2>1. asess[a].lease \in Leases
        BY Zenon, <1>8 DEF QueueAgentGuestSessionRevocation, LiveSession, AgentInv, AgentShape
    <2> QED
        BY Zenon, <1>1, <1>8, <2>1 DEF QueueAgentGuestSessionRevocation
<1> QED
    BY Zenon, <1>2, <1>3, <1>4, <1>5, <1>6, <1>7, <1>8 DEF LeaseStore

\* The session rows and the commands dispatched for them.
LEMMA SessionTypes ==
    ASSUME AgentInv, NEW a \in Agents,
           BindAgentGuestAccount(a) \/ BeginAgentGuestLogin(a) \/ MarkAgentGuestSessionReady(a)
    PROVE  AgentInv'
<1>t. /\ asess \in [Agents -> AgentSession] /\ asess[a] \in AgentSession
      /\ aSent \in [Agents -> SUBSET LoginReq] /\ authSent \subseteq AuthReq
    BY Zenon DEF AgentInv, AgentTypeOK
<1>l. asess[a].st # "none" /\ asess[a].lease \in Leases
    BY Zenon DEF BindAgentGuestAccount, BeginAgentGuestLogin, MarkAgentGuestSessionReady, LiveSession,
       AgentInv, AgentShape
<1>0. ASSUME asess' \in [Agents -> AgentSession], asess'[a].lease = asess[a].lease,
             \A b \in Agents : b # a => asess'[b] = asess[b],
             aSent' \in [Agents -> SUBSET LoginReq], authSent' \subseteq AuthReq,
             UNCHANGED <<allowed, leaseExpired, lease, epoch, crReq, crDone, crEpoch,
                         aExists, aFence, aOS, aBusy, auth, agentSeen>>
      PROVE  AgentInv'
    <2>1. \A b \in Agents : AgentShape(b)'
        BY Zenon, <1>0, <1>l DEF AgentInv, AgentShape
    <2> QED
        BY Zenon, <1>0, <2>1 DEF AgentInv, AgentTypeOK, agentSeen
<1>1. CASE BindAgentGuestAccount(a)
    <2>1. asess' = [asess EXCEPT ![a].uid = TRUE]
        BY Zenon, <1>1 DEF BindAgentGuestAccount
    <2>2. asess' \in [Agents -> AgentSession] /\ asess'[a].lease = asess[a].lease
          /\ \A b \in Agents : b # a => asess'[b] = asess[b]
        BY Zenon, <1>t, <2>1 DEF AgentSession
    <2> QED
        BY Zenon, <1>0, <1>1, <1>t, <2>2 DEF BindAgentGuestAccount, agentGuest
<1>2. CASE BeginAgentGuestLogin(a)
    <2> DEFINE q == [op |-> "login", epoch |-> asess[a].epoch, login |-> asess[a].login + 1,
                     lease |-> asess[a].lease]
               m == [asess EXCEPT ![a].login = asess[a].login + 1]
    <2>1. /\ asess' = [m EXCEPT ![a].st = "provisioning"]
          /\ aSent' = [aSent EXCEPT ![a] = @ \cup {q}]
        BY Zenon, <1>2 DEF BeginAgentGuestLogin
    <2>m. m \in [Agents -> AgentSession] /\ m[a].lease = asess[a].lease
          /\ \A b \in Agents : b # a => m[b] = asess[b]
        BY <1>t DEF AgentSession
    <2>2. asess' \in [Agents -> AgentSession] /\ asess'[a].lease = asess[a].lease
          /\ \A b \in Agents : b # a => asess'[b] = asess[b]
        <3> HIDE DEF m
        <3> QED
            BY Zenon, <2>1, <2>m DEF AgentSession
    <2>3. q \in LoginReq
        BY <1>l, <1>t DEF LoginReq, AgentOps, AgentSession
    <2>4. aSent' \in [Agents -> SUBSET LoginReq]
        BY Zenon, <1>t, <2>1, <2>3
    <2> QED
        BY Zenon, <1>0, <1>2, <1>t, <2>2, <2>4 DEF BeginAgentGuestLogin
<1>3. CASE MarkAgentGuestSessionReady(a)
    <2> DEFINE q == [st |-> "active", epoch |-> asess[a].epoch, lease |-> asess[a].lease, agent |-> a]
    <2>1. asess' = [asess EXCEPT ![a].st = "ready"] /\ authSent' = authSent \cup {q}
        BY Zenon, <1>3 DEF MarkAgentGuestSessionReady
    <2>2. asess' \in [Agents -> AgentSession] /\ asess'[a].lease = asess[a].lease
          /\ \A b \in Agents : b # a => asess'[b] = asess[b]
        BY Zenon, <1>t, <2>1 DEF AgentSession
    <2>3. q \in AuthReq
        BY Zenon, <1>l, <1>t DEF AuthReq, AgentSession
    <2> QED
        BY Zenon, <1>0, <1>3, <1>t, <2>1, <2>2, <2>3 DEF MarkAgentGuestSessionReady
<1> QED
    BY Zenon, <1>1, <1>2, <1>3

\* The workers that synchronise computer revocations.
LEMMA SynchronizeTypes ==
    ASSUME AgentInv, NEW w \in Workers, Synchronize(w)
    PROVE  AgentInv'
<1>t. /\ sync \in [Workers -> SyncState] /\ sync[w] \in SyncState /\ crReq \in Nat /\ crEpoch \in Nat
      /\ authSent \subseteq AuthReq /\ asess \in [Agents -> AgentSession] /\ crDone \in Nat
      /\ aSent \in [Agents -> SUBSET LoginReq]
    BY Zenon DEF AgentInv, AgentTypeOK
<1>i. Idle \in SyncState
    BY Zenon DEF Idle, SyncState
<1>0. ASSUME sync' \in [Workers -> SyncState], authSent' \subseteq AuthReq, crDone' \in Nat,
             asess' \in [Agents -> AgentSession],
             \A a \in Agents : asess'[a].st # "none" =>
                 asess[a].st # "none" /\ asess'[a].lease = asess[a].lease,
             aSent' \in [Agents -> SUBSET LoginReq],
             UNCHANGED <<allowed, leaseExpired, lease, epoch, crReq, crEpoch,
                         aExists, aFence, aOS, aBusy, auth, aSeen, authSeen>>
      PROVE  AgentInv'
    <2>1. \A a \in Agents : AgentShape(a)'
        BY Zenon, <1>0 DEF AgentInv, AgentShape
    <2> QED
        BY Zenon, <1>0, <2>1 DEF AgentInv, AgentTypeOK
<1>1. ASSUME sync' \in [Workers -> SyncState],
             UNCHANGED <<allowed, leaseExpired, leaseDB, agentGuest, aSeen, authSeen>>
      PROVE  AgentInv'
    BY Zenon, <1>0, <1>1, <1>t DEF leaseDB, agentGuest
<1>2. CASE ReadRevocationQueue(w)
    <2>1. [Idle EXCEPT !.pc = "read", !.rev = IF ComputerRevocationPending THEN crReq ELSE 0] \in SyncState
        BY Zenon, <1>t, <1>i DEF SyncState, Idle
    <2> QED
        BY Zenon, <1>1, <1>2, <1>t, <2>1 DEF ReadRevocationQueue
<1>3. CASE FenceAuthority(w)
    <2> DEFINE T == {[agent |-> a, lease |-> asess[a].lease, epoch |-> asess[a].epoch,
                      login |-> asess[a].login] : a \in {b \in Agents : asess[b].st = "revoking"}}
    <2>1. T \subseteq Snapshot
        <3>1. ASSUME NEW a \in Agents, asess[a].st = "revoking"
              PROVE  [agent |-> a, lease |-> asess[a].lease, epoch |-> asess[a].epoch,
                      login |-> asess[a].login] \in Snapshot
            BY Zenon, <1>t, <3>1 DEF Snapshot, AgentSession, AgentInv, AgentShape
        <3> QED
            BY Zenon, <3>1
    <2>2. Tombstone(crEpoch) \in AuthReq
        BY Zenon, <1>t DEF Tombstone, AuthReq
    <2>3. /\ [sync[w] EXCEPT !.pc = "stop"] \in SyncState
          /\ [sync[w] EXCEPT !.pc = "fence", !.epoch = crEpoch, !.todo = T] \in SyncState
        BY Zenon, <1>t, <2>1 DEF SyncState
    <2>4. sync' \in [Workers -> SyncState] /\ authSent' \subseteq AuthReq
        BY Zenon, <1>3, <1>t, <2>2, <2>3 DEF FenceAuthority, FenceEpoch
    <2> QED
        BY Zenon, <1>0, <1>3, <1>t, <2>4 DEF FenceAuthority, leaseDB
<1>4. CASE AuthorityFenced(w)
    <2>1. [sync[w] EXCEPT !.pc = "stop"] \in SyncState
        BY Zenon, <1>t DEF SyncState
    <2> QED
        BY Zenon, <1>1, <1>4, <1>t, <2>1 DEF AuthorityFenced
<1>5. ASSUME NEW s \in sync[w].todo, StopAgentSession(w, s) PROVE AgentInv'
    <2>1. s \in Snapshot
        BY Zenon, <1>t DEF SyncState
    <2>2. StopIntent(s) \in LoginReq /\ s.agent \in Agents
        BY Zenon, <2>1 DEF StopIntent, LoginReq, AgentOps, Snapshot
    <2>3. /\ asess' = [asess EXCEPT ![s.agent].uid = TRUE]
          /\ aSent' = [aSent EXCEPT ![s.agent] = @ \cup {StopIntent(s)}]
        BY Zenon, <1>5 DEF StopAgentSession
    <2>4. aSent' \in [Agents -> SUBSET LoginReq]
        BY Zenon, <1>t, <2>2, <2>3
    <2>5. /\ asess' \in [Agents -> AgentSession]
          /\ \A a \in Agents : asess'[a].st = asess[a].st /\ asess'[a].lease = asess[a].lease
        BY ZenonT(30), <1>t, <2>2, <2>3 DEF AgentSession
    <2> QED
        BY Zenon, <1>0, <1>5, <1>t, <2>4, <2>5 DEF StopAgentSession, agentSeen
<1>6. ASSUME NEW s \in sync[w].todo, CompleteAgentGuestSessionRevocation(w, s) PROVE AgentInv'
    <2>1. s \in Snapshot /\ sync[w].todo \ {s} \in SUBSET Snapshot
        BY Zenon, <1>t DEF SyncState
    <2>2. s.agent \in Agents
        BY Zenon, <2>1 DEF Snapshot
    <2>3. /\ asess' = [asess EXCEPT ![s.agent].st = "disabled"]
          /\ sync' = [sync EXCEPT ![w].todo = @ \ {s}]
          /\ asess[s.agent].st = "revoking"
        BY Zenon, <1>6 DEF CompleteAgentGuestSessionRevocation, Current
    <2>4. sync' \in [Workers -> SyncState]
        BY Zenon, <1>t, <2>1, <2>3 DEF SyncState
    <2>5. /\ asess' \in [Agents -> AgentSession]
          /\ \A a \in Agents : asess'[a].st # "none" =>
                 asess[a].st # "none" /\ asess'[a].lease = asess[a].lease
        BY <1>t, <2>2, <2>3 DEF AgentSession
    <2> QED
        BY Zenon, <1>0, <1>6, <1>t, <2>4, <2>5 DEF CompleteAgentGuestSessionRevocation, agentGuest
<1>7. CASE CompleteComputerRevocation(w)
    <2>1. crDone' \in Nat /\ sync' \in [Workers -> SyncState]
        BY Zenon, <1>7, <1>i, <1>t DEF CompleteComputerRevocation, Acknowledge, SyncState
    <2> QED
        BY Zenon, <1>0, <1>7, <1>t, <2>1 DEF CompleteComputerRevocation, agentGuest
<1>8. CASE SyncFails(w) \/ AbandonSync(w)
    BY Zenon, <1>1, <1>8, <1>i, <1>t DEF SyncFails, AbandonSync
<1> QED
    BY Zenon, <1>2, <1>3, <1>4, <1>5, <1>6, <1>7, <1>8 DEF Synchronize

\* The Guest's records of Agents.
LEMMA AgentGuestTypes ==
    ASSUME AgentInv, NEW a \in Agents, AgentGuest(a)
    PROVE  AgentInv'
<1>t. /\ aFence \in [Agents -> AgentFence] /\ aFence[a] \in AgentFence
      /\ aBusy \in [Agents -> AgentRun] /\ aBusy[a] \in AgentRun
      /\ aOS \in [Agents -> OSAccount] /\ aOS[a] \in OSAccount
      /\ aSent \in [Agents -> SUBSET LoginReq] /\ aSeen \in [Agents -> SUBSET LoginReq]
      /\ aExists \subseteq Agents
    BY Zenon DEF AgentInv, AgentTypeOK
<1>s. AgentShape(a)
    BY Zenon DEF AgentInv
<1>r. /\ NoLogin \in AgentRun /\ LoginReq \subseteq AgentRun
      /\ ClosedOS \in OSAccount /\ [open |-> TRUE, desk |-> TRUE] \in OSAccount
      /\ [open |-> TRUE, desk |-> FALSE] \in OSAccount
      /\ [aOS[a] EXCEPT !.open = FALSE] \in OSAccount /\ [aOS[a] EXCEPT !.desk = FALSE] \in OSAccount
    <2>1. NoLogin \in AgentRun /\ LoginReq \subseteq AgentRun
        BY Zenon DEF NoLogin, AgentRun, LoginReq
    <2>2. /\ ClosedOS \in OSAccount /\ [open |-> TRUE, desk |-> TRUE] \in OSAccount
          /\ [open |-> TRUE, desk |-> FALSE] \in OSAccount
        BY Zenon DEF ClosedOS, OSAccount
    <2>3. [aOS[a] EXCEPT !.open = FALSE] \in OSAccount /\ [aOS[a] EXCEPT !.desk = FALSE] \in OSAccount
        BY Zenon, <1>t DEF OSAccount
    <2> QED
        BY Zenon, <2>1, <2>2, <2>3
<1>0. ASSUME aFence' \in [Agents -> AgentFence], aBusy' \in [Agents -> AgentRun],
             aOS' \in [Agents -> OSAccount], aSent' \in [Agents -> SUBSET LoginReq],
             aSeen' \in [Agents -> SUBSET LoginReq], aExists' \subseteq Agents,
             aFence'[a] # NoAgentFence => aFence'[a].lease \in Leases,
             aBusy'[a] # NoLogin => aBusy'[a] \in LoginReq /\ aFence'[a] = AgentPending(aBusy'[a]),
             \A b \in Agents : b # a => aFence'[b] = aFence[b] /\ aBusy'[b] = aBusy[b],
             UNCHANGED <<allowed, leaseExpired, leaseDB, auth, authSent, authSeen, sync>>
      PROVE  AgentInv'
    <2>1. AgentShape(a)'
        BY Zenon, <1>0, <1>s DEF AgentShape, leaseDB
    <2>2. ASSUME NEW b \in Agents, b # a PROVE AgentShape(b)'
        BY Zenon, <1>0, <2>2 DEF AgentInv, AgentShape, leaseDB
    <2>3. AgentTypeOK'
        BY Zenon, <1>0 DEF AgentInv, AgentTypeOK, leaseDB
    <2> QED
        BY Zenon, <2>1, <2>2, <2>3 DEF AgentInv
<1>1. CASE ProvisionAgentAccount(a)
    BY Zenon, <1>0, <1>1, <1>s, <1>t DEF ProvisionAgentAccount, AgentShape, agentSeen
<1>2. ASSUME NEW q \in aSent[a], AcceptAgent(a, q) PROVE AgentInv'
    <2>1. q \in LoginReq
        BY Zenon, <1>t
    <2>2. AgentPending(q) \in AgentFence /\ AgentPending(q).lease \in Leases
        BY Zenon, <2>1 DEF AgentPending, AgentFence, AgentPhases, LoginReq
    <2>3. /\ aFence' = [aFence EXCEPT ![a] = AgentPending(q)]
          /\ aBusy' = [aBusy EXCEPT ![a] = q]
          /\ aSent' = [aSent EXCEPT ![a] = @ \ {q}]
          /\ UNCHANGED <<allowed, leaseExpired, leaseDB, aExists, aOS, auth, authSent, aSeen, authSeen, sync>>
        BY Zenon, <1>2 DEF AcceptAgent, agentSeen
    <2>4. /\ aFence' \in [Agents -> AgentFence] /\ aBusy' \in [Agents -> AgentRun]
          /\ aSent' \in [Agents -> SUBSET LoginReq]
          /\ aFence'[a] = AgentPending(q) /\ aBusy'[a] = q
          /\ \A b \in Agents : b # a => aFence'[b] = aFence[b] /\ aBusy'[b] = aBusy[b]
        BY Zenon, <1>r, <1>t, <2>1, <2>2, <2>3
    <2> QED
        BY Zenon, <1>0, <1>t, <2>1, <2>2, <2>3, <2>4
<1>3. CASE RegisterAgentLogin(a) \/ EndAgentDesktop(a)
    <2>1. aOS' \in [Agents -> OSAccount]
        BY ZenonT(30), <1>3, <1>r, <1>t DEF RegisterAgentLogin, EndAgentDesktop, OSAccount
    <2>2. UNCHANGED <<allowed, leaseExpired, leaseDB, aExists, aFence, aBusy, aSent, auth, authSent,
                      aSeen, authSeen, sync>>
        BY Zenon, <1>3 DEF RegisterAgentLogin, EndAgentDesktop, agentSeen
    <2> QED
        BY Zenon, <1>0, <1>s, <1>t, <2>1, <2>2 DEF AgentShape
<1>4. ASSUME NEW f \in AgentFence, f.lease \in Leases, NEW os \in OSAccount,
             aFence' = [aFence EXCEPT ![a] = f], aOS' = [aOS EXCEPT ![a] = os],
             aBusy' = [aBusy EXCEPT ![a] = NoLogin] \/ (aBusy' = aBusy /\ aBusy[a] = NoLogin),
             UNCHANGED <<allowed, leaseExpired, leaseDB, aExists, aSent, auth, authSent,
                         aSeen, authSeen, sync>>
      PROVE  AgentInv'
    <2>1. /\ aFence' \in [Agents -> AgentFence] /\ aBusy' \in [Agents -> AgentRun]
          /\ aOS' \in [Agents -> OSAccount]
          /\ aFence'[a] = f /\ aBusy'[a] = NoLogin
          /\ \A b \in Agents : b # a => aFence'[b] = aFence[b] /\ aBusy'[b] = aBusy[b]
        BY Zenon, <1>4, <1>r, <1>t
    <2> QED
        BY Zenon, <1>0, <1>4, <1>s, <1>t, <2>1 DEF AgentShape
<1>f. Revoked(aFence[a]) \in AgentFence /\ Revoked(aFence[a]).lease = aFence[a].lease
    BY Zenon, <1>t DEF Revoked, AgentFence, AgentPhases
<1>5. CASE FinishAgent(a)
    <2> DEFINE q == aBusy[a]
               os == IF q.op = "login" THEN aOS[a] ELSE ClosedOS
    <2>1. q \in LoginReq
        BY Zenon, <1>5, <1>s DEF FinishAgent, AgentShape
    <2>2. AgentCompleted(q) \in AgentFence /\ AgentCompleted(q).lease \in Leases
        BY Zenon, <2>1 DEF AgentCompleted, AgentFence, AgentPhases, LoginReq
    <2>3. os \in OSAccount /\ aOS' = [aOS EXCEPT ![a] = os]
        BY Zenon, <1>5, <1>r, <1>t DEF FinishAgent
    <2> QED
        BY Zenon, <1>4, <1>5, <2>2, <2>3 DEF FinishAgent, agentSeen
<1>6. CASE InterruptAgent(a)
    <2>1. aFence[a].lease \in Leases
        BY <1>6, <1>s DEF InterruptAgent, AgentShape, AgentPending, LoginReq
    <2>2. PICK os \in OSAccount : aOS' = [aOS EXCEPT ![a] = os]
        BY Zenon, <1>6, <1>r, <1>t DEF InterruptAgent
    <2>3. PICK f \in {aFence[a], Revoked(aFence[a])} : aFence' = [aFence EXCEPT ![a] = f]
        BY Zenon, <1>6 DEF InterruptAgent
    <2>4. f \in AgentFence /\ f.lease = aFence[a].lease
        BY Zenon, <1>f, <1>t, <2>3
    <2> QED
        BY Zenon, <1>4, <1>6, <2>1, <2>2, <2>3, <2>4 DEF InterruptAgent, agentSeen
<1>7. CASE ReconcileAgent(a)
    <2>1. PICK os \in OSAccount : aOS' = [aOS EXCEPT ![a] = os]
        BY Zenon, <1>7, <1>r, <1>t DEF ReconcileAgent
    <2>2. aFence' = [aFence EXCEPT ![a] = Revoked(aFence[a])]
        BY Zenon, <1>7 DEF ReconcileAgent
    <2>3. aFence[a].lease \in Leases
        BY Zenon, <1>7, <1>s DEF ReconcileAgent, AgentShape
    <2> QED
        BY Zenon, <1>4, <1>7, <1>f, <2>1, <2>2, <2>3 DEF ReconcileAgent, agentSeen
<1>8. ASSUME NEW q \in Awaited(a), ConfirmAgentCommand(a, q) PROVE AgentInv'
    <2>1. q \in LoginReq
        <3>1. aFence[a] = AgentCompleted(q)
            BY Zenon, <1>8 DEF ConfirmAgentCommand
        <3>2. aFence[a].phase # "none" /\ q.lease = aFence[a].lease
            BY <3>1 DEF AgentCompleted
        <3>3. q.lease \in Leases
            BY <1>s, <3>2 DEF AgentShape, NoAgentFence
        <3>4. asess[a] \in AgentSession /\ sync \in [Workers -> SyncState]
            BY Zenon DEF AgentInv, AgentTypeOK
        <3>5. CASE q = LoginIntent(asess[a])
            BY Zenon, <3>3, <3>4, <3>5 DEF LoginIntent, LoginReq, AgentOps, AgentSession
        <3>6. ASSUME NEW w \in Workers, NEW s \in sync[w].todo, q = StopIntent(s) PROVE q \in LoginReq
            <4>1. s \in Snapshot
                BY Zenon, <3>4 DEF SyncState
            <4> QED
                BY Zenon, <3>6, <4>1 DEF StopIntent, LoginReq, AgentOps, Snapshot
        <3> QED
            BY Zenon, <1>8, <3>5, <3>6 DEF Awaited
    <2> QED
        BY Zenon, <1>0, <1>8, <1>s, <1>t, <2>1 DEF ConfirmAgentCommand, AgentShape, agentGuest
<1> QED
    BY Zenon, <1>1, <1>2, <1>3, <1>5, <1>6, <1>7, <1>8 DEF AgentGuest

\* The authority snapshot.
LEMMA AuthorityTypes ==
    ASSUME AgentInv, NEW q \in authSent, PublishAuthority(q)
    PROVE  AgentInv'
<1>1. q \in AuthReq /\ aFence \in [Agents -> AgentFence]
    BY Zenon DEF AgentInv, AgentTypeOK
<1>2. q.st = "active" => aFence[q.agent].login \in Nat
    BY Zenon, <1>1 DEF AuthReq, AgentFence
<1>3. auth' \in Authority
    BY Zenon, <1>1, <1>2 DEF PublishAuthority, Authority, AuthReq
<1>4. authSent' \subseteq AuthReq /\ authSeen' \subseteq AuthReq
    BY Zenon, <1>1 DEF PublishAuthority, AgentInv, AgentTypeOK
<1>5. UNCHANGED <<allowed, leaseExpired, lease, epoch, crReq, crDone, crEpoch, asess,
                  aExists, aFence, aOS, aBusy, aSent, aSeen, sync>>
    BY Zenon DEF PublishAuthority, leaseDB
<1>6. AgentTypeOK'
    BY Zenon, <1>3, <1>4, <1>5 DEF AgentInv, AgentTypeOK
<1> QED
    BY Zenon, <1>5, <1>6 DEF AgentInv, AgentShape

\* The inductive step of the Agents' half.
LEMMA AgentInvStep == AgentInv /\ [Next]_vars => AgentInv'
<1> SUFFICES ASSUME AgentInv, [Next]_vars PROVE AgentInv'
    OBVIOUS
<1>1. CASE UNCHANGED machines
    <2>1. UNCHANGED <<allowed, leaseExpired, lease, epoch, crReq, crDone, crEpoch, asess, aExists,
                      aFence, aOS, aBusy, aSent, auth, authSent, aSeen, authSeen, sync>>
        BY Zenon, <1>1 DEF machines, leaseDB, agentGuest, agentSeen
    <2>2. AgentTypeOK'
        BY Zenon, <2>1 DEF AgentInv, AgentTypeOK
    <2> QED
        BY Zenon, <2>1, <2>2 DEF AgentInv, AgentShape
<1>2. CASE UNCHANGED vars
    BY Zenon, <1>1, <1>2 DEF vars
<1>3. CASE NativeNext
    BY Zenon, <1>1, <1>3, NativeStepsSpareAgents
<1>4. CASE AgentNext
    <2>1. ASSUME NEW a \in Agents, SessionStore(a) \/ AgentGuest(a) PROVE AgentInv'
        BY Zenon, <2>1, LeaseTypes, SessionTypes, AgentGuestTypes DEF SessionStore
    <2> QED
        BY Zenon, <1>4, <2>1, LeaseTypes, SynchronizeTypes, AuthorityTypes DEF AgentNext
<1>5. ASSUME NEW A \in SUBSET Users, NEW M \in SUBSET Agents, CommitAccessChange(A, M)
      PROVE  AgentInv'
    <2> DEFINE L == {l \in ActiveLeases : lease[l].agent \notin M}
    <2>1. L \in SUBSET Leases
        BY Zenon DEF ActiveLeases
    <2>2. /\ CloseLeases(L) /\ allowed' = M
          /\ UNCHANGED <<leaseExpired, aExists, aFence, aOS, aBusy, aSent, auth, authSent,
                         aSeen, authSeen, sync>>
        BY Zenon, <1>5 DEF CommitAccessChange, agentGuest, agentSeen
    <2>3. /\ lease' \in [Leases -> Lease]
          /\ epoch' \in Nat /\ crReq' \in Nat /\ crDone' \in Nat /\ crEpoch' \in Nat
          /\ asess' \in [Agents -> AgentSession]
          /\ \A a \in Agents : asess'[a].st # "none" => asess'[a].lease \in Leases
        <3> HIDE DEF L
        <3> QED
            BY Zenon, <2>1, <2>2, CloseLeasesTypes
    <2>4. AgentTypeOK'
        BY Zenon, <2>2, <2>3 DEF AgentInv, AgentTypeOK
    <2> QED
        BY Zenon, <2>2, <2>3, <2>4 DEF AgentInv, AgentShape
<1> QED
    BY Zenon, <1>2, <1>3, <1>4, <1>5 DEF Next, AccessNext

\* The initial state of the Agents' half.
LEMMA AgentInvInit == Init => AgentInv
<1> SUFFICES ASSUME AgentInit PROVE AgentInv
    BY Zenon DEF Init
<1>1. AgentTypeOK
    BY Zenon DEF AgentInit, AgentTypeOK, Lease, AgentSession, AgentFence, OSAccount, AgentRun, Authority,
       SyncState, NoAgentFence, ClosedOS, NoLogin, NoAuthority, Idle, AgentPhases
<1> QED
    BY Zenon, <1>1 DEF AgentInit, AgentInv, AgentShape

\* Every row, record and command keeps the shape its table or file gives it,
\* in every reachable state.
THEOREM TypeCorrect == Spec => []TypeOK
<1>1. NativeInv /\ AgentInv => TypeOK
    BY Zenon DEF NativeInv, AgentInv, TypeOK
<1>2. Spec => []AgentInv
    BY AgentInvInit, AgentInvStep, PTL DEF Spec
<1> QED
    BY <1>1, <1>2, NativeInvariant, PTL

------------------------------------------------------------------------------
(* What a step leaves alone.                                               *)

\* An Agent whose row and Guest records a step leaves alone.
LEMMA AgentGuestFrame ==
    ASSUME NEW a \in Agents, AgentGuestInv(a), asess'[a] = asess[a],
           aSent'[a] = aSent[a], aFence'[a] = aFence[a], aOS'[a] = aOS[a],
           aBusy'[a] = aBusy[a], aSeen'[a] = aSeen[a]
    PROVE  AgentGuestInv(a)'
<1>1. AgentCommandsOrdered(a)'
    BY Zenon DEF AgentGuestInv, AgentCommandsOrdered, CommandOf, Overtaken
<1>2. AgentFenceOrdered(a)'
    BY Zenon DEF AgentGuestInv, AgentFenceOrdered, AgentLoginLive, Engaged, LiveSession
<1>3. StopReceiptsValid(a)'
    BY Zenon DEF AgentGuestInv, StopReceiptsValid, CommandOf, StoppedBy
<1>4. NeverBoundIsEmpty(a)'
    BY Zenon DEF AgentGuestInv, NeverBoundIsEmpty
<1> QED
    BY Zenon, <1>1, <1>2, <1>3, <1>4 DEF AgentGuestInv

\* A live row that stays live or starts to be revoked.
LEMMA RowMoves ==
    ASSUME NEW a \in Agents, AgentGuestInv(a), LiveSession(a),
           asess'[a].epoch = asess[a].epoch, asess'[a].lease = asess[a].lease,
           asess'[a].login = asess[a].login, asess'[a].st \in {"provisioning", "ready", "revoking"},
           asess[a].uid => asess'[a].uid,
           aSent'[a] = aSent[a], aFence'[a] = aFence[a], aOS'[a] = aOS[a],
           aBusy'[a] = aBusy[a], aSeen'[a] = aSeen[a]
    PROVE  AgentGuestInv(a)'
<1>0. ASSUME NEW q, CommandOf(a, q) PROVE CommandOf(a, q)'
    BY Zenon, <1>0 DEF CommandOf, LiveSession
<1>1. AgentCommandsOrdered(a)'
    BY Zenon, <1>0 DEF AgentGuestInv, AgentCommandsOrdered, Overtaken
<1>2. AgentFenceOrdered(a)'
    BY Zenon DEF AgentGuestInv, AgentFenceOrdered, AgentLoginLive, Engaged, LiveSession
<1>3. StopReceiptsValid(a)'
    BY Zenon, <1>0 DEF AgentGuestInv, StopReceiptsValid, StoppedBy
<1>4. NeverBoundIsEmpty(a)'
    BY Zenon DEF AgentGuestInv, NeverBoundIsEmpty
<1> QED
    BY Zenon, <1>1, <1>2, <1>3, <1>4 DEF AgentGuestInv

\* A stop stays behind the row it was sent for.
LEMMA StopKept ==
    ASSUME NEW a \in Agents, NEW q, q.op = "stop", q.epoch \in Nat, CommandOf(a, q),
           asess[a].epoch \in Nat, asess'[a].epoch \in Nat,
           \/ asess'[a].epoch > asess[a].epoch
           \/ asess'[a].epoch >= asess[a].epoch /\ asess[a].st \notin {"revoking", "disabled"}
           \/ /\ asess'[a].epoch = asess[a].epoch /\ asess'[a].lease = asess[a].lease
              /\ asess'[a].login = asess[a].login
              /\ asess[a].st \in {"revoking", "disabled"} => asess'[a].st \in {"revoking", "disabled"}
    PROVE  CommandOf(a, q)'
    BY DEF CommandOf, StopIntent

\* A worker a step leaves alone, while no session starts to be revoked.
LEMMA SyncFrame ==
    ASSUME NEW w \in Workers, SyncInv(w), sync'[w] = sync[w], crReq' = crReq, crDone' = crDone,
           \A s \in sync[w].todo : CommandOf(s.agent, StopIntent(s))',
           \A a \in Agents : asess'[a].st = "revoking" => asess[a].st = "revoking" /\ Row(a)' = Row(a)
    PROVE  SyncInv(w)'
    BY Zenon DEF SyncInv, ComputerRevocationPending

\* What the types say of one Agent's rows and records.
LEMMA AgentTypes ==
    ASSUME AgentInv, NEW a \in Agents
    PROVE  /\ asess[a] \in AgentSession /\ aFence[a] \in AgentFence /\ aOS[a] \in OSAccount
           /\ aSent[a] \subseteq LoginReq /\ aSeen[a] \subseteq LoginReq
           /\ asess[a].epoch \in Nat /\ asess[a].login \in Nat /\ asess[a].uid \in BOOLEAN
           /\ asess[a].st \in {"none", "provisioning", "ready", "revoking", "disabled"}
           /\ aFence[a].epoch \in Nat /\ aFence[a].login \in Nat
           /\ aFence[a].phase \in AgentPhases
           /\ \A q \in aSent[a] \cup aSeen[a] :
                 q.op \in AgentOps /\ q.epoch \in Nat /\ q.login \in Nat /\ q.lease \in Leases
           /\ aBusy[a] # NoLogin =>
                 /\ aBusy[a].op \in AgentOps /\ aBusy[a].epoch \in Nat /\ aBusy[a].login \in Nat
                 /\ aBusy[a].lease \in Leases /\ aFence[a] = AgentPending(aBusy[a])
<1>1. /\ asess[a] \in AgentSession /\ aFence[a] \in AgentFence /\ aOS[a] \in OSAccount
      /\ aSent[a] \subseteq LoginReq /\ aSeen[a] \subseteq LoginReq
      /\ aBusy[a] # NoLogin => aBusy[a] \in LoginReq /\ aFence[a] = AgentPending(aBusy[a])
    BY Zenon DEF AgentInv, AgentTypeOK, AgentShape
<1>2. \A q \in LoginReq : q.op \in AgentOps /\ q.epoch \in Nat /\ q.login \in Nat /\ q.lease \in Leases
    BY Zenon DEF LoginReq
<1>3. /\ asess[a].epoch \in Nat /\ asess[a].login \in Nat /\ asess[a].uid \in BOOLEAN
      /\ asess[a].st \in {"none", "provisioning", "ready", "revoking", "disabled"}
    BY Zenon, <1>1 DEF AgentSession
<1>4. aFence[a].epoch \in Nat /\ aFence[a].login \in Nat /\ aFence[a].phase \in AgentPhases
    BY Zenon, <1>1 DEF AgentFence
<1> QED
    BY Zenon, <1>1, <1>2, <1>3, <1>4

\* What a worker still has to stop.
LEMMA TodoTypes ==
    ASSUME AgentInv, NEW w \in Workers
    PROVE  /\ sync[w].rev \in Nat
           /\ \A s \in sync[w].todo :
                 /\ s \in Snapshot /\ s.agent \in Agents /\ s.epoch \in Nat /\ s.login \in Nat
                 /\ StopIntent(s).op = "stop" /\ StopIntent(s).epoch = s.epoch
<1>1. sync[w] \in SyncState
    BY Zenon DEF AgentInv, AgentTypeOK
<1> QED
    BY Zenon, <1>1 DEF SyncState, Snapshot, StopIntent

\* The Guest's commands and the authority, unless a step is about them.
guestRecords == <<aSent, aFence, aOS, aBusy, aSeen>>

------------------------------------------------------------------------------
(* Leases.                                                                 *)

\* Every active lease ends: the live sessions under it start to be revoked.
LEMMA AllLeasesClosed ==
    ASSUME AgentInv, AgentInv', ControlInv, UNCHANGED guestRecords, UNCHANGED sync,
           asess' = SessionsRevoking(ActiveLeases),
           \A l \in Leases : lease[l].st # "none" =>
               lease'[l].st # "none" /\ lease'[l].agent = lease[l].agent,
           epoch' > epoch, crDone' = crDone,
           crReq' = IF ActiveLeases = {} THEN crReq ELSE crReq + 1
    PROVE  /\ \A a \in Agents : SessionInv(a)'
           /\ \A w \in Workers : SyncInv(w)'
           /\ OneEngaged'
<1>t. epoch \in Nat /\ epoch' \in Nat /\ crReq \in Nat /\ crDone \in Nat /\ crDone <= crReq
    BY Zenon DEF AgentInv, AgentTypeOK, ControlInv, Epochs
<1>a. ASSUME NEW a \in Agents
      PROVE  /\ LiveSession(a) => asess[a].lease \in ActiveLeases
             /\ asess'[a] = IF LiveSession(a) THEN [asess[a] EXCEPT !.st = "revoking"] ELSE asess[a]
    <2>1. asess[a].st # "none" => asess[a].lease \in Leases
        BY Zenon DEF AgentInv, AgentShape
    <2>2. LiveSession(a) => asess[a].lease \in ActiveLeases
        BY Zenon, <2>1 DEF ControlInv, SessionInv, SessionFollowsLease, ActiveLeases, LiveSession
    <2>3. asess'[a] = IF LiveSession(a) /\ asess[a].lease \in ActiveLeases
                      THEN [asess[a] EXCEPT !.st = "revoking"] ELSE asess[a]
        BY Zenon DEF SessionsRevoking
    <2> QED
        BY Zenon, <2>2, <2>3
<1>b. ASSUME NEW a \in Agents, LiveSession(a)
      PROVE  /\ asess'[a].st = "revoking" /\ asess'[a].epoch = asess[a].epoch
             /\ asess'[a].lease = asess[a].lease /\ asess'[a].login = asess[a].login
             /\ asess'[a].uid = asess[a].uid
             /\ crReq' = crReq + 1
    <2>1. ActiveLeases # {}
        BY Zenon, <1>a, <1>b
    <2>2. asess[a] \in AgentSession /\ asess'[a] = [asess[a] EXCEPT !.st = "revoking"]
        BY Zenon, <1>a, <1>b, AgentTypes
    <2>3. crReq' = crReq + 1
        BY Zenon, <2>1
    <2> QED
        BY Zenon, <2>2, <2>3 DEF AgentSession
<1>1. ASSUME NEW a \in Agents PROVE SessionFollowsLease(a)'
    <2>1. SessionFollowsLease(a) /\ (asess[a].st # "none" => asess[a].lease \in Leases)
        BY Zenon DEF ControlInv, SessionInv, AgentInv, AgentShape
    <2>n. asess[a].epoch \in Nat
        BY Zenon, AgentTypes
    <2>2. CASE LiveSession(a)
        BY <1>b, <1>t, <2>1, <2>2, <2>n DEF SessionFollowsLease, ComputerRevocationPending, LiveSession
    <2>3. CASE ~LiveSession(a)
        <3>1. asess'[a] = asess[a]
            BY Zenon, <1>a, <2>3
        <3>2. crReq' >= crReq /\ crReq' \in Nat
            BY <1>t
        <3> QED
            BY <1>t, <2>1, <2>3, <2>n, <3>1, <3>2 DEF SessionFollowsLease, ComputerRevocationPending, LiveSession
    <2> QED
        BY Zenon, <2>2, <2>3
<1>2. ASSUME NEW a \in Agents PROVE AgentGuestInv(a)'
    <2>1. AgentGuestInv(a)
        BY Zenon DEF ControlInv, SessionInv
    <2>2. CASE LiveSession(a)
        BY Zenon, <1>b, <2>1, <2>2, RowMoves DEF guestRecords
    <2>3. CASE ~LiveSession(a)
        BY Zenon, <1>a, <2>1, <2>3, AgentGuestFrame DEF guestRecords
    <2> QED
        BY Zenon, <2>2, <2>3
<1>3. ASSUME NEW w \in Workers PROVE SyncInv(w)'
    <2>1. SyncInv(w) /\ sync[w].rev \in Nat
        BY Zenon, TodoTypes DEF ControlInv
    <2>2. ASSUME NEW s \in sync[w].todo PROVE CommandOf(s.agent, StopIntent(s))'
        <3>1. /\ s.agent \in Agents /\ CommandOf(s.agent, StopIntent(s)) /\ StopIntent(s).op = "stop"
              /\ StopIntent(s).epoch \in Nat
            BY Zenon, <2>1, TodoTypes DEF SyncInv
        <3>2. /\ asess[s.agent].epoch \in Nat /\ asess'[s.agent].epoch = asess[s.agent].epoch
              /\ asess'[s.agent].lease = asess[s.agent].lease /\ asess'[s.agent].login = asess[s.agent].login
              /\ asess[s.agent].st \in {"revoking", "disabled"} => asess'[s.agent].st = asess[s.agent].st
            BY Zenon, <1>a, <1>b, <3>1, AgentTypes DEF LiveSession
        <3> QED
            BY Zenon, <3>1, <3>2, StopKept
    <2>3. CASE ActiveLeases = {}
        <3>1. \A a \in Agents : asess'[a] = asess[a]
            BY Zenon, <1>a, <2>3
        <3>2. crReq' = crReq
            BY Zenon, <2>3
        <3> QED
            BY Zenon, <2>1, <2>2, <3>1, <3>2, SyncFrame DEF Row
    <2>4. CASE ActiveLeases # {}
        <3>1. crReq' = crReq + 1
            BY Zenon, <2>4
        <3> QED
            BY <1>t, <2>1, <2>2, <3>1 DEF SyncInv
    <2> QED
        BY Zenon, <2>3, <2>4
<1>4. OneEngaged'
    <2>1. ASSUME NEW a \in Agents, Engaged(a)' PROVE Engaged(a)
        BY Zenon, <1>a, <2>1 DEF Engaged, LiveSession
    <2> QED
        BY Zenon, <2>1 DEF ControlInv, OneEngaged
<1> QED
    BY Zenon, <1>1, <1>2, <1>3, <1>4 DEF SessionInv

\* A step outside the rows, records and queues the invariant speaks of.
LEMMA ControlFrame ==
    ASSUME ControlInv, UNCHANGED <<lease, epoch, crReq, crDone, crEpoch, asess, sync, auth, authSent>>,
           UNCHANGED guestRecords
    PROVE  ControlInv'
<1>1. Epochs' /\ OneEngaged'
    BY Zenon DEF ControlInv, Epochs, ActiveLeases, OneEngaged, Engaged, LiveSession
<1>2. AuthorityInv'
    BY Zenon DEF ControlInv, AuthorityInv, OfLease
<1>3. ASSUME NEW a \in Agents PROVE SessionInv(a)'
    <2>1. SessionFollowsLease(a)'
        BY Zenon DEF ControlInv, SessionInv, SessionFollowsLease, ComputerRevocationPending, LiveSession
    <2>2. AgentGuestInv(a)'
        BY Zenon, AgentGuestFrame DEF ControlInv, SessionInv, guestRecords
    <2> QED
        BY Zenon, <2>1, <2>2 DEF SessionInv
<1>4. ASSUME NEW w \in Workers PROVE SyncInv(w)'
    BY Zenon DEF ControlInv, SyncInv, ComputerRevocationPending, CommandOf, Row
<1> QED
    BY Zenon, <1>1, <1>2, <1>3, <1>4 DEF ControlInv

\* A set of active leases is closed: none, or the only one there is.
LEMMA CloseControl ==
    ASSUME AgentInv, AgentInv', ControlInv, NEW S \in SUBSET ActiveLeases, CloseLeases(S),
           UNCHANGED guestRecords, UNCHANGED <<sync, auth, authSent>>
    PROVE  ControlInv'
<1>t. /\ epoch \in Nat /\ crReq \in Nat /\ crDone \in Nat /\ crEpoch \in Nat
      /\ lease \in [Leases -> Lease] /\ asess \in [Agents -> AgentSession] /\ authSent \subseteq AuthReq
    BY Zenon DEF AgentInv, AgentTypeOK
<1>e. Epochs
    BY Zenon DEF ControlInv
<1>1. CASE S = {}
    <2>1. lease' = lease
        BY Zenon, <1>1, <1>t DEF CloseLeases, LeasesClosed
    <2>2. asess' = asess
        BY Zenon, <1>1, <1>t DEF CloseLeases, SessionsRevoking
    <2>3. UNCHANGED <<epoch, crReq, crDone, crEpoch>>
        BY Zenon, <1>1 DEF CloseLeases, EpochAfter, QueueComputerRevocation
    <2> QED
        BY Zenon, <2>1, <2>2, <2>3, ControlFrame
<1>2. CASE S # {}
    <2>1. S = ActiveLeases
        BY Zenon, <1>2, <1>e DEF Epochs
    <2>2. /\ lease' = LeasesClosed(ActiveLeases) /\ asess' = SessionsRevoking(ActiveLeases)
          /\ epoch' = epoch + 1 /\ crReq' = crReq + 1 /\ crDone' = crDone /\ crEpoch' = epoch + 1
        BY Zenon, <1>2, <2>1 DEF CloseLeases, EpochAfter, QueueComputerRevocation
    <2>3. ASSUME NEW l \in Leases
          PROVE  /\ lease'[l].agent = lease[l].agent
                 /\ lease[l].st # "none" => lease'[l].st # "none"
                 /\ lease'[l].st # "active"
        BY Zenon, <1>t, <2>2 DEF LeasesClosed, ActiveLeases, Lease
    <2>4. /\ \A a \in Agents : SessionInv(a)'
          /\ \A w \in Workers : SyncInv(w)'
          /\ OneEngaged'
        <3>1. ActiveLeases # {} /\ epoch' > epoch
            BY <1>2, <1>t, <2>1, <2>2
        <3> QED
            BY Zenon, <2>2, <2>3, <3>1, AllLeasesClosed
    <2>5. Epochs'
        <3>1. ActiveLeases' = {}
            BY Zenon, <2>3 DEF ActiveLeases
        <3> QED
            BY <1>e, <1>t, <2>2, <3>1 DEF Epochs
    <2>6. AuthorityInv'
        <3>1. \A q : q.lease \in Leases /\ OfLease(q) => OfLease(q)'
            BY Zenon, <2>3 DEF OfLease
        <3>2. \A q \in authSent : q.st = "active" => q.lease \in Leases
            BY Zenon, <1>t DEF AuthReq
        <3>3. \A q \in authSent : q.epoch <= crEpoch => q.epoch <= crEpoch'
            BY <1>e, <1>t, <2>2 DEF Epochs, AuthReq
        <3> QED
            BY Zenon, <3>1, <3>2, <3>3 DEF ControlInv, AuthorityInv
    <2> QED
        BY Zenon, <2>4, <2>5, <2>6 DEF ControlInv
<1> QED
    BY Zenon, <1>1, <1>2

\* A new lease, after the expired one if it is still active.
LEMMA CreateControl ==
    ASSUME AgentInv, AgentInv', ControlInv, NEW a \in Agents, NEW l \in Leases,
           CreateDesktopLease(a, l)
    PROVE  ControlInv'
<1>t. /\ epoch \in Nat /\ crReq \in Nat /\ crEpoch \in Nat /\ lease \in [Leases -> Lease]
      /\ authSent \subseteq AuthReq /\ epoch' \in Nat
    BY Zenon DEF AgentInv, AgentTypeOK
<1>e. Epochs
    BY Zenon DEF ControlInv
<1>0. ActiveLeases \cap leaseExpired = ActiveLeases
    BY Zenon DEF CreateDesktopLease
<1>1. /\ lease' = [LeasesClosed(ActiveLeases) EXCEPT ![l] = [st |-> "active", agent |-> a, epoch |-> epoch']]
      /\ epoch' = EpochAfter(ActiveLeases) + 1 /\ asess' = SessionsRevoking(ActiveLeases)
      /\ lease[l].st = "none" /\ crDone' = crDone
      /\ crReq' = IF ActiveLeases = {} THEN crReq ELSE crReq + 1
      /\ crEpoch' = IF ActiveLeases = {} THEN crEpoch ELSE epoch + 1
      /\ UNCHANGED guestRecords /\ UNCHANGED <<sync, auth, authSent>>
    BY Zenon, <1>0 DEF CreateDesktopLease, QueueComputerRevocation, guestRecords, agentGuest, agentSeen
<1>2. epoch' > epoch /\ crEpoch' < epoch' /\ crEpoch' >= crEpoch /\ crEpoch' \in Nat
    BY <1>1, <1>e, <1>t DEF EpochAfter, Epochs
<1>3. ASSUME NEW k \in Leases
      PROVE  /\ lease[k].st # "none" =>
                    k # l /\ lease'[k].st # "none" /\ lease'[k].agent = lease[k].agent
             /\ lease'[k].st = "active" => k = l
    <2>1. LeasesClosed(ActiveLeases)[k].st # "active" /\ LeasesClosed(ActiveLeases)[k].agent = lease[k].agent
          /\ (lease[k].st # "none" => LeasesClosed(ActiveLeases)[k].st # "none")
        BY Zenon, <1>t DEF LeasesClosed, ActiveLeases, Lease
    <2>2. k # l => lease'[k] = LeasesClosed(ActiveLeases)[k]
        BY Zenon, <1>1 DEF LeasesClosed
    <2> QED
        BY Zenon, <1>1, <2>1, <2>2
<1>4. lease'[l].epoch = epoch'
    BY Zenon, <1>1 DEF LeasesClosed
<1>5. /\ \A b \in Agents : SessionInv(b)'
      /\ \A w \in Workers : SyncInv(w)'
      /\ OneEngaged'
    BY Zenon, <1>1, <1>2, <1>3, AllLeasesClosed
<1>6. Epochs'
    <2>1. \A k \in ActiveLeases' : k = l /\ lease'[k].epoch = epoch'
        BY Zenon, <1>3, <1>4 DEF ActiveLeases
    <2>2. crDone <= crReq /\ crDone \in Nat
        BY Zenon, <1>e DEF Epochs, AgentInv, AgentTypeOK
    <2>3. crDone' <= crReq'
        BY <1>1, <1>t, <2>2
    <2>4. crEpoch' <= epoch'
        BY <1>2, <1>t
    <2> QED
        BY Zenon, <1>2, <2>1, <2>3, <2>4 DEF Epochs
<1>7. AuthorityInv'
    <2>1. \A q : q.lease \in Leases /\ OfLease(q) => OfLease(q)'
        BY Zenon, <1>3 DEF OfLease
    <2>2. \A q \in authSent : q.st = "active" => q.lease \in Leases
        BY Zenon, <1>t DEF AuthReq
    <2>3. \A q \in authSent : q.epoch <= crEpoch => q.epoch <= crEpoch'
        BY <1>2, <1>t DEF AuthReq
    <2> QED
        BY Zenon, <1>1, <2>1, <2>2, <2>3 DEF ControlInv, AuthorityInv
<1> QED
    BY Zenon, <1>5, <1>6, <1>7 DEF ControlInv

------------------------------------------------------------------------------
(* Steps of one Agent.                                                     *)

\* Nothing of the other Agents changes.
OthersKept(a) ==
    \A b \in Agents : b # a =>
        /\ asess'[b] = asess[b] /\ aSent'[b] = aSent[b] /\ aFence'[b] = aFence[b]
        /\ aOS'[b] = aOS[b] /\ aBusy'[b] = aBusy[b] /\ aSeen'[b] = aSeen[b]

\* The row moves on from what a worker may have to stop, or stays at it.
RowAdvances(a) ==
    \/ asess'[a].epoch > asess[a].epoch
    \/ asess'[a].epoch >= asess[a].epoch /\ asess[a].st \notin {"revoking", "disabled"}
    \/ /\ asess'[a].epoch = asess[a].epoch /\ asess'[a].lease = asess[a].lease
       /\ asess'[a].login = asess[a].login
       /\ asess[a].st \in {"revoking", "disabled"} => asess'[a].st \in {"revoking", "disabled"}

LEMMA TodoKept ==
    ASSUME AgentInv, AgentInv', ControlInv, NEW a \in Agents, OthersKept(a), RowAdvances(a),
           NEW w \in Workers, NEW s \in sync[w].todo
    PROVE  CommandOf(s.agent, StopIntent(s))'
<1>1. /\ s.agent \in Agents /\ CommandOf(s.agent, StopIntent(s)) /\ StopIntent(s).op = "stop"
      /\ StopIntent(s).epoch \in Nat
    BY Zenon, TodoTypes DEF ControlInv, SyncInv
<1>2. asess[s.agent].epoch \in Nat /\ asess'[s.agent].epoch \in Nat
    BY Zenon, <1>1 DEF AgentInv, AgentTypeOK, AgentSession
<1>3. CASE s.agent = a
    BY Zenon, <1>1, <1>2, <1>3, StopKept DEF RowAdvances
<1>4. CASE s.agent # a
    BY Zenon, <1>1, <1>2, <1>4, StopKept DEF OthersKept
<1> QED
    BY Zenon, <1>3, <1>4

LEMMA RowChange ==
    ASSUME ControlInv, NEW a \in Agents, OthersKept(a), UNCHANGED <<lease, epoch, crReq, crDone, crEpoch>>,
           \A w \in Workers : SyncInv(w)', SessionInv(a)', OneEngaged', AuthorityInv'
    PROVE  ControlInv'
<1>1. Epochs'
    BY Zenon DEF ControlInv, Epochs, ActiveLeases
<1>2. ASSUME NEW b \in Agents, b # a PROVE SessionInv(b)'
    <2>1. /\ asess'[b] = asess[b] /\ aSent'[b] = aSent[b] /\ aFence'[b] = aFence[b]
          /\ aOS'[b] = aOS[b] /\ aBusy'[b] = aBusy[b] /\ aSeen'[b] = aSeen[b]
        BY Zenon, <1>2 DEF OthersKept
    <2>2. SessionFollowsLease(b)'
        BY Zenon, <2>1 DEF ControlInv, SessionInv, SessionFollowsLease, ComputerRevocationPending, LiveSession
    <2>3. AgentGuestInv(b)'
        BY Zenon, <2>1, AgentGuestFrame DEF ControlInv, SessionInv
    <2> QED
        BY Zenon, <2>2, <2>3 DEF SessionInv
<1> QED
    BY Zenon, <1>1, <1>2 DEF ControlInv

LEMMA RowStep ==
    ASSUME AgentInv, AgentInv', ControlInv, NEW a \in Agents, OthersKept(a), RowAdvances(a),
           UNCHANGED <<lease, epoch, crReq, crDone, crEpoch, sync>>,
           asess'[a].st = "revoking" => asess[a].st = "revoking" /\ Row(a)' = Row(a),
           SessionInv(a)', OneEngaged', AuthorityInv'
    PROVE  ControlInv'
<1>1. ASSUME NEW w \in Workers PROVE SyncInv(w)'
    <2>1. \A s \in sync[w].todo : CommandOf(s.agent, StopIntent(s))'
        BY Zenon, <1>1, TodoKept
    <2>2. \A b \in Agents : asess'[b].st = "revoking" => asess[b].st = "revoking" /\ Row(b)' = Row(b)
        BY Zenon DEF OthersKept, Row
    <2> QED
        BY Zenon, <2>1, <2>2, SyncFrame DEF ControlInv
<1> QED
    BY Zenon, <1>1, RowChange

\* Versions are ordered.
LEMMA Older ==
    \A e, f, g \in Nat : e <= f /\ f < g => e < g /\ e <= g /\ e # g
    BY SMT

LEMMA SameVersion ==
    \A e \in Nat : 0 <= e /\ e <= e /\ ~(e < e)
    BY SMT

LEMMA Newest ==
    \A e, f \in Nat : e <= f /\ ~(e < f) => e = f
    BY SMT

\* A completed stop leaves a fence that no login of its epoch passes.
LEMMA StopVersion ==
    ASSUME NEW s, s.login \in Nat
    PROVE  /\ AgentCompleted(StopIntent(s)).phase = "revoked"
           /\ AgentCompleted(StopIntent(s)).epoch = s.epoch
           /\ AgentCompleted(StopIntent(s)).login >= s.login
    BY DEF AgentCompleted, StopIntent

\* The Guest starts no login that its fence has overtaken.
LEMMA LoginIsNewer ==
    \A x : \A f \in AgentFence, q \in LoginReq :
        AgentPlan(f, q, x) /\ q.op = "login" => ~Overtaken(f, q)
    BY DEF AgentFence, LoginReq, AgentPlan, Overtaken

\* A command the Guest starts leaves no command behind that was overtaken before.
LEMMA OvertakenStays ==
    \A x : \A f \in AgentFence, q \in LoginReq, c \in LoginReq :
        AgentPlan(f, q, x) /\ Overtaken(f, c) => Overtaken(AgentPending(q), c)
<1> TAKE x
<1> TAKE f \in AgentFence, q \in LoginReq, c \in LoginReq
<1> HAVE AgentPlan(f, q, x) /\ Overtaken(f, c)
<1>1. AgentPending(q).epoch = q.epoch /\ AgentPending(q).login = q.login
    BY Zenon DEF AgentPending
<1>2. /\ f.epoch \in Nat /\ f.login \in Nat /\ q.epoch \in Nat /\ q.login \in Nat
      /\ c.epoch \in Nat /\ c.login \in Nat
    BY Zenon DEF AgentFence, LoginReq
<1>3. q.epoch >= f.epoch /\ (q.epoch = f.epoch => q.login >= f.login)
    BY Zenon DEF AgentPlan
<1> QED
    BY <1>1, <1>2, <1>3 DEF Overtaken

\* Authority that a step neither sends nor publishes.
LEMMA AuthorityFrame ==
    ASSUME ControlInv, UNCHANGED <<lease, epoch, crEpoch, auth, authSent>>
    PROVE  AuthorityInv'
    BY Zenon DEF ControlInv, AuthorityInv, OfLease

\* A session starts only when every earlier one has been stopped.
LEMMA BeginSessionControl ==
    ASSUME AgentInv, AgentInv', ControlInv, NEW a \in Agents, NEW l \in Leases,
           BeginAgentGuestSession(a, l)
    PROVE  ControlInv'
<1>0. SessionInv(a) /\ Epochs /\ SessionFollowsLease(a) /\ AgentGuestInv(a) /\ epoch \in Nat
    BY Zenon DEF ControlInv, SessionInv, AgentInv, AgentTypeOK
<1>n. /\ asess[a].epoch \in Nat /\ asess[a].login \in Nat
      /\ aFence[a].epoch \in Nat /\ aFence[a].login \in Nat
    BY Zenon, AgentTypes
<1>1. /\ asess' = [asess EXCEPT ![a] = [st |-> "provisioning", lease |-> l,
                      epoch |-> lease[l].epoch, login |-> 0, uid |-> asess[a].uid]]
      /\ UNCHANGED <<lease, epoch, crReq, crDone, crEpoch, sync, auth, authSent>>
      /\ UNCHANGED guestRecords
      /\ lease[l].st = "active" /\ lease[l].agent = a /\ CleanedUp(l)
      /\ asess[a].st \in {"none", "disabled"}
    BY Zenon DEF BeginAgentGuestSession, Holds, agentGuest, agentSeen, guestRecords
<1>2. lease[l].epoch = epoch
    BY Zenon, <1>0, <1>1 DEF Epochs, ActiveLeases
<1>3. /\ asess'[a].st = "provisioning" /\ asess'[a].lease = l /\ asess'[a].epoch = epoch
      /\ asess'[a].login = 0 /\ asess'[a].uid = asess[a].uid
      /\ \A b \in Agents : b # a => asess'[b] = asess[b]
    <2>1. asess \in [Agents -> AgentSession]
        BY Zenon DEF AgentInv, AgentTypeOK
    <2> QED
        BY Zenon, <1>1, <1>2, <2>1
<1>4. OthersKept(a)
    BY Zenon, <1>1, <1>3 DEF OthersKept, guestRecords
<1>5. asess[a].st = "disabled" => asess[a].epoch < epoch
    BY Zenon, <1>0 DEF SessionFollowsLease
<1>6. RowAdvances(a)
    BY Zenon, <1>0, <1>1, <1>3, <1>5, <1>n DEF RowAdvances, SessionFollowsLease
<1>7. SessionFollowsLease(a)'
    BY <1>0, <1>1, <1>2, <1>3 DEF SessionFollowsLease, LiveSession
<1>8. AgentGuestInv(a)'
    <2>1. CASE ~asess[a].uid
        <3>1. /\ aSent'[a] = {} /\ aSeen'[a] = {} /\ aFence'[a] = NoAgentFence /\ aBusy'[a] = NoLogin
              /\ aOS'[a] = ClosedOS
            BY Zenon, <1>0, <1>1, <2>1 DEF AgentGuestInv, NeverBoundIsEmpty, guestRecords
        <3>2. AgentCommandsOrdered(a)'
            BY <3>1 DEF AgentCommandsOrdered
        <3>3. aFence'[a].epoch <= asess'[a].epoch /\ ~AgentLoginLive(a)'
            <4>1. NoAgentFence.epoch = 0 /\ NoAgentFence.phase = "none"
                BY Zenon DEF NoAgentFence
            <4> QED
                BY Zenon, <1>0, <1>3, <3>1, <4>1, SameVersion DEF AgentLoginLive, LoginLive
        <3>4. asess'[a].st # "disabled" /\ \A q \in aSeen'[a] : FALSE
            BY <1>3, <3>1
        <3> QED
            BY Zenon, <3>1, <3>2, <3>3, <3>4 DEF AgentGuestInv, NeverBoundIsEmpty, AgentFenceOrdered, StopReceiptsValid
    <2>2. CASE asess[a].uid
        <3>1. asess[a].st = "disabled" /\ asess[a].epoch < epoch /\ StoppedBy(a, StopIntent(asess[a]))
            BY Zenon, <1>0, <1>1, <1>5, <2>2 DEF SessionFollowsLease, AgentGuestInv, StopReceiptsValid
        <3>2. /\ aFence[a].phase = "revoked" /\ aFence[a].epoch = asess[a].epoch
              /\ aFence[a].login >= asess[a].login
            <4>1. aFence[a] = AgentCompleted(StopIntent(asess[a]))
                BY Zenon, <3>1 DEF StoppedBy
            <4> QED
                BY Zenon, <1>n, <4>1, StopVersion
        <3>b. aBusy[a] # NoLogin => aBusy[a].epoch \in Nat
            BY Zenon, AgentTypes
        <3>s. \A q \in aSeen[a] : q.epoch \in Nat
            BY Zenon, AgentTypes
        <3>3. ASSUME NEW q, q.epoch \in Nat, CommandOf(a, q) PROVE CommandOf(a, q)' /\ q.epoch < epoch /\ q.epoch # epoch
            <4>1. q.epoch < epoch /\ q.epoch <= epoch /\ q.epoch # epoch
                BY Zenon, <1>0, <3>1, <3>3, <1>n, Older DEF CommandOf
            <4> QED
                BY Zenon, <1>3, <4>1 DEF CommandOf
        <3>4. ASSUME NEW q \in aSent[a], q.op = "login" PROVE Overtaken(aFence[a], q)
            <4>1. CommandOf(a, q) /\ q.epoch \in Nat /\ q.login \in Nat
                BY Zenon, <1>0, AgentTypes DEF AgentGuestInv, AgentCommandsOrdered
            <4> QED
                BY <3>2, <3>4, <4>1, <1>n DEF CommandOf, Overtaken
        <3>5. AgentCommandsOrdered(a)'
            <4>1. \A q \in aSent[a] : CommandOf(a, q)' /\ (q.op = "login" => Overtaken(aFence[a], q))
                BY Zenon, <1>0, <3>3, <3>4, AgentTypes DEF AgentGuestInv, AgentCommandsOrdered
            <4>2. aBusy[a] # NoLogin => CommandOf(a, aBusy[a])'
                <5>1. aBusy' = aBusy
                    BY Zenon, <1>1 DEF guestRecords
                <5> QED
                    BY Zenon, <1>0, <3>3, <3>b, <5>1 DEF AgentGuestInv, AgentCommandsOrdered, CommandOf
            <4> QED
                BY Zenon, <1>1, <4>1, <4>2 DEF AgentCommandsOrdered, guestRecords, Overtaken, CommandOf
        <3>6. AgentFenceOrdered(a)'
            BY <1>0, <1>1, <1>3, <3>1, <3>2, <1>n DEF AgentFenceOrdered, AgentLoginLive, guestRecords
        <3>7. StopReceiptsValid(a)'
            <4>1. \A q \in aSeen[a] : q.op = "stop" => CommandOf(a, q)' /\ q.epoch # epoch
                BY Zenon, <1>0, <3>3, <3>s DEF AgentGuestInv, StopReceiptsValid
            <4> QED
                BY Zenon, <1>1, <1>3, <4>1 DEF StopReceiptsValid, guestRecords
        <3> QED
            BY Zenon, <1>3, <2>2, <3>5, <3>6, <3>7 DEF AgentGuestInv, NeverBoundIsEmpty
    <2> QED
        BY Zenon, <2>1, <2>2
<1>9. OneEngaged'
    <2>1. ASSUME NEW b \in Agents, b # a PROVE ~Engaged(b)'
        <3>1. asess'[b] = asess[b] /\ asess[b].st # "revoking" /\ (LiveSession(b) => asess[b].lease = l)
            BY Zenon, <1>1, <1>3, <2>1 DEF CleanedUp
        <3>2. LiveSession(b) => lease[asess[b].lease].agent = b
            BY Zenon DEF ControlInv, SessionInv, SessionFollowsLease, LiveSession
        <3> QED
            BY Zenon, <1>1, <2>1, <3>1, <3>2 DEF Engaged, LiveSession
    <2> QED
        BY Zenon, <2>1 DEF OneEngaged
<1> QED
    BY Zenon, <1>1, <1>3, <1>4, <1>6, <1>7, <1>8, <1>9, RowStep, AuthorityFrame DEF SessionInv

\* A live row whose account is bound or whose login is confirmed.
LEMMA LiveRowControl ==
    ASSUME AgentInv, AgentInv', ControlInv, NEW a \in Agents, LiveSession(a),
           NEW r \in AgentSession, asess' = [asess EXCEPT ![a] = r],
           r.st \in {"provisioning", "ready"}, r.epoch = asess[a].epoch, r.lease = asess[a].lease,
           r.login = asess[a].login, asess[a].uid => r.uid,
           UNCHANGED <<lease, epoch, crReq, crDone, crEpoch, sync>>, UNCHANGED guestRecords,
           AuthorityInv'
    PROVE  ControlInv'
<1>1. asess'[a] = r /\ \A b \in Agents : b # a => asess'[b] = asess[b]
    BY Zenon DEF AgentInv, AgentTypeOK
<1>2. OthersKept(a)
    BY Zenon, <1>1 DEF OthersKept, guestRecords
<1>3. RowAdvances(a)
    BY Zenon, <1>1 DEF RowAdvances, LiveSession
<1>4. SessionFollowsLease(a)'
    <2>1. SessionFollowsLease(a)
        BY Zenon DEF ControlInv, SessionInv
    <2> QED
        BY Zenon, <1>1, <2>1 DEF SessionFollowsLease, LiveSession
<1>5. AgentGuestInv(a)'
    BY Zenon, <1>1, RowMoves DEF ControlInv, SessionInv, guestRecords
<1>6. OneEngaged'
    <2>1. \A b \in Agents : Engaged(b)' => Engaged(b)
        BY Zenon, <1>1 DEF Engaged, LiveSession
    <2> QED
        BY Zenon, <2>1 DEF ControlInv, OneEngaged
<1> QED
    BY Zenon, <1>1, <1>2, <1>3, <1>4, <1>5, <1>6, RowStep DEF SessionInv

\* The next login generation, and its command.
LEMMA BeginLoginControl ==
    ASSUME AgentInv, AgentInv', ControlInv, NEW a \in Agents, BeginAgentGuestLogin(a)
    PROVE  ControlInv'
<1>q. PICK q : q = [op |-> "login", epoch |-> asess[a].epoch, login |-> asess[a].login + 1,
                    lease |-> asess[a].lease]
    BY Zenon
<1> DEFINE n == asess[a].login + 1
           m == [asess EXCEPT ![a].login = n]
<1>0. /\ SessionFollowsLease(a) /\ AgentGuestInv(a) /\ asess \in [Agents -> AgentSession]
      /\ aSent \in [Agents -> SUBSET LoginReq]
    BY Zenon DEF ControlInv, SessionInv, AgentInv, AgentTypeOK
<1>n. /\ asess[a].epoch \in Nat /\ asess[a].login \in Nat
      /\ aFence[a].epoch \in Nat /\ aFence[a].login \in Nat
    BY Zenon, AgentTypes
<1>1. /\ asess' = [m EXCEPT ![a].st = "provisioning"] /\ aSent' = [aSent EXCEPT ![a] = @ \cup {q}]
      /\ LiveSession(a) /\ asess[a].uid
      /\ UNCHANGED <<lease, epoch, crReq, crDone, crEpoch, sync, auth, authSent, aFence, aOS, aBusy, aSeen>>
    BY Zenon, <1>q DEF BeginAgentGuestLogin, agentSeen
<1>m. /\ m \in [Agents -> AgentSession] /\ m[a].login = n /\ m[a].epoch = asess[a].epoch
      /\ m[a].lease = asess[a].lease /\ m[a].uid = asess[a].uid
      /\ \A b \in Agents : b # a => m[b] = asess[b]
    BY <1>0 DEF AgentSession
<1>2. /\ asess'[a].st = "provisioning" /\ asess'[a].login = n /\ asess'[a].epoch = asess[a].epoch
      /\ asess'[a].lease = asess[a].lease /\ asess'[a].uid = asess[a].uid
      /\ \A b \in Agents : b # a => asess'[b] = asess[b]
    <2> HIDE DEF m, n
    <2> QED
        BY Zenon, <1>1, <1>m DEF AgentSession
<1>3. aSent'[a] = aSent[a] \cup {q} /\ \A b \in Agents : b # a => aSent'[b] = aSent[b]
    BY Zenon, <1>0, <1>1
<1> HIDE DEF m
<1>4. OthersKept(a)
    BY Zenon, <1>1, <1>2, <1>3 DEF OthersKept
<1>5. RowAdvances(a)
    BY <1>1, <1>2, <1>n DEF RowAdvances, LiveSession
<1>6. SessionFollowsLease(a)'
    BY Zenon, <1>0, <1>1, <1>2 DEF SessionFollowsLease, LiveSession
<1>7. OneEngaged'
    BY ZenonT(40), <1>1, <1>2 DEF ControlInv, OneEngaged, Engaged, LiveSession
<1>8. AgentGuestInv(a)'
    <2>1. ASSUME NEW c, CommandOf(a, c), c.login \in Nat PROVE CommandOf(a, c)'
        BY <1>1, <1>2, <2>1, <1>n DEF CommandOf, LiveSession
    <2>2. CommandOf(a, q)'
        <3>1. n \in Nat
            BY <1>n
        <3>2. q.op = "login" /\ q.epoch = asess[a].epoch /\ q.login = n /\ q.lease = asess[a].lease
            BY Zenon, <1>q
        <3> HIDE DEF n
        <3> QED
            BY Zenon, <1>2, <1>n, <3>1, <3>2, SameVersion DEF CommandOf
    <2>3. AgentCommandsOrdered(a)'
        <3>1. \A c \in aSent[a] :
                CommandOf(a, c)' /\ (c.op = "login" /\ c.epoch < asess[a].epoch => Overtaken(aFence[a], c))
            BY Zenon, <1>0, <2>1, AgentTypes DEF AgentGuestInv, AgentCommandsOrdered
        <3>2. ~(q.epoch < asess[a].epoch)
            BY Zenon, <1>q, <1>n, SameVersion
        <3>b. aBusy[a] # NoLogin => aBusy[a].login \in Nat
            BY Zenon, AgentTypes
        <3>3. aBusy[a] # NoLogin => CommandOf(a, aBusy[a])'
            BY Zenon, <1>0, <1>1, <2>1, <3>b DEF AgentGuestInv, AgentCommandsOrdered, CommandOf
        <3>4. aBusy'[a] = aBusy[a] /\ aFence'[a] = aFence[a]
            BY Zenon, <1>1
        <3> QED
            BY Zenon, <1>2, <1>3, <2>2, <3>1, <3>2, <3>3, <3>4 DEF AgentCommandsOrdered, Overtaken
    <2>4. AgentFenceOrdered(a)'
        BY Zenon, <1>0, <1>1, <1>2 DEF AgentGuestInv, AgentFenceOrdered, AgentLoginLive, Engaged, LiveSession
    <2>5. StopReceiptsValid(a)'
        BY Zenon, <1>0, <1>1, <1>2, <2>1, AgentTypes DEF AgentGuestInv, StopReceiptsValid, StoppedBy
    <2> QED
        BY Zenon, <1>1, <1>2, <2>3, <2>4, <2>5 DEF AgentGuestInv, NeverBoundIsEmpty
<1> QED
    BY Zenon, <1>1, <1>2, <1>4, <1>5, <1>6, <1>7, <1>8, RowStep, AuthorityFrame DEF SessionInv

LEMMA SessionControl ==
    ASSUME AgentInv, AgentInv', ControlInv, NEW a \in Agents,
           BindAgentGuestAccount(a) \/ BeginAgentGuestLogin(a) \/ MarkAgentGuestSessionReady(a)
    PROVE  ControlInv'
<1>0. asess[a] \in AgentSession /\ asess \in [Agents -> AgentSession] /\ SessionFollowsLease(a)
    BY Zenon DEF AgentInv, AgentTypeOK, ControlInv, SessionInv
<1>1. CASE BindAgentGuestAccount(a)
    <2> DEFINE r == [asess[a] EXCEPT !.uid = TRUE]
    <2>1. /\ asess' = [asess EXCEPT ![a] = r] /\ LiveSession(a)
          /\ UNCHANGED <<lease, epoch, crReq, crDone, crEpoch, sync, auth, authSent>>
          /\ UNCHANGED guestRecords
        BY Zenon, <1>1 DEF BindAgentGuestAccount, agentGuest, agentSeen, guestRecords
    <2>2. /\ r \in AgentSession /\ r.st = asess[a].st /\ r.epoch = asess[a].epoch
          /\ r.lease = asess[a].lease /\ r.login = asess[a].login /\ r.uid
        BY Zenon, <1>0 DEF AgentSession
    <2> HIDE DEF r
    <2> QED
        BY Zenon, <2>1, <2>2, LiveRowControl, AuthorityFrame DEF LiveSession
<1>2. CASE MarkAgentGuestSessionReady(a)
    <2> DEFINE r == [asess[a] EXCEPT !.st = "ready"]
    <2>q. PICK q : q = [st |-> "active", epoch |-> asess[a].epoch, lease |-> asess[a].lease, agent |-> a]
        BY Zenon
    <2>1. /\ asess' = [asess EXCEPT ![a] = r] /\ LiveSession(a) /\ authSent' = authSent \cup {q}
          /\ UNCHANGED <<lease, epoch, crReq, crDone, crEpoch, sync, auth>>
          /\ UNCHANGED guestRecords
        BY Zenon, <1>2, <2>q DEF MarkAgentGuestSessionReady, agentSeen, guestRecords
    <2>2. /\ r \in AgentSession /\ r.st = "ready" /\ r.epoch = asess[a].epoch
          /\ r.lease = asess[a].lease /\ r.login = asess[a].login /\ r.uid = asess[a].uid
        BY Zenon, <1>0 DEF AgentSession
    <2>3. /\ lease[asess[a].lease].st = "active" /\ lease[asess[a].lease].epoch = asess[a].epoch
          /\ asess[a].lease \in Leases
        BY Zenon, <1>0, <2>1 DEF SessionFollowsLease, LiveSession, AgentInv, AgentShape
    <2>4. asess[a].epoch = epoch
        BY Zenon, <2>3 DEF ControlInv, Epochs, ActiveLeases
    <2>5. q.st = "active" /\ OfLease(q)'
        BY Zenon, <2>1, <2>3, <2>4, <2>q DEF OfLease
    <2> HIDE DEF r
    <2>6. AuthorityInv'
        BY Zenon, <2>1, <2>5 DEF ControlInv, AuthorityInv, OfLease
    <2> QED
        BY Zenon, <2>1, <2>2, <2>6, LiveRowControl DEF LiveSession
<1> QED
    BY Zenon, <1>1, <1>2, BeginLoginControl

------------------------------------------------------------------------------
(* The workers that synchronise computer revocations.                      *)

\* A worker that only changes its own state and what it dispatches.
LEMMA WorkerStep ==
    ASSUME ControlInv, NEW w \in Workers, \A v \in Workers : v # w => sync'[v] = sync[v],
           UNCHANGED <<lease, epoch, crReq, crDone, crEpoch, asess>>, UNCHANGED guestRecords,
           SyncInv(w)', AuthorityInv'
    PROVE  ControlInv'
<1>1. Epochs' /\ OneEngaged'
    BY Zenon DEF ControlInv, Epochs, ActiveLeases, OneEngaged, Engaged, LiveSession
<1>2. ASSUME NEW a \in Agents PROVE SessionInv(a)'
    <2>1. SessionFollowsLease(a)'
        BY Zenon DEF ControlInv, SessionInv, SessionFollowsLease, ComputerRevocationPending, LiveSession
    <2>2. AgentGuestInv(a)'
        BY Zenon, AgentGuestFrame DEF ControlInv, SessionInv, guestRecords
    <2> QED
        BY Zenon, <2>1, <2>2 DEF SessionInv
<1>3. ASSUME NEW v \in Workers, v # w PROVE SyncInv(v)'
    BY Zenon, <1>3 DEF ControlInv, SyncInv, ComputerRevocationPending, CommandOf, Row
<1> QED
    BY Zenon, <1>1, <1>2, <1>3 DEF ControlInv

\* A worker without work in hand.
LEMMA IdleWorker ==
    ASSUME AgentInv', NEW w \in Workers, sync'[w].rev <= crReq', sync'[w].todo = {},
           sync'[w].pc \notin {"fence", "stop"}
    PROVE  SyncInv(w)'
    BY Zenon DEF SyncInv

\* Reading the queue, the rows to stop and the receipt of the tombstone.
LEMMA ReadControl ==
    ASSUME AgentInv, AgentInv', ControlInv, NEW w \in Workers,
           \/ ReadRevocationQueue(w) \/ FenceAuthority(w) \/ AuthorityFenced(w)
           \/ SyncFails(w) \/ AbandonSync(w)
    PROVE  ControlInv'
<1>t. /\ sync \in [Workers -> SyncState] /\ sync[w] \in SyncState /\ crReq \in Nat /\ crEpoch \in Nat
      /\ SyncInv(w) /\ AuthorityInv
    BY Zenon DEF AgentInv, AgentTypeOK, ControlInv
<1>0. ASSUME sync' = [sync EXCEPT ![w] = Idle],
             UNCHANGED <<leaseDB, agentGuest, aSeen>>
      PROVE  ControlInv'
    <2>1. sync'[w] = Idle /\ \A v \in Workers : v # w => sync'[v] = sync[v]
        BY Zenon, <1>0, <1>t
    <2>2. Idle.rev = 0 /\ Idle.todo = {} /\ Idle.pc = "idle" /\ 0 <= crReq
        BY <1>t DEF Idle
    <2>3. /\ UNCHANGED <<lease, epoch, crReq, crDone, crEpoch, asess, auth, authSent>>
          /\ UNCHANGED guestRecords
        BY Zenon, <1>0 DEF leaseDB, agentGuest, guestRecords
    <2>4. SyncInv(w)'
        BY Zenon, <2>1, <2>2, <2>3, IdleWorker
    <2> QED
        BY Zenon, <2>1, <2>3, <2>4, WorkerStep, AuthorityFrame
<1>1. CASE ReadRevocationQueue(w)
    <2>1. /\ sync' = [sync EXCEPT ![w] = [Idle EXCEPT !.pc = "read",
                        !.rev = IF ComputerRevocationPending THEN crReq ELSE 0]]
          /\ UNCHANGED <<lease, epoch, crReq, crDone, crEpoch, asess, auth, authSent>>
          /\ UNCHANGED guestRecords
        BY Zenon, <1>1 DEF ReadRevocationQueue, leaseDB, agentGuest, guestRecords
    <2>2. /\ sync'[w].rev <= crReq' /\ sync'[w].todo = {} /\ sync'[w].pc = "read"
          /\ \A v \in Workers : v # w => sync'[v] = sync[v]
        BY <1>t, <2>1 DEF Idle, SyncState
    <2>3. SyncInv(w)'
        BY Zenon, <2>2, IdleWorker
    <2> QED
        BY Zenon, <2>1, <2>2, <2>3, WorkerStep, AuthorityFrame
<1>2. CASE AuthorityFenced(w)
    <2>1. /\ sync' = [sync EXCEPT ![w].pc = "stop"] /\ sync[w].pc = "fence"
          /\ UNCHANGED <<lease, epoch, crReq, crDone, crEpoch, asess, auth, authSent>>
          /\ UNCHANGED guestRecords
        BY Zenon, <1>2 DEF AuthorityFenced, leaseDB, agentGuest, guestRecords
    <2>2. /\ sync'[w].rev = sync[w].rev /\ sync'[w].todo = sync[w].todo
          /\ \A v \in Workers : v # w => sync'[v] = sync[v]
        BY Zenon, <1>t, <2>1 DEF SyncState
    <2>3. SyncInv(w)'
        BY Zenon, <1>t, <2>1, <2>2 DEF SyncInv, ComputerRevocationPending, CommandOf, Row
    <2> QED
        BY Zenon, <2>1, <2>2, <2>3, WorkerStep, AuthorityFrame
<1>3. CASE FenceAuthority(w) /\ \A a \in Agents : asess[a].st = "none"
    <2>1. /\ sync' = [sync EXCEPT ![w].pc = "stop"]
          /\ UNCHANGED <<lease, epoch, crReq, crDone, crEpoch, asess, auth, authSent>>
          /\ UNCHANGED guestRecords
        BY Zenon, <1>3 DEF FenceAuthority, leaseDB, guestRecords
    <2>2. /\ sync'[w].rev = sync[w].rev /\ sync'[w].todo = sync[w].todo
          /\ \A v \in Workers : v # w => sync'[v] = sync[v]
        BY Zenon, <1>t, <2>1 DEF SyncState
    <2>3. SyncInv(w)'
        BY Zenon, <1>3, <1>t, <2>1, <2>2 DEF SyncInv, CommandOf
    <2> QED
        BY Zenon, <2>1, <2>2, <2>3, WorkerStep, AuthorityFrame
<1>4. CASE FenceAuthority(w) /\ ~\A a \in Agents : asess[a].st = "none"
    <2> DEFINE T == {Row(a) : a \in {b \in Agents : asess[b].st = "revoking"}}
               r == [sync[w] EXCEPT !.pc = "fence", !.epoch = crEpoch, !.todo = T]
    <2>1. /\ sync' = [sync EXCEPT ![w] = r] /\ authSent' = authSent \cup {Tombstone(crEpoch)}
          /\ UNCHANGED <<lease, epoch, crReq, crDone, crEpoch, asess, auth>>
          /\ UNCHANGED guestRecords
        BY Zenon, <1>4 DEF FenceAuthority, FenceEpoch, Row, leaseDB, guestRecords
    <2>2. /\ sync'[w].rev = sync[w].rev /\ sync'[w].todo = T
          /\ \A v \in Workers : v # w => sync'[v] = sync[v]
        <3> HIDE DEF T
        <3> QED
            BY Zenon, <1>t, <2>1 DEF SyncState
    <2>3. ASSUME NEW a \in Agents, asess[a].st = "revoking"
          PROVE  CommandOf(Row(a).agent, StopIntent(Row(a)))
        <3>1. asess[a].epoch \in Nat
            BY Zenon, AgentTypes
        <3>2. /\ Row(a).agent = a /\ Row(a).epoch = asess[a].epoch
              /\ Row(a).lease = asess[a].lease /\ Row(a).login = asess[a].login
            BY Zenon DEF Row
        <3>3. StopIntent(Row(a)) = StopIntent(asess[a])
            BY Zenon, <3>2 DEF StopIntent
        <3>4. /\ StopIntent(asess[a]).op = "stop" /\ StopIntent(asess[a]).epoch = asess[a].epoch
              /\ StopIntent(asess[a]).lease = asess[a].lease
            BY Zenon DEF StopIntent
        <3> QED
            BY Zenon, <2>3, <3>1, <3>2, <3>3, <3>4, SameVersion DEF CommandOf
    <2>4. \A s \in T : CommandOf(s.agent, StopIntent(s))
        BY Zenon, <2>3
    <2>5. SyncInv(w)'
        <3>1. \A s \in sync'[w].todo : CommandOf(s.agent, StopIntent(s))'
            BY Zenon, <2>1, <2>2, <2>4 DEF CommandOf
        <3>2. \A a \in Agents : asess'[a].st = "revoking" => Row(a)' \in sync'[w].todo
            BY Zenon, <2>1, <2>2 DEF Row
        <3> HIDE DEF T
        <3> QED
            BY Zenon, <1>t, <2>1, <2>2, <3>1, <3>2 DEF SyncInv
    <2>6. AuthorityInv'
        <3>1. Tombstone(crEpoch).st # "active" /\ Tombstone(crEpoch).epoch <= crEpoch
            BY <1>t DEF Tombstone
        <3> QED
            BY Zenon, <1>t, <2>1, <3>1 DEF AuthorityInv, OfLease
    <2> QED
        BY Zenon, <2>1, <2>2, <2>5, <2>6, WorkerStep
<1>5. CASE SyncFails(w) \/ AbandonSync(w)
    BY Zenon, <1>0, <1>5 DEF SyncFails, AbandonSync
<1> QED
    BY Zenon, <1>1, <1>2, <1>3, <1>4, <1>5

\* The account of a session that is being revoked is bound and told to stop.
LEMMA StopControl ==
    ASSUME AgentInv, AgentInv', ControlInv, NEW w \in Workers, NEW s \in sync[w].todo,
           StopAgentSession(w, s)
    PROVE  ControlInv'
<1>q. PICK a, q : a = s.agent /\ q = StopIntent(s)
    OBVIOUS
<1>t. a \in Agents
    BY Zenon, <1>q, TodoTypes
<1>n. /\ asess[a].epoch \in Nat /\ asess[a].login \in Nat
      /\ aFence[a].epoch \in Nat /\ aFence[a].login \in Nat
    BY Zenon, <1>t, AgentTypes
<1>0. /\ SessionFollowsLease(a) /\ AgentGuestInv(a) /\ asess \in [Agents -> AgentSession]
      /\ aSent \in [Agents -> SUBSET LoginReq]
    BY Zenon, <1>t DEF ControlInv, SessionInv, AgentInv, AgentTypeOK
<1>1. /\ asess' = [asess EXCEPT ![a].uid = TRUE] /\ aSent' = [aSent EXCEPT ![a] = @ \cup {q}]
      /\ asess[a].st = "revoking" /\ s = Row(a)
      /\ UNCHANGED <<lease, epoch, crReq, crDone, crEpoch, sync, auth, authSent, aFence, aOS, aBusy, aSeen>>
    BY Zenon, <1>q DEF StopAgentSession, agentSeen, Current, Row
<1>2. /\ asess'[a].st = asess[a].st /\ asess'[a].login = asess[a].login /\ asess'[a].epoch = asess[a].epoch
      /\ asess'[a].lease = asess[a].lease /\ asess'[a].uid
      /\ \A b \in Agents : b # a => asess'[b] = asess[b]
    BY Zenon, <1>0, <1>1, <1>t DEF AgentSession
<1>3. aSent'[a] = aSent[a] \cup {q} /\ \A b \in Agents : b # a => aSent'[b] = aSent[b]
    BY Zenon, <1>0, <1>1, <1>t
<1>4. OthersKept(a) /\ RowAdvances(a)
    BY Zenon, <1>1, <1>2, <1>3 DEF OthersKept, RowAdvances
<1>5. SessionFollowsLease(a)' /\ OneEngaged' /\ Row(a)' = Row(a)
    <2>1. OneEngaged'
        BY Zenon, <1>2 DEF ControlInv, OneEngaged, Engaged, LiveSession
    <2>2. SessionFollowsLease(a)'
        BY Zenon, <1>0, <1>1, <1>2 DEF SessionFollowsLease, LiveSession, ComputerRevocationPending
    <2> QED
        BY Zenon, <1>2, <2>1, <2>2 DEF Row
<1>6. \A c : CommandOf(a, c) => CommandOf(a, c)'
    BY Zenon, <1>2 DEF CommandOf, StopIntent
<1>7. CommandOf(a, q)' /\ q.op = "stop"
    BY <1>1, <1>2, <1>q, <1>t, <1>n DEF CommandOf, StopIntent, Row
<1>8. AgentGuestInv(a)'
    <2>1. AgentCommandsOrdered(a)'
        <3>1. \A c \in aSent[a] :
                CommandOf(a, c)' /\ (c.op = "login" /\ c.epoch < asess[a].epoch => Overtaken(aFence[a], c))
            BY Zenon, <1>0, <1>6 DEF AgentGuestInv, AgentCommandsOrdered
        <3>2. aBusy[a] # NoLogin => CommandOf(a, aBusy[a])'
            BY Zenon, <1>0, <1>1, <1>6 DEF AgentGuestInv, AgentCommandsOrdered, CommandOf
        <3>3. aBusy'[a] = aBusy[a] /\ aFence'[a] = aFence[a] /\ q.op # "login"
            BY Zenon, <1>1, <1>7
        <3> QED
            BY Zenon, <1>2, <1>3, <1>7, <3>1, <3>2, <3>3 DEF AgentCommandsOrdered, Overtaken
    <2>2. AgentFenceOrdered(a)'
        BY Zenon, <1>0, <1>1, <1>2 DEF AgentGuestInv, AgentFenceOrdered, AgentLoginLive, Engaged, LiveSession
    <2>3. StopReceiptsValid(a)'
        BY Zenon, <1>0, <1>1, <1>2, <1>6 DEF AgentGuestInv, StopReceiptsValid, StoppedBy
    <2> QED
        BY Zenon, <1>2, <2>1, <2>2, <2>3 DEF AgentGuestInv, NeverBoundIsEmpty
<1> QED
    BY Zenon, <1>1, <1>4, <1>5, <1>8, <1>t, RowStep, AuthorityFrame DEF SessionInv

\* A row is disabled on the receipt of its stop, or when it never had an account.
LEMMA DisableControl ==
    ASSUME AgentInv, AgentInv', ControlInv, NEW w \in Workers, NEW s \in sync[w].todo,
           CompleteAgentGuestSessionRevocation(w, s)
    PROVE  ControlInv'
<1>q. PICK a, q : a = s.agent /\ q = StopIntent(s)
    OBVIOUS
<1>t. a \in Agents /\ sync \in [Workers -> SyncState] /\ sync[w] \in SyncState
    BY Zenon, <1>q, TodoTypes DEF AgentInv, AgentTypeOK
<1>0. SessionFollowsLease(a) /\ AgentGuestInv(a) /\ asess \in [Agents -> AgentSession]
    BY Zenon, <1>t DEF ControlInv, SessionInv, AgentInv, AgentTypeOK
<1>1. /\ asess' = [asess EXCEPT ![a].st = "disabled"] /\ sync' = [sync EXCEPT ![w].todo = @ \ {s}]
      /\ asess[a].st = "revoking" /\ s = Row(a) /\ (q \in aSeen[a] \/ ~asess[a].uid)
      /\ UNCHANGED <<lease, epoch, crReq, crDone, crEpoch, auth, authSent>>
      /\ UNCHANGED guestRecords
    BY Zenon, <1>q DEF CompleteAgentGuestSessionRevocation, agentGuest, Current, Row, NeverExisted, guestRecords
<1>2. /\ asess'[a].st = "disabled" /\ asess'[a].login = asess[a].login /\ asess'[a].epoch = asess[a].epoch
      /\ asess'[a].lease = asess[a].lease /\ asess'[a].uid = asess[a].uid
      /\ \A b \in Agents : b # a => asess'[b] = asess[b]
    BY Zenon, <1>0, <1>1, <1>t DEF AgentSession
<1>3. /\ sync'[w].todo = sync[w].todo \ {s} /\ sync'[w].rev = sync[w].rev /\ sync'[w].pc = sync[w].pc
      /\ \A v \in Workers : v # w => sync'[v] = sync[v]
    BY Zenon, <1>1, <1>t DEF SyncState
<1>4. OthersKept(a) /\ RowAdvances(a)
    BY Zenon, <1>1, <1>2 DEF OthersKept, RowAdvances, guestRecords
<1>5. SessionFollowsLease(a)' /\ OneEngaged'
    <2>1. OneEngaged'
        BY Zenon, <1>1, <1>2 DEF ControlInv, OneEngaged, Engaged, LiveSession
    <2>2. SessionFollowsLease(a)'
        BY Zenon, <1>0, <1>1, <1>2 DEF SessionFollowsLease, LiveSession
    <2> QED
        BY Zenon, <2>1, <2>2
<1>6. \A c : CommandOf(a, c) => CommandOf(a, c)'
    BY Zenon, <1>1, <1>2 DEF CommandOf, StopIntent
<1>7. /\ q.op = "stop" /\ q.epoch = asess[a].epoch /\ StopIntent(asess'[a]) = q
      /\ AgentCompleted(q).phase = "revoked" /\ NoAgentFence.phase = "none"
    BY Zenon, <1>1, <1>2, <1>q, <1>t DEF StopIntent, Row, AgentCompleted, NoAgentFence
<1>8. ~AgentLoginLive(a) /\ (asess[a].uid => StoppedBy(a, q))
    <2>1. CASE q \in aSeen[a]
        <3>1. StoppedBy(a, q)
            BY Zenon, <1>0, <1>7, <2>1 DEF AgentGuestInv, StopReceiptsValid
        <3> QED
            BY Zenon, <1>7, <3>1 DEF StoppedBy, AgentLoginLive
    <2>2. CASE ~asess[a].uid
        BY Zenon, <1>0, <1>7, <2>2 DEF AgentGuestInv, NeverBoundIsEmpty, AgentLoginLive
    <2> QED
        BY Zenon, <1>1, <2>1, <2>2
<1>9. AgentGuestInv(a)'
    <2>1. aSent' = aSent /\ aBusy' = aBusy /\ aFence' = aFence /\ aOS' = aOS /\ aSeen' = aSeen
        BY Zenon, <1>1 DEF guestRecords
    <2>2. AgentCommandsOrdered(a)'
        <3>1. aBusy[a] # NoLogin => CommandOf(a, aBusy[a])'
            BY Zenon, <1>0, <2>1, <1>6 DEF AgentGuestInv, AgentCommandsOrdered, CommandOf
        <3> QED
            BY Zenon, <1>0, <1>2, <1>6, <2>1, <3>1 DEF AgentGuestInv, AgentCommandsOrdered, Overtaken
    <2>3. AgentFenceOrdered(a)'
        BY Zenon, <1>0, <1>2, <1>8, <2>1 DEF AgentGuestInv, AgentFenceOrdered, AgentLoginLive
    <2>4. StopReceiptsValid(a)'
        BY Zenon, <1>0, <1>2, <1>6, <1>7, <1>8, <2>1 DEF AgentGuestInv, StopReceiptsValid, StoppedBy
    <2> QED
        BY Zenon, <1>0, <1>2, <2>1, <2>2, <2>3, <2>4 DEF AgentGuestInv, NeverBoundIsEmpty
<1>10. ASSUME NEW v \in Workers PROVE SyncInv(v)'
    <2>1. \A r \in sync[v].todo : CommandOf(r.agent, StopIntent(r))'
        BY Zenon, <1>4, <1>t, TodoKept
    <2>2. \A b \in Agents : asess'[b].st = "revoking" =>
             asess[b].st = "revoking" /\ Row(b)' = Row(b) /\ Row(b) # s
        BY Zenon, <1>1, <1>2 DEF Row
    <2>3. CASE v # w
        BY Zenon, <1>1, <1>3, <2>1, <2>2, <2>3, SyncFrame DEF ControlInv
    <2>4. CASE v = w
        BY ZenonT(40), <1>1, <1>3, <2>1, <2>2, <2>4 DEF ControlInv, SyncInv, ComputerRevocationPending
    <2> QED
        BY Zenon, <2>3, <2>4
<1> QED
    BY Zenon, <1>1, <1>4, <1>5, <1>9, <1>10, <1>t, RowChange, AuthorityFrame DEF SessionInv

\* Acknowledging means that nothing is left to stop.
LEMMA AcknowledgeControl ==
    ASSUME AgentInv, AgentInv', ControlInv, NEW w \in Workers, CompleteComputerRevocation(w)
    PROVE  ControlInv'
<1>0. /\ sync \in [Workers -> SyncState] /\ sync[w] \in SyncState /\ crReq \in Nat /\ crDone \in Nat
      /\ SyncInv(w) /\ AuthorityInv /\ Epochs /\ sync[w].rev \in Nat
    BY Zenon, TodoTypes DEF AgentInv, AgentTypeOK, ControlInv
<1>1. /\ sync[w].pc = "stop" /\ sync[w].todo = {} /\ sync' = [sync EXCEPT ![w] = Idle]
      /\ crDone' = Acknowledge(sync[w].rev)
      /\ UNCHANGED <<lease, epoch, crReq, crEpoch, asess, auth, authSent>>
      /\ UNCHANGED guestRecords
    BY Zenon DEF CompleteComputerRevocation, agentGuest, guestRecords
<1>2. \/ crDone' = crDone
      \/ crDone' = crReq /\ sync[w].rev = crReq /\ ComputerRevocationPending
    BY Zenon, <1>1 DEF Acknowledge, ComputerRevocationPending
<1>3. CASE crDone' = crDone
    <2>1. sync'[w] = Idle /\ \A v \in Workers : v # w => sync'[v] = sync[v]
        BY Zenon, <1>0, <1>1
    <2>2. Idle.rev = 0 /\ Idle.todo = {} /\ Idle.pc = "idle" /\ 0 <= crReq
        BY <1>0 DEF Idle
    <2>3. SyncInv(w)'
        BY Zenon, <1>1, <2>1, <2>2, IdleWorker
    <2> QED
        BY Zenon, <1>1, <1>3, <2>1, <2>3, WorkerStep, AuthorityFrame
<1>4. CASE crDone' = crReq /\ sync[w].rev = crReq /\ ComputerRevocationPending
    <2>1. \A a \in Agents : asess[a].st # "revoking"
        BY Zenon, <1>0, <1>1, <1>4 DEF SyncInv
    <2>2. Epochs'
        BY <1>0, <1>1, <1>4 DEF Epochs, ActiveLeases
    <2>3. OneEngaged' /\ AuthorityInv'
        BY Zenon, <1>1, AuthorityFrame DEF ControlInv, OneEngaged, Engaged, LiveSession
    <2>4. ASSUME NEW a \in Agents PROVE SessionInv(a)'
        <3>1. SessionFollowsLease(a)'
            BY Zenon, <1>1, <2>1 DEF ControlInv, SessionInv, SessionFollowsLease, LiveSession
        <3>2. AgentGuestInv(a)'
            BY Zenon, <1>1, AgentGuestFrame DEF ControlInv, SessionInv, guestRecords
        <3> QED
            BY Zenon, <3>1, <3>2 DEF SessionInv
    <2>5. ASSUME NEW v \in Workers PROVE SyncInv(v)'
        <3>1. sync'[v] = sync[v] \/ sync'[v] = Idle
            BY Zenon, <1>0, <1>1
        <3>2. \A a \in Agents : asess'[a].st # "revoking"
            BY Zenon, <1>1, <2>1
        <3>3. Idle.rev = 0 /\ Idle.todo = {} /\ 0 <= crReq
            BY <1>0 DEF Idle
        <3> QED
            BY Zenon, <1>1, <3>1, <3>2, <3>3 DEF ControlInv, SyncInv, CommandOf
    <2> QED
        BY Zenon, <2>2, <2>3, <2>4, <2>5 DEF ControlInv
<1> QED
    BY Zenon, <1>2, <1>3, <1>4

------------------------------------------------------------------------------
(* The Guest.                                                              *)

\* A step of the Guest on one account.
LEMMA GuestStep ==
    ASSUME ControlInv, NEW a \in Agents, OthersKept(a), AgentGuestInv(a)',
           UNCHANGED <<lease, epoch, crReq, crDone, crEpoch, asess, sync, auth, authSent>>
    PROVE  ControlInv'
<1>1. OneEngaged'
    BY Zenon DEF ControlInv, OneEngaged, Engaged, LiveSession
<1>2. SessionFollowsLease(a)'
    BY Zenon DEF ControlInv, SessionInv, SessionFollowsLease, ComputerRevocationPending, LiveSession
<1>3. ASSUME NEW w \in Workers PROVE SyncInv(w)'
    BY Zenon DEF ControlInv, SyncInv, ComputerRevocationPending, CommandOf, Row
<1> QED
    BY Zenon, <1>1, <1>2, <1>3, RowChange, AuthorityFrame DEF SessionInv

\* A step on the account of a bound session keeps the invariant if its fence
\* goes forward, opens only for the session in the table, and what a current
\* stop left behind stays.
LEMMA FenceStep ==
    ASSUME AgentInv, ControlInv, NEW a \in Agents, asess' = asess, aSeen'[a] = aSeen[a], asess[a].uid,
           aSent'[a] \subseteq aSent[a], aBusy'[a] # NoLogin => CommandOf(a, aBusy'[a]),
           aFence'[a].epoch <= asess[a].epoch,
           AgentLoginLive(a)' =>
               Engaged(a) /\ aFence'[a].epoch = asess[a].epoch /\ aFence'[a].lease = asess[a].lease,
           \A c \in aSent[a] : Overtaken(aFence[a], c) => Overtaken(aFence'[a], c),
           \A c : c.op = "stop" /\ CommandOf(a, c) /\ c.epoch = asess[a].epoch /\ StoppedBy(a, c) =>
                     StoppedBy(a, c)'
    PROVE  AgentGuestInv(a)'
<1>0. AgentGuestInv(a)
    BY Zenon DEF ControlInv, SessionInv
<1>1. AgentCommandsOrdered(a)'
    BY Zenon, <1>0 DEF AgentGuestInv, AgentCommandsOrdered, CommandOf
<1>2. AgentFenceOrdered(a)'
    BY Zenon DEF AgentFenceOrdered, Engaged, LiveSession
<1>3. StopReceiptsValid(a)'
    <2>1. \A q \in aSeen[a] : q.op = "stop" =>
             CommandOf(a, q) /\ (q.epoch = asess[a].epoch => StoppedBy(a, q)')
        BY Zenon, <1>0 DEF AgentGuestInv, StopReceiptsValid
    <2>2. PICK c : c = StopIntent(asess[a])
        OBVIOUS
    <2>n. asess[a].epoch \in Nat
        BY Zenon, AgentTypes
    <2>3. asess[a].st = "disabled" => c.op = "stop" /\ CommandOf(a, c) /\ c.epoch = asess[a].epoch
        <3>1. asess[a].epoch <= asess[a].epoch
            BY Zenon, <2>n, SameVersion
        <3>2. c.op = "stop" /\ c.epoch = asess[a].epoch /\ c.lease = asess[a].lease
            BY Zenon, <2>2 DEF StopIntent
        <3> QED
            BY Zenon, <2>2, <3>1, <3>2 DEF CommandOf
    <2>4. asess[a].st = "disabled" => StoppedBy(a, c)'
        BY Zenon, <1>0, <2>2, <2>3 DEF AgentGuestInv, StopReceiptsValid
    <2>5. StopIntent(asess'[a]) = c
        BY Zenon, <2>2
    <2> QED
        BY Zenon, <2>1, <2>4, <2>5 DEF StopReceiptsValid, StoppedBy, CommandOf
<1> QED
    BY Zenon, <1>1, <1>2, <1>3 DEF AgentGuestInv, NeverBoundIsEmpty

\* The Guest starts a command: a login only if it is the newest of its session.
LEMMA AcceptControl ==
    ASSUME AgentInv, ControlInv, NEW a \in Agents, NEW q \in aSent[a], AcceptAgent(a, q)
    PROVE  ControlInv'
<1>0. /\ SessionFollowsLease(a) /\ AgentGuestInv(a) /\ aFence \in [Agents -> AgentFence]
      /\ aSent \in [Agents -> SUBSET LoginReq] /\ aBusy \in [Agents -> AgentRun]
    BY Zenon DEF ControlInv, SessionInv, AgentInv, AgentTypeOK
<1>n. /\ asess[a].epoch \in Nat /\ asess[a].login \in Nat
      /\ aFence[a].epoch \in Nat /\ aFence[a].login \in Nat
    BY Zenon, AgentTypes
<1>1. /\ aFence' = [aFence EXCEPT ![a] = AgentPending(q)] /\ aBusy' = [aBusy EXCEPT ![a] = q]
      /\ aSent' = [aSent EXCEPT ![a] = @ \ {q}] /\ AgentPlan(aFence[a], q, leaseExpired)
      /\ UNCHANGED <<lease, epoch, crReq, crDone, crEpoch, asess, sync, auth, authSent, aOS, aSeen>>
    BY Zenon DEF AcceptAgent, leaseDB, agentSeen
<1>2. /\ aFence'[a] = AgentPending(q) /\ aBusy'[a] = q /\ aSent'[a] \subseteq aSent[a]
      /\ \A b \in Agents : b # a =>
            aFence'[b] = aFence[b] /\ aBusy'[b] = aBusy[b] /\ aSent'[b] = aSent[b]
    BY Zenon, <1>0, <1>1
<1>3. OthersKept(a)
    BY Zenon, <1>1, <1>2 DEF OthersKept
<1>4. CommandOf(a, q) /\ (q.op = "login" /\ q.epoch < asess[a].epoch => Overtaken(aFence[a], q))
    BY Zenon, <1>0 DEF AgentGuestInv, AgentCommandsOrdered
<1>5. asess[a].uid /\ asess[a].st # "none"
    BY Zenon, <1>0, AgentTypes DEF AgentGuestInv, NeverBoundIsEmpty, SessionFollowsLease
<1>6. q.op \in AgentOps /\ q.epoch \in Nat /\ q.login \in Nat
    BY Zenon, AgentTypes
<1>7. /\ AgentPending(q).epoch = q.epoch /\ AgentPending(q).login = q.login
      /\ AgentPending(q).lease = q.lease
      /\ AgentPending(q).phase = IF q.op = "login" THEN "opening" ELSE "revoked"
    BY Zenon DEF AgentPending
<1>8. q.epoch <= asess[a].epoch
    BY Zenon, <1>4 DEF CommandOf
<1>9. AgentLoginLive(a)' =>
          Engaged(a) /\ aFence'[a].epoch = asess[a].epoch /\ aFence'[a].lease = asess[a].lease
    <2> SUFFICES ASSUME AgentLoginLive(a)'
                 PROVE  Engaged(a) /\ q.epoch = asess[a].epoch /\ q.lease = asess[a].lease
        BY Zenon, <1>2, <1>7
    <2>1. q.op = "login"
        BY Zenon, <1>2, <1>7 DEF AgentLoginLive
    <2>2. q.epoch = asess[a].epoch
        <3>1. ~Overtaken(aFence[a], q)
            BY Zenon, <1>0, <1>1, <2>1, LoginIsNewer
        <3>2. ~(q.epoch < asess[a].epoch)
            BY Zenon, <1>4, <2>1, <3>1
        <3> QED
            BY Zenon, <1>6, <1>8, <1>n, <3>2, Newest
    <2>3. q.lease = asess[a].lease
        BY Zenon, <1>4, <2>2 DEF CommandOf
    <2>4. asess[a].st # "disabled"
        <3> SUFFICES ASSUME asess[a].st = "disabled" PROVE FALSE
            OBVIOUS
        <3>1. aFence[a] = AgentCompleted(StopIntent(asess[a]))
            BY Zenon, <1>0, <1>5 DEF AgentGuestInv, StopReceiptsValid, StoppedBy
        <3>2. aFence[a].phase = "revoked" /\ aFence[a].epoch = asess[a].epoch
            BY Zenon, <1>n, <3>1, StopVersion
        <3> QED
            BY Zenon, <1>1, <2>1, <2>2, <3>2 DEF AgentPlan, LoginLive
    <2> QED
        BY Zenon, <1>5, <2>2, <2>3, <2>4, AgentTypes DEF Engaged, LiveSession
<1>10. \A c \in aSent[a] : Overtaken(aFence[a], c) => Overtaken(aFence'[a], c)
    BY Zenon, <1>0, <1>1, <1>2, OvertakenStays
<1>11. ASSUME NEW c, c.op = "stop", CommandOf(a, c), c.epoch = asess[a].epoch, StoppedBy(a, c)
       PROVE  StoppedBy(a, c)'
    <2>1. aFence[a].phase = "revoked" /\ aFence[a].epoch = asess[a].epoch
        BY <1>11 DEF StoppedBy, AgentCompleted
    <2>2. q.epoch = asess[a].epoch
        BY <1>1, <1>6, <1>8, <2>1, <1>n DEF AgentPlan
    <2>3. q.op = "stop"
        BY Zenon, <1>1, <1>6, <2>1, <2>2 DEF AgentPlan, LoginLive, AgentOps
    <2>4. q.login = c.login /\ q.lease = c.lease /\ q.epoch = c.epoch
        BY Zenon, <1>4, <1>11, <2>2, <2>3 DEF CommandOf
    <2>5. AgentPending(q) = AgentCompleted(c)
        BY Zenon, <1>11, <2>3, <2>4 DEF AgentPending, AgentCompleted
    <2> QED
        BY Zenon, <1>1, <1>2, <1>11, <2>5 DEF StoppedBy
<1>12. AgentGuestInv(a)'
    <2>1. aFence'[a].epoch <= asess[a].epoch /\ aSeen'[a] = aSeen[a] /\ CommandOf(a, aBusy'[a])
        BY Zenon, <1>1, <1>2, <1>4, <1>7, <1>8
    <2> QED
        BY Zenon, <1>1, <1>2, <1>5, <1>9, <1>10, <1>11, <2>1, FenceStep
<1> QED
    BY Zenon, <1>1, <1>3, <1>12, GuestStep

\* A login is registered at the open gate.
LEMMA RegisterControl ==
    ASSUME AgentInv, ControlInv, NEW a \in Agents, RegisterAgentLogin(a) \/ EndAgentDesktop(a)
    PROVE  ControlInv'
<1>0. AgentGuestInv(a) /\ aOS \in [Agents -> OSAccount] /\ aOS[a] \in OSAccount
    BY Zenon DEF ControlInv, SessionInv, AgentInv, AgentTypeOK
<1>1. /\ UNCHANGED <<lease, epoch, crReq, crDone, crEpoch, asess, sync, auth, authSent>>
      /\ UNCHANGED <<aFence, aBusy, aSent, aSeen>>
    BY Zenon DEF RegisterAgentLogin, EndAgentDesktop, leaseDB, agentSeen
<1>2. \A b \in Agents : b # a => aOS'[b] = aOS[b]
    BY Zenon, <1>0 DEF RegisterAgentLogin, EndAgentDesktop
<1>3. OthersKept(a)
    BY Zenon, <1>1, <1>2 DEF OthersKept
<1>4. aFence[a].phase = "opening" \/ aOS[a] # ClosedOS
    BY DEF RegisterAgentLogin, EndAgentDesktop, ClosedOS
<1>5. asess[a].uid
    <2>1. NoAgentFence.phase = "none" /\ "none" # "opening"
        BY Zenon DEF NoAgentFence
    <2> QED
        BY Zenon, <1>0, <1>4, <2>1, AgentTypes DEF AgentGuestInv, NeverBoundIsEmpty
<1>6. ASSUME NEW c, c.op = "stop", StoppedBy(a, c) PROVE FALSE
    BY <1>4, <1>6 DEF StoppedBy, AgentCompleted
<1>7. AgentGuestInv(a)'
    <2>1. /\ aSent'[a] \subseteq aSent[a] /\ aSeen'[a] = aSeen[a]
          /\ aBusy'[a] # NoLogin => CommandOf(a, aBusy'[a])
          /\ aFence'[a] = aFence[a] /\ aFence[a].epoch <= asess[a].epoch
          /\ AgentLoginLive(a)' =>
                Engaged(a) /\ aFence'[a].epoch = asess[a].epoch /\ aFence'[a].lease = asess[a].lease
        BY Zenon, <1>0, <1>1 DEF AgentGuestInv, AgentCommandsOrdered, AgentFenceOrdered, AgentLoginLive
    <2> QED
        BY Zenon, <1>1, <1>5, <1>6, <2>1, FenceStep
<1> QED
    BY Zenon, <1>1, <1>3, <1>7, GuestStep

\* The command in the gate ends, or the account is reconciled: the fence keeps
\* its version and does not open.
LEMMA SettleControl ==
    ASSUME AgentInv, ControlInv, NEW a \in Agents, NEW f, NEW os,
           aFence' = [aFence EXCEPT ![a] = f], aOS' = [aOS EXCEPT ![a] = os],
           aBusy' = aBusy \/ aBusy' = [aBusy EXCEPT ![a] = NoLogin],
           UNCHANGED <<lease, epoch, crReq, crDone, crEpoch, asess, sync, auth, authSent, aSent, aSeen>>,
           f.epoch = aFence[a].epoch, f.login = aFence[a].login, f.lease = aFence[a].lease,
           f.phase \in {"opening", "sealed"} => AgentLoginLive(a), aFence[a] # NoAgentFence,
           \A c : c.op = "stop" /\ StoppedBy(a, c) => f = aFence[a] /\ os = ClosedOS
    PROVE  ControlInv'
<1>0. /\ AgentGuestInv(a) /\ aFence \in [Agents -> AgentFence] /\ aOS \in [Agents -> OSAccount]
      /\ aBusy \in [Agents -> AgentRun]
    BY Zenon DEF ControlInv, SessionInv, AgentInv, AgentTypeOK
<1>1. /\ aFence'[a] = f /\ aOS'[a] = os /\ (aBusy'[a] = aBusy[a] \/ aBusy'[a] = NoLogin)
      /\ \A b \in Agents : b # a => aFence'[b] = aFence[b] /\ aOS'[b] = aOS[b] /\ aBusy'[b] = aBusy[b]
    BY Zenon, <1>0
<1>2. OthersKept(a)
    BY Zenon, <1>1 DEF OthersKept
<1>3. asess[a].uid
    BY Zenon, <1>0, AgentTypes DEF AgentGuestInv, NeverBoundIsEmpty
<1>4. /\ aBusy'[a] # NoLogin => CommandOf(a, aBusy'[a])
      /\ f.epoch <= asess[a].epoch
      /\ AgentLoginLive(a)' => Engaged(a) /\ f.epoch = asess[a].epoch /\ f.lease = asess[a].lease
    <2>1. AgentLoginLive(a)' => AgentLoginLive(a)
        BY Zenon, <1>1 DEF AgentLoginLive
    <2> QED
        BY Zenon, <1>0, <1>1, <2>1 DEF AgentGuestInv, AgentCommandsOrdered, AgentFenceOrdered
<1>5. \A c \in aSent[a] : Overtaken(aFence[a], c) => Overtaken(aFence'[a], c)
    BY Zenon, <1>1 DEF Overtaken
<1>6. \A c : c.op = "stop" /\ StoppedBy(a, c) => StoppedBy(a, c)'
    BY Zenon, <1>1 DEF StoppedBy
<1>7. AgentGuestInv(a)'
    BY Zenon, <1>1, <1>3, <1>4, <1>5, <1>6, FenceStep
<1> QED
    BY Zenon, <1>2, <1>7, GuestStep

LEMMA FinishControl ==
    ASSUME AgentInv, ControlInv, NEW a \in Agents,
           FinishAgent(a) \/ InterruptAgent(a) \/ ReconcileAgent(a)
    PROVE  ControlInv'
<1>0. /\ aFence[a] \in AgentFence /\ aOS[a] \in OSAccount /\ aFence[a].phase \in AgentPhases
      /\ aOS \in [Agents -> OSAccount] /\ aFence \in [Agents -> AgentFence]
    BY Zenon, AgentTypes DEF AgentInv, AgentTypeOK
<1>1. UNCHANGED <<lease, epoch, crReq, crDone, crEpoch, asess, sync, auth, authSent, aSent, aSeen>>
    BY Zenon DEF FinishAgent, InterruptAgent, ReconcileAgent, leaseDB, agentSeen
<1>2. ASSUME NEW c, c.op = "stop", StoppedBy(a, c)
      PROVE  aFence[a].phase = "revoked" /\ aOS[a] = ClosedOS
    BY <1>2 DEF StoppedBy, AgentCompleted
<1>3. /\ Revoked(aFence[a]).epoch = aFence[a].epoch /\ Revoked(aFence[a]).login = aFence[a].login
      /\ Revoked(aFence[a]).lease = aFence[a].lease /\ Revoked(aFence[a]).phase = "revoked"
      /\ aFence[a].phase = "revoked" => Revoked(aFence[a]) = aFence[a]
    BY Zenon, <1>0 DEF Revoked, AgentFence
<1>4. aOS[a] = ClosedOS => [aOS[a] EXCEPT !.open = FALSE] = ClosedOS
    <2>1. aOS[a].open = FALSE => [aOS[a] EXCEPT !.open = FALSE] = aOS[a]
        BY Zenon, <1>0 DEF OSAccount
    <2>2. ClosedOS.open = FALSE
        BY Zenon DEF ClosedOS
    <2> QED
        BY Zenon, <2>1, <2>2
<1>5. ASSUME NEW q, q = aBusy[a], q # NoLogin
      PROVE  /\ AgentCompleted(q).epoch = aFence[a].epoch /\ AgentCompleted(q).login = aFence[a].login
             /\ AgentCompleted(q).lease = aFence[a].lease /\ aFence[a] # NoAgentFence
             /\ q.op = "login" => AgentLoginLive(a)
             /\ q.op # "login" => AgentCompleted(q) = aFence[a] /\ ~AgentLoginLive(a)
    <2>1. aFence[a] = AgentPending(q)
        BY Zenon, <1>5, AgentTypes
    <2> QED
        BY <2>1 DEF AgentPending, AgentCompleted, AgentLoginLive, NoAgentFence
<1>6. CASE FinishAgent(a)
    <2>1. PICK q : q = aBusy[a]
        OBVIOUS
    <2>2. /\ q # NoLogin /\ aFence' = [aFence EXCEPT ![a] = AgentCompleted(q)]
          /\ aOS' = (IF q.op = "login" THEN aOS ELSE [aOS EXCEPT ![a] = ClosedOS])
          /\ aBusy' = [aBusy EXCEPT ![a] = NoLogin]
        BY Zenon, <1>6, <2>1 DEF FinishAgent
    <2>3. CASE q.op = "login"
        <3>1. aOS' = [aOS EXCEPT ![a] = aOS[a]] /\ AgentLoginLive(a)
            BY Zenon, <1>0, <1>5, <2>1, <2>2, <2>3
        <3>2. \A c : ~(c.op = "stop" /\ StoppedBy(a, c))
            BY Zenon, <1>2, <3>1 DEF AgentLoginLive
        <3> QED
            BY Zenon, <1>1, <1>5, <2>1, <2>2, <3>1, <3>2, SettleControl
    <2>4. CASE q.op # "login"
        <3>1. aOS' = [aOS EXCEPT ![a] = ClosedOS]
            BY Zenon, <2>2, <2>4
        <3>2. /\ AgentCompleted(q) = aFence[a]
              /\ AgentCompleted(q).phase \in {"opening", "sealed"} => AgentLoginLive(a)
            BY Zenon, <1>5, <2>1, <2>2, <2>4 DEF AgentLoginLive
        <3> QED
            BY Zenon, <1>1, <1>5, <2>1, <2>2, <3>1, <3>2, SettleControl
    <2> QED
        BY Zenon, <2>3, <2>4
<1>7. CASE InterruptAgent(a)
    <2>1. PICK q : q = aBusy[a]
        OBVIOUS
    <2>2. PICK os \in {aOS[a], [aOS[a] EXCEPT !.open = FALSE], ClosedOS} \cup
                       (IF q.op = "login" THEN {[open |-> TRUE, desk |-> FALSE]} ELSE {}) :
             aOS' = [aOS EXCEPT ![a] = os]
        BY Zenon, <1>7, <2>1 DEF InterruptAgent
    <2>3. PICK f \in {aFence[a], Revoked(aFence[a])} : aFence' = [aFence EXCEPT ![a] = f]
        BY Zenon, <1>7 DEF InterruptAgent
    <2>4. aBusy' = [aBusy EXCEPT ![a] = NoLogin] /\ q # NoLogin
        BY Zenon, <1>7, <2>1 DEF InterruptAgent
    <2>5. /\ f.epoch = aFence[a].epoch /\ f.login = aFence[a].login /\ f.lease = aFence[a].lease
          /\ f.phase \in {"opening", "sealed"} => AgentLoginLive(a)
        BY Zenon, <1>3, <2>3 DEF AgentLoginLive
    <2>6. ASSUME NEW c, c.op = "stop", StoppedBy(a, c) PROVE f = aFence[a] /\ os = ClosedOS
        <3>1. q.op # "login"
            BY Zenon, <1>2, <1>5, <2>1, <2>4, <2>6 DEF AgentLoginLive
        <3>2. os \in {aOS[a], [aOS[a] EXCEPT !.open = FALSE], ClosedOS}
            BY Zenon, <2>2, <3>1
        <3> QED
            BY Zenon, <1>2, <1>3, <1>4, <2>3, <2>6, <3>2
    <2> QED
        BY Zenon, <1>1, <1>5, <2>1, <2>2, <2>3, <2>4, <2>5, <2>6, SettleControl
<1>8. CASE ReconcileAgent(a)
    <2>1. PICK os \in {aOS[a], [aOS[a] EXCEPT !.open = FALSE], ClosedOS} : aOS' = [aOS EXCEPT ![a] = os]
        BY Zenon, <1>8 DEF ReconcileAgent
    <2>2. /\ aFence' = [aFence EXCEPT ![a] = Revoked(aFence[a])] /\ aBusy' = aBusy
          /\ aFence[a] # NoAgentFence
        BY Zenon, <1>8 DEF ReconcileAgent
    <2>3. Revoked(aFence[a]).phase \notin {"opening", "sealed"}
        BY Zenon, <1>3
    <2>4. ASSUME NEW c, c.op = "stop", StoppedBy(a, c) PROVE Revoked(aFence[a]) = aFence[a] /\ os = ClosedOS
        BY Zenon, <1>2, <1>3, <1>4, <2>1, <2>4
    <2> QED
        BY Zenon, <1>1, <1>3, <2>1, <2>2, <2>3, <2>4, SettleControl
<1> QED
    BY Zenon, <1>6, <1>7, <1>8

\* The receipt a worker waits for, with the inspection after it.
LEMMA ConfirmControl ==
    ASSUME AgentInv, ControlInv, NEW a \in Agents, NEW q \in Awaited(a), ConfirmAgentCommand(a, q)
    PROVE  ControlInv'
<1>0. AgentGuestInv(a) /\ aSeen \in [Agents -> SUBSET LoginReq]
    BY Zenon DEF ControlInv, SessionInv, AgentInv, AgentTypeOK
<1>1. /\ aSeen' = [aSeen EXCEPT ![a] = @ \cup {q}] /\ aFence[a] = AgentCompleted(q)
      /\ IF q.op = "login" THEN aOS[a].open ELSE aOS[a] = ClosedOS
      /\ UNCHANGED <<lease, epoch, crReq, crDone, crEpoch, asess, sync, auth, authSent>>
      /\ UNCHANGED <<aSent, aFence, aOS, aBusy>>
    BY Zenon DEF ConfirmAgentCommand, leaseDB, agentGuest
<1>2. aSeen'[a] = aSeen[a] \cup {q} /\ \A b \in Agents : b # a => aSeen'[b] = aSeen[b]
    BY Zenon, <1>0, <1>1
<1>3. OthersKept(a)
    BY Zenon, <1>1, <1>2 DEF OthersKept
<1>4. asess[a].uid
    <2>1. AgentCompleted(q) # NoAgentFence
        BY Zenon DEF AgentCompleted, NoAgentFence
    <2> QED
        BY Zenon, <1>0, <1>1, <2>1, AgentTypes DEF AgentGuestInv, NeverBoundIsEmpty
<1>5. q.op = "stop" => CommandOf(a, q) /\ StoppedBy(a, q)
    <2>1. q = LoginIntent(asess[a]) \/ \E w \in Workers : \E s \in sync[w].todo : s.agent = a /\ q = StopIntent(s)
        BY Zenon DEF Awaited
    <2>2. LoginIntent(asess[a]).op = "login"
        BY Zenon DEF LoginIntent
    <2>3. q.op = "stop" => CommandOf(a, q)
        <3> SUFFICES ASSUME q.op = "stop" PROVE CommandOf(a, q)
            OBVIOUS
        <3>1. q # LoginIntent(asess[a])
            BY Zenon, <2>2
        <3> QED
            BY Zenon, <2>1, <3>1 DEF ControlInv, SyncInv
    <2>4. q.op = "stop" => aOS[a] = ClosedOS
        BY Zenon, <1>1
    <2> QED
        BY Zenon, <1>1, <2>3, <2>4 DEF StoppedBy
<1>6. AgentGuestInv(a)'
    <2>1. AgentCommandsOrdered(a)'
        BY Zenon, <1>0, <1>1 DEF AgentGuestInv, AgentCommandsOrdered, CommandOf
    <2>2. AgentFenceOrdered(a)'
        BY Zenon, <1>0, <1>1 DEF AgentGuestInv, AgentFenceOrdered, AgentLoginLive, Engaged, LiveSession
    <2>3. StopReceiptsValid(a)'
        BY Zenon, <1>0, <1>1, <1>2, <1>5 DEF AgentGuestInv, StopReceiptsValid, StoppedBy, CommandOf
    <2> QED
        BY Zenon, <1>1, <1>4, <2>1, <2>2, <2>3 DEF AgentGuestInv, NeverBoundIsEmpty
<1> QED
    BY Zenon, <1>1, <1>3, <1>6, GuestStep

\* Authority is published as it was sent.
LEMMA PublishControl ==
    ASSUME AgentInv, AgentInv', ControlInv, NEW q \in authSent, PublishAuthority(q)
    PROVE  ControlInv'
<1>1. /\ authSent' = authSent \ {q} /\ auth'.st = q.st /\ auth'.lease = q.lease /\ auth'.epoch = q.epoch
      /\ UNCHANGED <<lease, epoch, crReq, crDone, crEpoch, asess, sync>>
      /\ UNCHANGED guestRecords
    BY Zenon DEF PublishAuthority, leaseDB, guestRecords
<1>2. q.st = "active" => q.lease \in Leases
    <2>1. q \in AuthReq
        BY Zenon DEF AgentInv, AgentTypeOK
    <2> QED
        BY Zenon, <2>1 DEF AuthReq
<1>3. AuthorityInv'
    <2>1. q.st = "active" => OfLease(q)
        BY Zenon DEF ControlInv, AuthorityInv
    <2> QED
        BY Zenon, <1>1, <1>2, <2>1 DEF ControlInv, AuthorityInv, OfLease
<1>4. Epochs' /\ OneEngaged'
    BY Zenon, <1>1 DEF ControlInv, Epochs, ActiveLeases, OneEngaged, Engaged, LiveSession
<1>5. ASSUME NEW a \in Agents PROVE SessionInv(a)'
    <2>1. SessionFollowsLease(a)'
        BY Zenon, <1>1 DEF ControlInv, SessionInv, SessionFollowsLease, ComputerRevocationPending, LiveSession
    <2>2. AgentGuestInv(a)'
        BY Zenon, <1>1, AgentGuestFrame DEF ControlInv, SessionInv, guestRecords
    <2> QED
        BY Zenon, <2>1, <2>2 DEF SessionInv
<1>6. ASSUME NEW w \in Workers PROVE SyncInv(w)'
    BY Zenon, <1>1 DEF ControlInv, SyncInv, ComputerRevocationPending, CommandOf, Row
<1> QED
    BY Zenon, <1>3, <1>4, <1>5, <1>6 DEF ControlInv

------------------------------------------------------------------------------
(* The invariant.                                                          *)

LEMMA LeaseControl ==
    ASSUME AgentInv, AgentInv', ControlInv, LeaseStore
    PROVE  ControlInv'
<1>1. ASSUME NEW S \in SUBSET ActiveLeases, CloseLeases(S),
             UNCHANGED <<people, allowed, leaseExpired, agentGuest, agentSeen>>
      PROVE  ControlInv'
    <2>1. UNCHANGED guestRecords /\ UNCHANGED <<sync, auth, authSent>>
        BY Zenon, <1>1 DEF agentGuest, agentSeen, guestRecords
    <2> QED
        BY Zenon, <1>1, <2>1, CloseControl
<1>2. ASSUME NEW l \in Leases, LeaseDeadline(l) PROVE ControlInv'
    BY Zenon, <1>2, ControlFrame DEF LeaseDeadline, leaseDB, agentGuest, agentSeen, guestRecords
<1>3. ASSUME NEW l \in Leases, ReleaseDesktopLease(l) PROVE ControlInv'
    <2>1. {l} \in SUBSET ActiveLeases
        BY Zenon, <1>3 DEF ReleaseDesktopLease, ActiveLeases
    <2> QED
        BY Zenon, <1>1, <1>3, <2>1 DEF ReleaseDesktopLease
<1>4. CASE RevokeDesktopLeases
    BY Zenon, <1>1, <1>4 DEF RevokeDesktopLeases
<1>5. CASE QueueExpiredComputerLeases
    BY Zenon, <1>1, <1>5 DEF QueueExpiredComputerLeases
<1> QED
    BY Zenon, <1>2, <1>3, <1>4, <1>5, CreateControl, BeginSessionControl DEF LeaseStore

LEMMA ControlInvStep == AgentInv /\ AgentInv' /\ ControlInv /\ [Next]_vars => ControlInv'
<1> SUFFICES ASSUME AgentInv, AgentInv', ControlInv, [Next]_vars PROVE ControlInv'
    OBVIOUS
<1>1. CASE UNCHANGED machines
    BY Zenon, <1>1, ControlFrame DEF machines, leaseDB, agentGuest, agentSeen, guestRecords
<1>2. CASE UNCHANGED vars
    BY Zenon, <1>1, <1>2 DEF vars
<1>3. CASE NativeNext
    BY Zenon, <1>1, <1>3, NativeStepsSpareAgents
<1>4. ASSUME NEW a \in Agents, SessionStore(a) PROVE ControlInv'
    <2>1. CASE QueueAgentGuestSessionRevocation(a)
        <3>1. {asess[a].lease} \in SUBSET ActiveLeases
            BY Zenon, <2>1 DEF QueueAgentGuestSessionRevocation, ActiveLeases, LiveSession, AgentInv, AgentShape
        <3>2. /\ CloseLeases({asess[a].lease}) /\ UNCHANGED guestRecords
              /\ UNCHANGED <<sync, auth, authSent>>
            BY Zenon, <2>1 DEF QueueAgentGuestSessionRevocation, agentGuest, agentSeen, guestRecords
        <3> QED
            BY Zenon, <3>1, <3>2, CloseControl
    <2> QED
        BY Zenon, <1>4, <2>1, SessionControl DEF SessionStore
<1>5. ASSUME NEW a \in Agents, AgentGuest(a) PROVE ControlInv'
    <2>1. CASE ProvisionAgentAccount(a)
        BY Zenon, <2>1, ControlFrame DEF ProvisionAgentAccount, leaseDB, agentSeen, guestRecords
    <2> QED
        BY Zenon, <1>5, <2>1, AcceptControl, RegisterControl, FinishControl, ConfirmControl DEF AgentGuest
<1>6. ASSUME NEW w \in Workers, Synchronize(w) PROVE ControlInv'
    BY Zenon, <1>6, ReadControl, StopControl, DisableControl, AcknowledgeControl DEF Synchronize
<1>7. ASSUME NEW A \in SUBSET Users, NEW M \in SUBSET Agents, CommitAccessChange(A, M)
      PROVE  ControlInv'
    <2>1. PICK L : L = {l \in ActiveLeases : lease[l].agent \notin M}
        BY Zenon
    <2>2. L \in SUBSET ActiveLeases /\ CloseLeases(L) /\ UNCHANGED guestRecords
        BY Zenon, <1>7, <2>1 DEF CommitAccessChange, agentGuest, agentSeen, guestRecords
    <2>3. UNCHANGED <<sync, auth, authSent>>
        BY Zenon, <1>7 DEF CommitAccessChange, agentGuest, agentSeen
    <2> QED
        BY Zenon, <2>2, <2>3, CloseControl
<1> QED
    BY Zenon, <1>2, <1>3, <1>4, <1>5, <1>6, <1>7, LeaseControl, PublishControl DEF Next, AgentNext, AccessNext

LEMMA ControlInvInit == Init => ControlInv
<1> SUFFICES ASSUME AgentInit PROVE ControlInv
    BY Zenon DEF Init
<1>1. /\ \A l \in Leases : lease[l].st = "none"
      /\ epoch = 0 /\ crReq = 0 /\ crDone = 0 /\ crEpoch = 0 /\ auth.st = "none" /\ authSent = {}
    BY Zenon DEF AgentInit, NoAuthority
<1>2. /\ \A w \in Workers : sync[w].rev = 0 /\ sync[w].todo = {} /\ sync[w].pc = "idle"
    BY Zenon DEF AgentInit, Idle
<1>3. ASSUME NEW a \in Agents
      PROVE  /\ asess[a].st = "none" /\ asess[a].epoch = 0 /\ ~asess[a].uid
             /\ aSent[a] = {} /\ aSeen[a] = {} /\ aFence[a] = NoAgentFence /\ aBusy[a] = NoLogin
             /\ aOS[a] = ClosedOS /\ aFence[a].phase = "none" /\ aFence[a].epoch = 0
    BY Zenon DEF AgentInit, NoAgentFence
<1>4. Epochs /\ OneEngaged /\ AuthorityInv
    BY <1>1, <1>3 DEF Epochs, ActiveLeases, OneEngaged, Engaged, LiveSession, AuthorityInv
<1>5. ASSUME NEW a \in Agents PROVE SessionInv(a)
    <2>1. SessionFollowsLease(a)
        BY <1>1, <1>3 DEF SessionFollowsLease, LiveSession
    <2>2. AgentCommandsOrdered(a) /\ StopReceiptsValid(a) /\ NeverBoundIsEmpty(a)
        BY Zenon, <1>3 DEF AgentCommandsOrdered, StopReceiptsValid, NeverBoundIsEmpty
    <2>3. AgentFenceOrdered(a)
        BY <1>3 DEF AgentFenceOrdered, AgentLoginLive
    <2> QED
        BY Zenon, <2>1, <2>2, <2>3 DEF SessionInv, AgentGuestInv
<1>6. ASSUME NEW w \in Workers PROVE SyncInv(w)
    BY <1>1, <1>2 DEF SyncInv
<1> QED
    BY Zenon, <1>4, <1>5, <1>6 DEF ControlInv

\* Control epochs and login generations order everything the control plane and
\* the Guest do for Agents, in every reachable state.
THEOREM ControlInvariant == Spec => [](AgentInv /\ ControlInv)
<1>1. Init => AgentInv /\ ControlInv
    BY Zenon, AgentInvInit, ControlInvInit
<1>2. AgentInv /\ ControlInv /\ [Next]_vars => AgentInv' /\ ControlInv'
    BY Zenon, AgentInvStep, ControlInvStep
<1> QED
    BY <1>1, <1>2, PTL DEF Spec

------------------------------------------------------------------------------
(* People and Agents.                                                      *)

\* A session that is not engaged is not revoked either.
LEMMA NothingToRevoke ==
    ASSUME AgentInv, NEW S, CloseLeases(S), \A a \in Agents : ~Engaged(a)
    PROVE  /\ \A a \in Agents : ~Engaged(a)'
           /\ ActiveLeases' \subseteq ActiveLeases
<1>1. \A a \in Agents : asess'[a] = asess[a]
    BY Zenon DEF CloseLeases, SessionsRevoking, Engaged
<1>2. \A l \in Leases : lease'[l].st = "closed" \/ lease'[l] = lease[l]
    BY Zenon DEF CloseLeases, LeasesClosed
<1>3. ActiveLeases' \subseteq ActiveLeases
    BY Zenon, <1>2 DEF ActiveLeases
<1> QED
    BY Zenon, <1>1, <1>3 DEF Engaged, LiveSession

\* While somebody holds a reservation and every lease has run out, no Agent
\* gets a lease or a session.
LEMMA AgentsStayOut ==
    ASSUME AgentInv, Next, NEW u \in Users, Reserved(u),
           ActiveLeases \subseteq leaseExpired, \A a \in Agents : ~Engaged(a)
    PROVE  ActiveLeases' \subseteq leaseExpired' /\ \A a \in Agents : ~Engaged(a)'
<1>0. asess \in [Agents -> AgentSession] /\ leaseExpired \subseteq Leases
    BY Zenon DEF AgentInv, AgentTypeOK
<1>1. ASSUME lease' = lease, leaseExpired \subseteq leaseExpired', asess' = asess
      PROVE  ActiveLeases' \subseteq leaseExpired' /\ \A a \in Agents : ~Engaged(a)'
    BY Zenon, <1>1 DEF ActiveLeases, Engaged, LiveSession
<1>2. ASSUME NEW S, CloseLeases(S), UNCHANGED leaseExpired
      PROVE  ActiveLeases' \subseteq leaseExpired' /\ \A a \in Agents : ~Engaged(a)'
    BY Zenon, <1>2, NothingToRevoke
<1>3. CASE NativeNext
    BY Zenon, <1>1, <1>3, NativeStepsSpareAgents DEF machines, leaseDB
<1>4. CASE LeaseStore
    <2>1. ASSUME NEW a \in Agents, NEW l \in Leases PROVE ~CreateDesktopLease(a, l)
        BY Zenon DEF CreateDesktopLease, NoNativeReservation
    <2>2. ASSUME NEW a \in Agents, NEW l \in Leases PROVE ~BeginAgentGuestSession(a, l)
        BY Zenon DEF BeginAgentGuestSession, Holds, ActiveLeases
    <2>3. ASSUME NEW l \in Leases, LeaseDeadline(l)
          PROVE  lease' = lease /\ leaseExpired \subseteq leaseExpired' /\ asess' = asess
        BY Zenon, <2>3 DEF LeaseDeadline, leaseDB
    <2>4. ASSUME NEW l \in Leases, ReleaseDesktopLease(l) PROVE CloseLeases({l}) /\ UNCHANGED leaseExpired
        BY Zenon, <2>4 DEF ReleaseDesktopLease
    <2> QED
        BY Zenon, <1>1, <1>2, <1>4, <2>1, <2>2, <2>3, <2>4
           DEF LeaseStore, RevokeDesktopLeases, QueueExpiredComputerLeases
<1>5. ASSUME NEW a \in Agents PROVE ~SessionStore(a)
    BY Zenon DEF SessionStore, QueueAgentGuestSessionRevocation, BindAgentGuestAccount, BeginAgentGuestLogin,
       MarkAgentGuestSessionReady, Engaged
<1>6. ASSUME NEW a \in Agents, AgentGuest(a) PROVE lease' = lease /\ leaseExpired' = leaseExpired /\ asess' = asess
    BY Zenon, <1>6 DEF AgentGuest, ProvisionAgentAccount, AcceptAgent, RegisterAgentLogin, FinishAgent,
       InterruptAgent, ReconcileAgent, EndAgentDesktop, ConfirmAgentCommand, leaseDB
<1>7. ASSUME NEW w \in Workers, Synchronize(w) PROVE lease' = lease /\ leaseExpired' = leaseExpired /\ asess' = asess
    <2>1. ASSUME NEW s \in sync[w].todo, Current(s) PROVE FALSE
        BY Zenon, <2>1, TodoTypes DEF Current, Engaged
    <2> QED
        BY Zenon, <1>7, <2>1 DEF Synchronize, ReadRevocationQueue, FenceAuthority, AuthorityFenced, StopAgentSession,
           CompleteAgentGuestSessionRevocation, CompleteComputerRevocation, SyncFails, AbandonSync, leaseDB
<1>8. ASSUME NEW q \in authSent, PublishAuthority(q)
      PROVE  lease' = lease /\ leaseExpired' = leaseExpired /\ asess' = asess
    BY Zenon, <1>8 DEF PublishAuthority, leaseDB
<1>9. CASE AccessNext
    BY Zenon, <1>2, <1>9 DEF AccessNext, CommitAccessChange
<1> QED
    BY Zenon, <1>1, <1>3, <1>4, <1>5, <1>6, <1>7, <1>8, <1>9 DEF Next, AgentNext

LEMMA PersonExcludesAgentsStep ==
    ASSUME NativeInv, AgentInv, PersonExcludesAgents, [Next]_vars
    PROVE  PersonExcludesAgents'
<1>0. NativeTypeOK /\ Persons
    BY Zenon DEF NativeInv, Persons
<1>1. CASE UNCHANGED vars
    BY Zenon, <1>1 DEF vars, people, machines, nativeDB, nativeGuest, leaseDB, PersonExcludesAgents, CanHeat,
       CredentialLive, ActiveLeases, Engaged, LiveSession
<1>2. ASSUME Next, NEW u \in Users, CanHeat(u)'
      PROVE  ActiveLeases' \subseteq leaseExpired' /\ \A a \in Agents : ~Engaged(a)'
    <2>1. CASE CanHeat(u)
        <3>1. Reserved(u) /\ ActiveLeases \subseteq leaseExpired /\ \A a \in Agents : ~Engaged(a)
            BY Zenon, <1>0, <2>1, HeatIsReserved DEF Persons, PersonExcludesAgents
        <3> QED
            BY Zenon, <1>2, <3>1, AgentsStayOut
    <2>2. ASSUME NEW c \in Conns, BeginNativeGuestCredential(u, c)
          PROVE  ActiveLeases' \subseteq leaseExpired' /\ \A a \in Agents : ~Engaged(a)'
        <3>1. /\ ActiveLeases \subseteq leaseExpired /\ \A a \in Agents : ~Engaged(a)
              /\ UNCHANGED <<lease, leaseExpired, asess>>
            BY Zenon, <2>2 DEF BeginNativeGuestCredential, Engaged, machines, leaseDB
        <3> QED
            BY Zenon, <3>1 DEF ActiveLeases, Engaged, LiveSession
    <2> QED
        BY Zenon, <1>0, <1>2, <2>1, <2>2, HeatOrigin
<1> QED
    BY Zenon, <1>1, <1>2 DEF PersonExcludesAgents

------------------------------------------------------------------------------
(* What follows from the invariants.                                       *)

\* A login that is open belongs to a session that has not ended.
LEMMA OpenLoginIsEngaged ==
    ASSUME ControlInv, NEW a \in Agents, AgentLoginLive(a)
    PROVE  Engaged(a) /\ aFence[a].lease = asess[a].lease
    BY Zenon DEF ControlInv, SessionInv, AgentGuestInv, AgentFenceOrdered

LEMMA MayActIsOpen ==
    ASSUME NEW a \in Agents, MayAct(a)
    PROVE  AgentLoginLive(a) /\ aFence[a].lease = auth.lease
    BY Zenon DEF MayAct, MatchesAuthority, LoginLive, AgentLoginLive

\* At most one Agent has a login on the desktop: a command for a superseded
\* session that the Guest runs late is refused by the fence of that account.
THEOREM OneAgentLoginAlways == Spec => []OneAgentLogin
<1>1. ControlInv => OneAgentLogin
    BY Zenon, OpenLoginIsEngaged DEF OneAgentLogin, ControlInv, OneEngaged
<1> QED
    BY <1>1, ControlInvariant, PTL

\* A lease that was closed may still be obeyed by the Guest only while its
\* revocation is pending: the acknowledgement comes after the fence.
THEOREM ClosedLeaseIsFencedAlways == Spec => []ClosedLeaseIsFenced
<1>1. ControlInv => ClosedLeaseIsFenced
    <2> SUFFICES ASSUME ControlInv, NEW a \in Agents, MayAct(a), lease[auth.lease].st # "active"
                 PROVE  ComputerRevocationPending
        BY Zenon DEF ClosedLeaseIsFenced
    <2>1. Engaged(a) /\ lease[asess[a].lease].st # "active"
        BY Zenon, MayActIsOpen, OpenLoginIsEngaged
    <2> QED
        BY Zenon, <2>1 DEF ControlInv, SessionInv, SessionFollowsLease, Engaged
<1> QED
    BY <1>1, ControlInvariant, PTL

\* A session the control plane has marked disabled is closed in the Guest, and
\* no login still on its way to the Guest will be accepted there.
THEOREM DisabledSessionIsStoppedAlways == Spec => []DisabledSessionIsStopped
<1>1. AgentInv /\ ControlInv => DisabledSessionIsStopped
    <2> SUFFICES ASSUME AgentInv, ControlInv, NEW a \in Agents, asess[a].st = "disabled"
                 PROVE  /\ aOS[a] = ClosedOS
                        /\ aFence[a].phase \in {"none", "revoked"}
                        /\ \A q \in aSent[a] : q.op = "login" => ~AgentPlan(aFence[a], q, leaseExpired)
        BY Zenon DEF DisabledSessionIsStopped
    <2>0. AgentGuestInv(a)
        BY Zenon DEF ControlInv, SessionInv
    <2>n. asess[a].epoch \in Nat /\ aFence[a].epoch \in Nat
        BY Zenon, AgentTypes
    <2>1. CASE ~asess[a].uid
        BY <2>0, <2>1 DEF AgentGuestInv, NeverBoundIsEmpty, NoAgentFence
    <2>2. CASE asess[a].uid
        <3>1. StoppedBy(a, StopIntent(asess[a]))
            BY Zenon, <2>0, <2>2 DEF AgentGuestInv, StopReceiptsValid
        <3>2. aFence[a].phase = "revoked" /\ aFence[a].epoch = asess[a].epoch /\ aOS[a] = ClosedOS
            BY <3>1 DEF StoppedBy, StopIntent, AgentCompleted
        <3>3. ASSUME NEW q \in aSent[a], q.op = "login", AgentPlan(aFence[a], q, leaseExpired) PROVE FALSE
            <4>1. q.epoch <= asess[a].epoch /\ q.epoch \in Nat
                BY Zenon, <2>0, AgentTypes DEF AgentGuestInv, AgentCommandsOrdered, CommandOf
            <4> QED
                BY <3>2, <3>3, <4>1, <2>n DEF AgentPlan, LoginLive
        <3> QED
            BY Zenon, <3>2, <3>3
    <2> QED
        BY Zenon, <2>1, <2>2
<1> QED
    BY <1>1, ControlInvariant, PTL

\* A tombstone that is published late never takes the desktop's input away from
\* a lease that is still active (migration 025).
THEOREM CleanupSparesNewerLeaseAlways == Spec => CleanupSparesNewerLease
<1>1. AgentInv /\ ControlInv /\ [Next]_vars =>
         [auth.st = "active" /\ auth' # auth => auth'.st = "active" \/ lease[auth.lease].st # "active"]_vars
    <2> SUFFICES ASSUME AgentInv, ControlInv, Next, auth.st = "active", auth' # auth,
                        auth'.st # "active", lease[auth.lease].st = "active"
                 PROVE  FALSE
        BY Zenon
    <2>1. ASSUME NEW q \in authSent, PublishAuthority(q) PROVE FALSE
        <3>1. q.st # "active" /\ q.epoch >= auth.epoch
            BY Zenon, <2>1 DEF PublishAuthority, AuthorityTransition
        <3>2. q.epoch <= crEpoch
            BY Zenon, <3>1 DEF ControlInv, AuthorityInv
        <3>3. auth.lease \in ActiveLeases /\ auth.epoch = epoch
            BY Zenon DEF ControlInv, AuthorityInv, OfLease, ActiveLeases
        <3>4. crEpoch < epoch
            BY Zenon, <3>3 DEF ControlInv, Epochs
        <3>5. q.epoch \in Nat /\ crEpoch \in Nat /\ epoch \in Nat
            <4>1. q \in AuthReq /\ crEpoch \in Nat /\ epoch \in Nat
                BY Zenon DEF AgentInv, AgentTypeOK
            <4> QED
                BY Zenon, <4>1 DEF AuthReq
        <3> QED
            BY <3>1, <3>2, <3>3, <3>4, <3>5
    <2>2. CASE NativeNext
        BY Zenon, <2>2, NativeStepsSpareAgents DEF machines, agentGuest
    <2>3. CASE LeaseStore
        BY Zenon, <2>3 DEF LeaseStore, CreateDesktopLease, BeginAgentGuestSession, LeaseDeadline, ReleaseDesktopLease,
           RevokeDesktopLeases, QueueExpiredComputerLeases, agentGuest
    <2>4. ASSUME NEW a \in Agents, SessionStore(a) PROVE FALSE
        BY Zenon, <2>4 DEF SessionStore, QueueAgentGuestSessionRevocation, BindAgentGuestAccount, BeginAgentGuestLogin,
           MarkAgentGuestSessionReady, agentGuest
    <2>5. ASSUME NEW a \in Agents, AgentGuest(a) PROVE FALSE
        BY Zenon, <2>5 DEF AgentGuest, ProvisionAgentAccount, AcceptAgent, RegisterAgentLogin, FinishAgent,
           InterruptAgent, ReconcileAgent, EndAgentDesktop, ConfirmAgentCommand, agentGuest
    <2>6. ASSUME NEW w \in Workers, Synchronize(w) PROVE FALSE
        BY Zenon, <2>6 DEF Synchronize, ReadRevocationQueue, FenceAuthority, AuthorityFenced, StopAgentSession,
           CompleteAgentGuestSessionRevocation, CompleteComputerRevocation, SyncFails, AbandonSync, agentGuest
    <2>7. CASE AccessNext
        BY Zenon, <2>7 DEF AccessNext, CommitAccessChange, agentGuest
    <2> QED
        BY Zenon, <2>1, <2>2, <2>3, <2>4, <2>5, <2>6, <2>7 DEF Next, AgentNext
<1> QED
    BY <1>1, ControlInvariant, PTL DEF Spec, CleanupSparesNewerLease

\* From the moment a password is reserved for a person until the Guest can no
\* longer accept it, no Agent has a session and no lease can start one.
THEOREM PersonExcludesAgentsAlways == Spec => []PersonExcludesAgents
<1>1. Init => PersonExcludesAgents
    <2> SUFFICES ASSUME NativeInit, AgentInit, NEW u \in Users PROVE ~CanHeat(u)
        BY Zenon DEF Init, PersonExcludesAgents
    <2> QED
        BY Zenon DEF NativeInit, CanHeat, CredentialLive, NoFence
<1>2. NativeInv /\ AgentInv /\ ControlInv /\ PersonExcludesAgents /\ [Next]_vars => PersonExcludesAgents'
    BY Zenon, PersonExcludesAgentsStep
<1> QED
    BY <1>1, <1>2, NativeInvariant, ControlInvariant, PTL DEF Spec

\* A person's password and an Agent's input authority never work together,
\* whatever commands reach the Guest late.
THEOREM DesktopIsExclusiveAlways == Spec => []DesktopIsExclusive
<1>1. ControlInv /\ PersonExcludesAgents => DesktopIsExclusive
    BY Zenon, MayActIsOpen, OpenLoginIsEngaged DEF DesktopIsExclusive, PersonExcludesAgents, CanHeat
<1> QED
    BY <1>1, ControlInvariant, PersonExcludesAgentsAlways, PTL
==============================================================================
