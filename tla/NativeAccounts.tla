--------------------------- MODULE NativeAccounts ---------------------------
(***************************************************************************)
(* People on a desktop.  The store reserves an intent (issue, retire or    *)
(* revoke, one revision higher each), the Guest carries it out behind a    *)
(* durable fence, and the store acknowledges it once a worker has seen the *)
(* exact outcome.  Access changes, logouts and deadlines queue identity    *)
(* revocations that must close the account in the Guest.                   *)
(*                                                                         *)
(* The actions are the store's transactions and the Guest's commands; the  *)
(* HTTP handlers that call them are not sequenced here, so what holds here *)
(* holds for any order of calls, under any number of workers.              *)
(***************************************************************************)
EXTENDS Desktop

Intent(u) == [op |-> acct[u].op, rev |-> acct[u].rev, conn |-> acct[u].conn]

\* nativeAccountAuthorization
Authorized(u) ==
    /\ bind[u].st = "ready"
    /\ u \in access
    /\ u \in session
    /\ ~IdentityRevocationPending

------------------------------------------------------------------------------
(* Sessions, bindings and deadlines.                                       *)

CreateNativeSession(u) ==
    /\ u \notin session
    /\ session' = session \cup {u}
    /\ UNCHANGED <<access, expired, nativeDB, nativeGuest, nativeSeen, machines>>

\* The token's deadline passes; nothing is queued.
NativeSessionExpires(u) ==
    /\ u \in session
    /\ session' = session \ {u}
    /\ digest' = digest \ {u}
    /\ UNCHANGED <<access, expired, bind, idReq, idDone, acct, issuedTo, conn,
                   nativeGuest, nativeSeen, machines>>

ConnectionDeadline(c) ==
    /\ issuedTo[c] # None
    /\ c \notin expired
    /\ expired' = expired \cup {c}
    /\ UNCHANGED <<access, session, nativeDB, nativeGuest, nativeSeen, machines>>

\* provisioning and ready are equivalent to every reader, so both are "ready".
PutGuestIdentityBinding(u) ==
    /\ bind[u].st # "ready"
    /\ bind' = [bind EXCEPT ![u].st = "ready"]
    /\ UNCHANGED <<access, session, expired, idReq, idDone, acct, digest, issuedTo,
                   conn, nativeGuest, nativeSeen, machines>>

\* queueGuestIdentityRevocations for the bindings of a set of users.
BindDisabled(S) == [u \in Users |-> IF u \in S THEN [bind[u] EXCEPT !.st = "disabled"] ELSE bind[u]]

\* Variant: an upsert that leaves an existing request as it is.
RequestOnce(S) == [u \in Users |-> IF u \in S /\ idReq[u] = 0 THEN 1 ELSE idReq[u]]

RequestRaised(S) == [u \in Users |-> IF u \in S THEN idReq[u] + 1 ELSE idReq[u]]

ConnsRevoking(S) ==
    [c \in Conns |-> IF issuedTo[c] \in S /\ conn[c] = "active" THEN "revoking" ELSE conn[c]]

RevokeNativeSession(u) ==
    LET S == {v \in {u} : bind[v].st # "none"}
    IN  /\ u \in session
        /\ \A v \in S : idReq[v] < MaxReq
        /\ session' = session \ {u}
        /\ digest' = digest \ {u}
        /\ bind' = BindDisabled(S)
        /\ idReq' = RequestRaised(S)
        /\ conn' = ConnsRevoking({u})
        /\ UNCHANGED <<access, expired, idDone, acct, issuedTo, nativeGuest, nativeSeen, machines>>

QueueExpiredGuestIdentities ==
    LET S == {u \in Users : bind[u].st = "ready" /\ bind[u].exp \in expired}
    IN  /\ S # {}
        /\ \A u \in S : idReq[u] < MaxReq
        /\ bind' = BindDisabled(S)
        /\ idReq' = RequestRaised(S)
        /\ UNCHANGED <<access, session, expired, idDone, acct, digest, issuedTo, conn,
                       nativeGuest, nativeSeen, machines>>

\* Release by its user, takeover by a new connection, or a passed deadline.
BeginRevokeDesktopConnection(c) ==
    /\ conn[c] = "active"
    /\ conn' = [conn EXCEPT ![c] = "revoking"]
    /\ UNCHANGED <<access, session, expired, bind, idReq, idDone, acct, digest, issuedTo,
                   nativeGuest, nativeSeen, machines>>

------------------------------------------------------------------------------
(* Intents.                                                                *)

BindNativeGuestAccount(u) ==
    /\ acct[u].st = "unbound"
    /\ Authorized(u)
    /\ acct' = [acct EXCEPT ![u].st = "idle"]
    /\ UNCHANGED <<access, session, expired, bind, idReq, idDone, digest, issuedTo, conn,
                   nativeGuest, nativeSeen, machines>>

\* The command is in flight from the moment the intent is durable.
Dispatch(u, q) == nSent' = [nSent EXCEPT ![u] = @ \cup {q}]

\* Variant: credentials of other people that are still unsettled are overlooked.
NoOtherConnection(u) ==
    \A v \in Users \ {u} : ~(acct[v].op = "issue" /\ acct[v].st = "applied")

\* protect_native_guest_account_version: nobody else's credential is out.
NoOtherReservation(u) == \A v \in Users \ {u} : ~Reserved(v)

BeginNativeGuestCredential(u, c) ==
    LET q == [op |-> "issue", rev |-> acct[u].rev + 1, conn |-> c]
    IN  /\ \/ acct[u].st = "idle"
           \/ acct[u].st = "applied" /\ acct[u].op \in {"retire", "revoke"}
        /\ acct[u].op = "retire" => acct[u].conn \notin expired
        /\ Authorized(u)
        /\ issuedTo[c] = None
        /\ ~ConnectionOpen
        /\ ~ComputerRevocationPending
        /\ \A a \in Agents : ~LiveSession(a) /\ asess[a].st # "revoking"
        /\ ActiveLeases \subseteq leaseExpired
        /\ NoOtherReservation(u)
        /\ acct' = [acct EXCEPT ![u] = [rev |-> q.rev, op |-> "issue", st |-> "pending", conn |-> c]]
        /\ digest' = digest \cup {u}
        /\ issuedTo' = [issuedTo EXCEPT ![c] = u]
        /\ Dispatch(u, q)
        /\ UNCHANGED <<access, session, expired, bind, idReq, idDone, conn,
                       nFence, nOS, nBusy, nativeSeen, machines>>

BeginNativeGuestCleanup(u, op) ==
    LET q == [op |-> op, rev |-> acct[u].rev + 1, conn |-> acct[u].conn]
    IN  /\ acct' = [acct EXCEPT ![u] = [rev |-> q.rev, op |-> op, st |-> "pending", conn |-> q.conn]]
        /\ digest' = digest \ {u}
        /\ Dispatch(u, q)
        /\ UNCHANGED <<access, session, expired, bind, idReq, idDone, issuedTo, conn,
                       nFence, nOS, nBusy, nativeSeen, machines>>

RetireNativeGuestCredential(u) ==
    /\ acct[u].op = "issue" /\ acct[u].st = "applied"
    /\ acct[u].conn \notin expired
    /\ BeginNativeGuestCleanup(u, "retire")

RevokeNativeGuestAccount(u) ==
    /\ acct[u].st \in {"pending", "applied"}
    /\ acct[u].op # "revoke"
    /\ BeginNativeGuestCleanup(u, "revoke")

\* Variant: a revocation that never reached the Guest is not sent again.
ResendAppliedRevoke(u) ==
    /\ acct[u].op = "revoke" /\ acct[u].st = "applied"
    /\ Intent(u) \notin nSent[u]
    /\ Dispatch(u, Intent(u))
    /\ UNCHANGED <<access, session, expired, nativeDB, nFence, nOS, nBusy, nativeSeen, machines>>

\* revokeNativeGuestAccount sends an exact revocation again, settled or not.
ResendRevoke(u) ==
    /\ acct[u].op = "revoke"
    /\ Intent(u) \notin nSent[u]
    /\ Dispatch(u, Intent(u))
    /\ UNCHANGED <<access, session, expired, nativeDB, nFence, nOS, nBusy, nativeSeen, machines>>

CompleteIssue(u) ==
    LET c == acct[u].conn
    IN  /\ acct[u].op = "issue" /\ acct[u].st = "pending"
        /\ Intent(u) \in nSeen[u]
        /\ c \notin expired
        /\ u \in digest /\ u \in access /\ bind[u].st = "ready"
        /\ ~IdentityRevocationPending
        /\ ~ConnectionOpen
        /\ acct' = [acct EXCEPT ![u].st = "applied"]
        /\ digest' = digest \ {u}
        /\ conn' = [conn EXCEPT ![c] = "active"]
        /\ bind' = [bind EXCEPT ![u].exp = c]
        /\ UNCHANGED <<access, session, expired, idReq, idDone, issuedTo,
                       nativeGuest, nativeSeen, machines>>

\* Variant: only a connection that was released is closed.
ReleasedClosed(c) == [conn EXCEPT ![c] = IF @ = "revoking" THEN "closed" ELSE @]

ConnClosed(c) == [conn EXCEPT ![c] = IF @ = "none" THEN @ ELSE "closed"]

CompleteCleanup(u) ==
    LET c == acct[u].conn
    IN  /\ acct[u].op \in {"retire", "revoke"} /\ acct[u].st = "pending"
        /\ Intent(u) \in nSeen[u]
        /\ acct' = [acct EXCEPT ![u].st = "applied"]
        /\ conn' = ConnClosed(c)
        /\ bind' = IF acct[u].op = "revoke" THEN [bind EXCEPT ![u].exp = None] ELSE bind
        /\ UNCHANGED <<access, session, expired, idReq, idDone, digest, issuedTo,
                       nativeGuest, nativeSeen, machines>>

------------------------------------------------------------------------------
(* What a worker sees of the Guest.                                        *)

\* Variant: a disabled login is taken for a closed account.
LoginClosed(u) == ~nOS[u].open

\* NativeAccountObservation.Closed
Closed(u) == ~nOS[u].open /\ ~nOS[u].desk

\* ChangeNativeCredential: the exact receipt, confirmed by an inspection of the
\* account; recovery of a retirement relies on the inspection alone.
ConfirmNativeCredential(u) ==
    LET q == Intent(u)
    IN  /\ acct[u].st \in {"pending", "applied"}
        /\ nBusy[u] = NoReq
        /\ nFence[u] = NativeCompleted(q)
        /\ IF q.op = "revoke" THEN Closed(u)
           ELSE Retained(nFence[u], expired) /\ nOS[u].open
        /\ q \notin nSeen[u]
        /\ nSeen' = [nSeen EXCEPT ![u] = @ \cup {q}]
        /\ UNCHANGED <<access, session, expired, nativeDB, nativeGuest, idSeen, machines>>

\* revokeGuestIdentitiesForDesktop has read request idReq[u] and has seen the
\* account closed; a user that was never pinned takes the legacy drain.
ObserveIdentityClosed(u) ==
    /\ idReq[u] > idDone[u]
    /\ idReq[u] \notin idSeen[u]
    /\ \/ acct[u].st = "unbound"
       \/ acct[u].st = "idle" /\ nFence[u] = NoFence /\ Closed(u)
       \/ acct[u].op = "revoke" /\ acct[u].st = "applied" /\ Intent(u) \in nSeen[u]
    /\ idSeen' = [idSeen EXCEPT ![u] = @ \cup {idReq[u]}]
    /\ UNCHANGED <<access, session, expired, nativeDB, nativeGuest, nSeen, machines>>

\* Variant: whatever has been requested by now is completed.
CompleteAnyRevocation(u, r) ==
    /\ r \in idSeen[u]
    /\ idDone[u] < idReq[u]
    /\ idDone' = [idDone EXCEPT ![u] = idReq[u]]
    /\ UNCHANGED <<access, session, expired, bind, idReq, acct, digest, issuedTo, conn,
                   nativeGuest, nativeSeen, machines>>

\* A worker may hold an old observation: only the current revision completes.
CompleteGuestIdentityRevocation(u, r) ==
    /\ r \in idSeen[u]
    /\ r = idReq[u]
    /\ idDone[u] < r
    /\ idDone' = [idDone EXCEPT ![u] = r]
    /\ bind' = [bind EXCEPT ![u] = [st |-> "disabled", exp |-> None]]
    /\ conn' = [c \in Conns |-> IF issuedTo[c] = u /\ conn[c] # "none" THEN "closed" ELSE conn[c]]
    /\ UNCHANGED <<access, session, expired, idReq, acct, digest, issuedTo,
                   nativeGuest, nativeSeen, machines>>

------------------------------------------------------------------------------
(* The Guest.  A command holds the account gate from acceptance to its end, *)
(* so the two ends are separate steps and a crash may fall in between.     *)

LoginDisabled(os) == [os EXCEPT !.open = FALSE]

\* The state the OS account has once the command has run to its end.  The
\* password itself is not kept: an issue installs its connection's, a retirement
\* a random one, and a login is let in only while the fence says "issued".
Applied(u, q) ==
    CASE q.op = "issue"  -> [open |-> TRUE, desk |-> q.keep /\ nOS[u].desk]
      [] q.op = "retire" -> nOS[u]
      [] OTHER           -> ClosedOS

\* live_state: within its window, and the account is not disabled.
LiveState(u, fence) == Retained(fence, expired) /\ nOS[u].open

AcceptNative(u, q) ==
    /\ nBusy[u] = NoReq
    /\ q \in nSent[u]
    /\ NativePlan(nFence[u], q, expired)
    /\ PreserveDesktop(nFence[u], q) => LiveState(u, nFence[u])
    /\ nSent' = [nSent EXCEPT ![u] = @ \ {q}]
    /\ IF ObserveOnly(nFence[u], q)
       THEN UNCHANGED <<nFence, nBusy>>
       ELSE /\ nFence' = [nFence EXCEPT ![u] = NativePending(q)]
            /\ nBusy' = [nBusy EXCEPT ![u] =
                 [op |-> q.op, rev |-> q.rev, conn |-> q.conn, keep |-> PreserveDesktop(nFence[u], q)]]
    /\ UNCHANGED <<access, session, expired, nativeDB, nOS, nativeSeen, machines>>

FinishNative(u) ==
    LET q == nBusy[u]
    IN  /\ q # NoReq
        /\ q.op # "revoke" => q.conn \notin expired
        /\ nFence' = [nFence EXCEPT ![u] = NativeCompleted(q)]
        /\ nOS' = [nOS EXCEPT ![u] = Applied(u, q)]
        /\ nBusy' = [nBusy EXCEPT ![u] = NoReq]
        /\ UNCHANGED <<access, session, expired, nativeDB, nSent, nativeSeen, machines>>

\* A failed or killed command: the account is left anywhere between the old
\* and the new state, or closed; writing the revoked fence may fail as well.
InterruptNative(u) ==
    LET q == nBusy[u]
    IN  /\ q # NoReq
        /\ \E os \in {nOS[u], LoginDisabled(nOS[u]), Applied(u, q), ClosedOS} :
              nOS' = [nOS EXCEPT ![u] = os]
        /\ \E f \in {nFence[u], Revoked(nFence[u])} : nFence' = [nFence EXCEPT ![u] = f]
        /\ nBusy' = [nBusy EXCEPT ![u] = NoReq]
        /\ UNCHANGED <<access, session, expired, nativeDB, nSent, nativeSeen, machines>>

\* The Guest's own timer closes whatever is not a live window.
ReconcileNative(u) ==
    /\ nBusy[u] = NoReq
    /\ nFence[u] # NoFence
    /\ ~LiveState(u, nFence[u])
    /\ nFence' = [nFence EXCEPT ![u] = Revoked(@)]
    /\ \E os \in {nOS[u], LoginDisabled(nOS[u]), ClosedOS} : nOS' = [nOS EXCEPT ![u] = os]
    /\ <<nFence', nOS'>> # <<nFence, nOS>>
    /\ UNCHANGED <<access, session, expired, nativeDB, nBusy, nSent, nativeSeen, machines>>

\* PAM lets a login begin only against an issued fence; the password reached
\* its user with the committed connection.
LoginNative(u) ==
    /\ nBusy[u] = NoReq
    /\ nFence[u].phase = "issued" /\ Retained(nFence[u], expired)
    /\ nOS[u].open
    /\ conn[nFence[u].conn] # "none"
    /\ ~nOS[u].desk
    /\ nOS' = [nOS EXCEPT ![u].desk = TRUE]
    /\ UNCHANGED <<access, session, expired, nativeDB, nFence, nBusy, nSent, nativeSeen, machines>>

\* The user logs out of the desktop, or the Guest restarts.
EndNativeDesktop(u) ==
    /\ nOS[u].desk
    /\ nOS' = [nOS EXCEPT ![u].desk = FALSE]
    /\ UNCHANGED <<access, session, expired, nativeDB, nFence, nBusy, nSent, nativeSeen, machines>>

------------------------------------------------------------------------------
NativeStore(u) ==
    \/ CreateNativeSession(u)
    \/ NativeSessionExpires(u)
    \/ PutGuestIdentityBinding(u)
    \/ RevokeNativeSession(u)
    \/ BindNativeGuestAccount(u)
    \/ \E c \in Conns : BeginNativeGuestCredential(u, c)
    \/ RetireNativeGuestCredential(u)
    \/ RevokeNativeGuestAccount(u)
    \/ ResendRevoke(u)
    \/ CompleteIssue(u)
    \/ CompleteCleanup(u)
    \/ ConfirmNativeCredential(u)
    \/ ObserveIdentityClosed(u)
    \/ \E r \in idSeen[u] : CompleteGuestIdentityRevocation(u, r)

NativeGuest(u) ==
    \/ \E q \in nSent[u] : AcceptNative(u, q)
    \/ FinishNative(u)
    \/ InterruptNative(u)
    \/ ReconcileNative(u)
    \/ LoginNative(u)
    \/ EndNativeDesktop(u)

NativeNext ==
    \/ \E u \in Users : NativeStore(u) \/ NativeGuest(u)
    \/ QueueExpiredGuestIdentities
    \/ \E c \in Conns : ConnectionDeadline(c) \/ BeginRevokeDesktopConnection(c)
==============================================================================
