------------------------------- MODULE SignIn -------------------------------
(***************************************************************************)
(* Accounts and sign-in of the control plane: first administrator, local   *)
(* passwords, single sign-on, one-time native codes, Web and Native        *)
(* sessions, and what revokes them.                                        *)
(*                                                                         *)
(* A handler is one HTTP request. It proves who the user is outside every  *)
(* transaction (a password hash read and verified, an identity provider    *)
(* asked) and mints the session in a later transaction, so another request *)
(* may reset, disable or enable the account in between. The digest of the  *)
(* token a handler issues is unique to it, so session[h] and code[h] are   *)
(* the rows handler h inserted.                                            *)
(*                                                                         *)
(* Passwords are numbers: every hash ever stored is a fresh one (a salt is *)
(* drawn for each), 0 is the NULL hash of an account the identity provider *)
(* owns. Expiry of a row is a step that may happen at any time.            *)
(***************************************************************************)
EXTENDS Naturals, FiniteSets

CONSTANTS Users, Subjects, Handlers, Requests, MaxHash, NoOne

ASSUME SignInAssumption ==
  /\ MaxHash \in Nat
  /\ NoOne \notin Users \cup Subjects \cup Requests \cup Handlers
  /\ Requests \cap Handlers = {}

VARIABLES
  users,     \* the users table: NoUser or [role, hash, disabled]
  identity,  \* external_identities of the one provider: subject to user
  request,   \* oidc_auth_requests
  handler,   \* the requests being served
  session,   \* web_sessions and native_sessions, by the handler that minted it
  code,      \* native_auth_codes, by the handler that minted it
  hashes     \* number of hashes computed so far

vars == <<users, identity, request, handler, session, code, hashes>>

NoUser == [role |-> "none", hash |-> 0, disabled |-> FALSE]

\* user, hash: the account as this request read it. source: the request or
\* code it consumed. raced: another setup committed since its snapshot.
Fresh == [phase |-> "idle", kind |-> "web", user |-> NoOne, hash |-> 0,
          subject |-> NoOne, source |-> NoOne, raced |-> FALSE]

NoRow == [state |-> "none", kind |-> "web", user |-> NoOne, hash |-> 0]

Init ==
  /\ users = [u \in Users |-> NoUser]
  /\ identity = [s \in Subjects |-> NoOne]
  /\ request = [q \in Requests |-> [state |-> "none", kind |-> "web"]]
  /\ handler = [h \in Handlers |-> Fresh]
  /\ session = [h \in Handlers |-> NoRow]
  /\ code = [h \in Handlers |-> NoRow]
  /\ hashes = 0

Exists(u) == users[u].role # "none"
Initialized == \E u \in Users : Exists(u)

Becomes(h, phase) == handler' = [handler EXCEPT ![h].phase = phase]

\* The row a session lookup accepts: unexpired, of an account not disabled.
Live(k) == session[k].state = "live" /\ ~users[session[k].user].disabled

\* requireAdminMutation: a signed-in platform administrator other than `u`.
AdministratorOtherThan(u) ==
  \E k \in Handlers : /\ Live(k) /\ session[k].kind = "web"
                      /\ users[session[k].user].role = "platform_admin"
                      /\ session[k].user # u

-----------------------------------------------------------------------------
(* First administrator. The transaction is SERIALIZABLE: its snapshot is    *)
(* that of the statement that waits for the advisory lock.                  *)

BeginSetup(h) ==
  /\ handler[h].phase = "idle"
  /\ Becomes(h, IF Initialized THEN "done" ELSE "setup")
  /\ UNCHANGED <<users, identity, request, session, code, hashes>>

\* (mutant) the insert commits although another setup has
CommitRaced(h) == FALSE

\* A setup that read no user conflicts with one that inserted meanwhile.
SerializationFailure(h) == handler[h].raced

CreateInitialAdmin(h, u) ==
  /\ handler[h].phase = "setup" /\ ~Exists(u) /\ hashes < MaxHash
  /\ ~SerializationFailure(h)
  /\ users' = [users EXCEPT ![u] = [role |-> "platform_admin", hash |-> hashes + 1, disabled |-> FALSE]]
  /\ hashes' = hashes + 1
  /\ handler' = [g \in Handlers |->
       IF g = h THEN [handler[h] EXCEPT !.phase = "verified", !.user = u, !.hash = hashes + 1]
       ELSE [handler[g] EXCEPT !.raced = @ \/ handler[g].phase = "setup"]]
  /\ UNCHANGED <<identity, request, session, code>>

-----------------------------------------------------------------------------
(* Password sign-in, Web and Native                                        *)

\* The password was verified against the hash just read.
Verified(h, u, kind) ==
  /\ handler[h].phase = "idle"
  /\ Exists(u) /\ ~users[u].disabled /\ users[u].hash # 0
  /\ handler' = [handler EXCEPT ![h] = [@ EXCEPT !.phase = "verified", !.kind = kind,
                                                 !.user = u, !.hash = users[u].hash]]
  /\ UNCHANGED <<users, identity, request, session, code, hashes>>

Login(h, u) == Verified(h, u, "web")
NativeLogin(h, u) == Verified(h, u, "native")

\* (mutant) the proof of the password is not compared with the stored hash
CurrentAccount(h) == ~users[handler[h].user].disabled

\* The account is still the one that was verified.
StillVerified(h) ==
  /\ ~users[handler[h].user].disabled
  /\ users[handler[h].user].hash = handler[h].hash

CreateVerifiedLoginSession(h) ==
  /\ handler[h].phase = "verified"
  /\ Becomes(h, "done")
  /\ session' = IF StillVerified(h)
                THEN [session EXCEPT ![h] = [state |-> "live", kind |-> handler[h].kind,
                                             user |-> handler[h].user, hash |-> handler[h].hash]]
                ELSE session
  /\ UNCHANGED <<users, identity, request, code, hashes>>

IssueSession(h) == handler[h].kind = "web" /\ CreateVerifiedLoginSession(h)
IssueNativeSession(h) == handler[h].kind = "native" /\ CreateVerifiedLoginSession(h)

-----------------------------------------------------------------------------
(* Single sign-on                                                          *)

OidcStart(q, kind) ==
  /\ request[q].state = "none"
  /\ request' = [request EXCEPT ![q] = [state |-> "open", kind |-> kind]]
  /\ UNCHANGED <<users, identity, handler, session, code, hashes>>

ExpireRequest(q) ==
  /\ request[q].state = "open"
  /\ request' = [request EXCEPT ![q].state = "gone"]
  /\ UNCHANGED <<users, identity, handler, session, code, hashes>>

\* The browser may deliver the callback more than once.
ConsumeOIDCRequest(h, q) ==
  /\ handler[h].phase = "idle" /\ request[q].state = "open"
  /\ request' = [request EXCEPT ![q].state = "gone"]
  /\ handler' = [handler EXCEPT ![h] = [@ EXCEPT !.phase = "exchanging",
                                                 !.kind = request[q].kind, !.source = q]]
  /\ UNCHANGED <<users, identity, session, code, hashes>>

\* (mutant) the claims are taken for an account without resolving it
ExchangeUnresolved(h, s) ==
  /\ handler[h].phase = "exchanging"
  /\ handler' = [handler EXCEPT ![h].phase = "verified", ![h].subject = s]
  /\ UNCHANGED <<users, identity, request, session, code, hashes>>

\* The provider answers with a subject, under the nonce and PKCE verifier of
\* the consumed request.
Exchange(h, s) ==
  /\ handler[h].phase = "exchanging"
  /\ handler' = [handler EXCEPT ![h].phase = "claimed", ![h].subject = s]
  /\ UNCHANGED <<users, identity, request, session, code, hashes>>

\* What the callback does with the account it resolved.
OidcCallback(kind, account) ==
  CASE account.disabled -> "done"
    [] kind = "native" -> "granting"
    [] OTHER -> "verified"

\* `u` is the proposed account, used when the subject has none. The group
\* synchronisation that follows changes entitlements only (module Access).
ResolveOIDCUser(h, u) ==
  LET s == handler[h].subject
      known == identity[s] # NoOne
      w == IF known THEN identity[s] ELSE u
  IN /\ handler[h].phase = "claimed"
     /\ known \/ ~Exists(u)
     /\ users' = IF known THEN users
                 ELSE [users EXCEPT ![u] = [role |-> "user", hash |-> 0, disabled |-> FALSE]]
     /\ identity' = [identity EXCEPT ![s] = w]
     /\ handler' = [handler EXCEPT ![h] =
          [@ EXCEPT !.user = w, !.hash = users'[w].hash,
                    !.phase = OidcCallback(handler[h].kind, users'[w])]]
     /\ UNCHANGED <<request, session, code, hashes>>

CreateNativeAuthCode(h) ==
  code' = [code EXCEPT ![h] = [state |-> "live", kind |-> "native",
                               user |-> handler[h].user, hash |-> handler[h].hash]]

FinishNativeOIDC(h) ==
  /\ handler[h].phase = "granting"
  /\ Becomes(h, "done")
  /\ CreateNativeAuthCode(h)
  /\ UNCHANGED <<users, identity, request, session, hashes>>

ExpireCode(c) ==
  /\ code[c].state = "live"
  /\ code' = [code EXCEPT ![c].state = "gone"]
  /\ UNCHANGED <<users, identity, request, handler, session, hashes>>

\* (mutant) the code is read, and left to be deleted when it expires
Redeem(c) == code

Consume(c) == [code EXCEPT ![c].state = "gone"]

\* The code is deleted and its account read in one statement.
ConsumeNativeAuthCode(c) == code[c].state = "live" /\ code' = Consume(c)

NativeExchange(h, c) ==
  LET u == code[c].user
  IN /\ handler[h].phase = "idle"
     /\ ConsumeNativeAuthCode(c)
     /\ handler' = [handler EXCEPT ![h] =
          [@ EXCEPT !.kind = "native", !.user = u, !.hash = users[u].hash, !.source = c,
                    !.phase = IF users[u].disabled THEN "done" ELSE "verified"]]
     /\ UNCHANGED <<users, identity, request, session, hashes>>

-----------------------------------------------------------------------------
(* Changes to an account                                                   *)

\* The rows of user u with the sessions in `kept` spared.
Revoked(rows, u, kept) ==
  [k \in Handlers |-> IF rows[k].state = "live" /\ rows[k].user = u /\ k \notin kept
                      THEN [rows[k] EXCEPT !.state = "gone"] ELSE rows[k]]

CreateLocalUser(u) ==
  /\ AdministratorOtherThan(u) /\ ~Exists(u) /\ hashes < MaxHash
  /\ users' = [users EXCEPT ![u] = [role |-> "user", hash |-> hashes + 1, disabled |-> FALSE]]
  /\ hashes' = hashes + 1
  /\ UNCHANGED <<identity, request, handler, session, code>>

\* updateUser refuses to disable the account of the session that asks.
MayDisable(u) == AdministratorOtherThan(u)

SetUserDisabled(u, disabled) ==
  /\ Exists(u)
  /\ IF disabled THEN MayDisable(u) ELSE \E v \in Users : AdministratorOtherThan(v)
  /\ users' = [users EXCEPT ![u].disabled = disabled]
  /\ session' = IF disabled THEN Revoked(session, u, {}) ELSE session
  /\ code' = IF disabled THEN Revoked(code, u, {}) ELSE code
  /\ UNCHANGED <<identity, request, handler, hashes>>

\* SetUserPassword: only an account with a local hash. `kept` is the retained
\* Web session; it now stands for the new password.
SetUserPassword(u, kept) ==
  /\ Exists(u) /\ users[u].hash # 0 /\ hashes < MaxHash
  /\ users' = [users EXCEPT ![u].hash = hashes + 1]
  /\ hashes' = hashes + 1
  /\ session' = [k \in Handlers |->
       IF k \in kept /\ session[k].state = "live"
       THEN [session[k] EXCEPT !.hash = hashes + 1] ELSE Revoked(session, u, kept)[k]]
  /\ code' = Revoked(code, u, {})

ResetUserPassword(u) ==
  /\ AdministratorOtherThan(u)
  /\ SetUserPassword(u, {})
  /\ UNCHANGED <<identity, request, handler>>

\* changeOwnPassword reads the session and verifies the current password...
BeginPasswordChange(h, k) ==
  /\ handler[h].phase = "idle" /\ Live(k) /\ session[k].kind = "web"
  /\ users[session[k].user].hash # 0
  /\ handler' = [handler EXCEPT ![h] = [@ EXCEPT !.phase = "changing", !.source = k,
                                                 !.user = session[k].user]]
  /\ UNCHANGED <<users, identity, request, session, code, hashes>>

\* ... and stores the new hash whatever the account holds by then.
ChangeOwnPassword(h) ==
  /\ handler[h].phase = "changing"
  /\ SetUserPassword(handler[h].user, {handler[h].source})
  /\ Becomes(h, "done")
  /\ UNCHANGED <<identity, request>>

DeleteSession(k) ==
  /\ session' = [session EXCEPT ![k].state = "gone"]
  /\ UNCHANGED <<users, identity, request, handler, code, hashes>>

Logout(k) == Live(k) /\ session[k].kind = "web" /\ DeleteSession(k)
NativeLogout(k) == Live(k) /\ session[k].kind = "native" /\ DeleteSession(k)

\* Its lifetime is over: no lookup finds the row again.
ExpireSession(k) == session[k].state = "live" /\ DeleteSession(k)

\* An error, a cancelled request or a stopped control plane.
HandlerFails(h) ==
  /\ handler[h].phase \notin {"idle", "done"}
  /\ Becomes(h, "done")
  /\ UNCHANGED <<users, identity, request, session, code, hashes>>

Next ==
  \/ \E h \in Handlers :
       \/ BeginSetup(h) \/ IssueSession(h) \/ IssueNativeSession(h) \/ FinishNativeOIDC(h)
       \/ ChangeOwnPassword(h) \/ HandlerFails(h) \/ ExpireCode(h)
       \/ Logout(h) \/ NativeLogout(h) \/ ExpireSession(h)
       \/ \E u \in Users : \/ CreateInitialAdmin(h, u) \/ ResolveOIDCUser(h, u)
                           \/ Login(h, u) \/ NativeLogin(h, u)
       \/ \E q \in Requests : ConsumeOIDCRequest(h, q)
       \/ \E s \in Subjects : Exchange(h, s)
       \/ \E k \in Handlers : NativeExchange(h, k) \/ BeginPasswordChange(h, k)
  \/ \E q \in Requests : ExpireRequest(q) \/ \E kind \in {"web", "native"} : OidcStart(q, kind)
  \/ \E u \in Users :
       \/ CreateLocalUser(u) \/ ResetUserPassword(u)
       \/ \E disabled \in BOOLEAN : SetUserDisabled(u, disabled)

Spec == Init /\ [][Next]_vars

-----------------------------------------------------------------------------
Row == [state : {"none", "live", "gone"}, kind : {"web", "native"},
        user : Users \cup {NoOne}, hash : 0..MaxHash]

\* Every variable holds rows of its table, and a request that is about to mint
\* a session, a code or a hash has read the account it acts for.
TypeOK ==
  /\ \A h \in Handlers :
       handler[h].phase \in {"verified", "granting", "changing"} => handler[h].user \in Users
  /\ users \in [Users -> [role : {"none", "user", "platform_admin"},
                          hash : 0..MaxHash, disabled : BOOLEAN]]
  /\ identity \in [Subjects -> Users \cup {NoOne}]
  /\ request \in [Requests -> [state : {"none", "open", "gone"}, kind : {"web", "native"}]]
  /\ handler \in [Handlers ->
       [phase : {"idle", "setup", "verified", "exchanging", "claimed", "granting", "changing", "done"},
        kind : {"web", "native"}, user : Users \cup {NoOne}, hash : 0..MaxHash,
        subject : Subjects \cup {NoOne},
        source : Requests \cup Handlers \cup {NoOne}, raced : BOOLEAN]]
  /\ session \in [Handlers -> Row] /\ code \in [Handlers -> Row]
  /\ hashes \in 0..MaxHash

\* A live session stands for the account as it is now: the account is enabled
\* and its password is the one proved when the session was minted, or the one
\* the session itself set. No verification that a reset overtook leaves a
\* session behind, nor one that a disable overtook while it lasts; an account
\* enabled again has its old hash, and a verification from before still counts
\* (createVerifiedLoginSession, SetUserPassword, SetUserDisabled).
SessionsAreCurrent ==
  \A k \in Handlers : session[k].state = "live" =>
    /\ ~users[session[k].user].disabled
    /\ session[k].hash = users[session[k].user].hash

\* A single sign-on request and a native code are good for one session each,
\* however often and however concurrently they are presented
\* (ConsumeOIDCRequest, ConsumeNativeAuthCode).
GrantsAreUsedOnce ==
  \A g, h \in Handlers :
    (g # h /\ handler[g].source = handler[h].source /\ handler[g].source # NoOne)
      => ~(session[g].state # "none" /\ session[h].state # "none")

\* Setup makes one administrator, and no administrator disables the last one:
\* two setup requests that both found no user cannot both commit
\* (CreateInitialAdmin, updateUser).
SoleAdministrator ==
  LET admins == {u \in Users : users[u].role = "platform_admin"}
  IN Cardinality(admins) <= 1 /\ \A u \in admins : ~users[u].disabled
=============================================================================
