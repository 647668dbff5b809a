---------------------------- MODULE SignInProofs ----------------------------
(***************************************************************************)
(* Proofs about accounts and sign-in.  The inductive invariant SignInInv   *)
(* follows a grant (a single sign-on request or a native code) from the    *)
(* row it was to the one handler that may still turn it into a session,    *)
(* and a setup from the snapshot that found no user to its commit.         *)
(***************************************************************************)
EXTENDS SignIn, FiniteSetTheorems, TLAPS

KnownUser(u) == u \in Users /\ Exists(u)

\* Whoever a handler, a row or an identity stands for has an account.
Accounts ==
  /\ \A h \in Handlers :
       /\ handler[h].phase \in {"verified", "granting", "changing"} => KnownUser(handler[h].user)
       /\ handler[h].phase = "claimed" => handler[h].subject \in Subjects
       /\ session[h].state # "none" => KnownUser(session[h].user)
       /\ code[h].state # "none" => KnownUser(code[h].user)
  /\ \A s \in Subjects : identity[s] # NoOne => KnownUser(identity[s])

\* A handler issues at its end, and what it consumed was there before.
Sources ==
  \A h \in Handlers :
    /\ handler[h].phase \in {"idle", "setup"} => handler[h].source = NoOne
    /\ session[h].state # "none" \/ code[h].state # "none" => handler[h].phase = "done"
    /\ handler[h].source \in Handlers => handler[handler[h].source].phase = "done"
    /\ handler[h].source \in Requests => request[handler[h].source].state = "gone"
    /\ handler[h].phase = "changing" =>
         /\ handler[h].source \in Handlers
         /\ session[handler[h].source].state # "none"
         /\ session[handler[h].source].user = handler[h].user

\* The handler has consumed a grant, and has or may yet make a session of it.
Spends(h) ==
  /\ handler[h].source # NoOne
  /\ \/ handler[h].phase \in {"exchanging", "claimed", "granting", "verified"}
     \/ session[h].state # "none"

Spending ==
  \A g, h \in Handlers :
    /\ Spends(h) /\ handler[h].source = g => code[g].state # "live"
    /\ Spends(g) /\ Spends(h) /\ handler[g].source = handler[h].source => g = h

Administrators ==
  /\ \A h \in Handlers, u \in Users :
       handler[h].phase = "setup" /\ ~handler[h].raced => users[u].role # "platform_admin"
  /\ \A u, v \in Users :
       users[u].role = "platform_admin" /\ users[v].role = "platform_admin" => u = v
  /\ \A u \in Users : users[u].role = "platform_admin" => ~users[u].disabled

SignInInv ==
  TypeOK /\ Accounts /\ Sources /\ Spending /\ SessionsAreCurrent /\ Administrators

-----------------------------------------------------------------------------
(* What a step does to handlers, rows and accounts decides the invariant.  *)

Phases == {"idle", "setup", "verified", "exchanging", "claimed", "granting", "changing", "done"}

Handler == [phase : Phases, kind : {"web", "native"}, user : Users \cup {NoOne}, hash : 0..MaxHash,
            subject : Subjects \cup {NoOne},
            source : Requests \cup Handlers \cup {NoOne}, raced : BOOLEAN]

User == [role : {"none", "user", "platform_admin"}, hash : 0..MaxHash, disabled : BOOLEAN]

Request == [state : {"none", "open", "gone"}, kind : {"web", "native"}]

Typed ==
  /\ users \in [Users -> User]
  /\ identity \in [Subjects -> Users \cup {NoOne}]
  /\ request \in [Requests -> Request]
  /\ handler \in [Handlers -> Handler]
  /\ session \in [Handlers -> Row] /\ code \in [Handlers -> Row]
  /\ hashes \in 0..MaxHash

LEMMA Types == TypeOK => Typed
  BY Zenon DEF TypeOK, Typed, Handler, User, Request, Phases

\* The handler is where it was, and has read nothing new.
SameHandler(g) ==
  /\ handler'[g].phase = handler[g].phase
  /\ handler'[g].user = handler[g].user
  /\ handler'[g].subject = handler[g].subject
  /\ handler'[g].source = handler[g].source

\* No account is deleted, and no identity is left without one.
AccountsStay ==
  /\ \A u \in Users : Exists(u) => Exists(u)'
  /\ \A s \in Subjects : identity'[s] # NoOne => KnownUser(identity[s])'

\* A row keeps its user, and never comes back to life.
RowsStay(rows, rowsNew) ==
  \A k \in Handlers :
    /\ rowsNew[k].user = rows[k].user
    /\ rowsNew[k].state = "none" <=> rows[k].state = "none"
    /\ rowsNew[k].state = "live" => rows[k].state = "live"

RequestsStay ==
  \A q \in Requests : request[q].state = "gone" => request'[q].state = "gone"

\* One handler takes a step, and consumes at most one request or code.
LEMMA HandlerMoves ==
  ASSUME SignInInv, NEW h \in Handlers, handler[h].phase # "done",
         \A g \in Handlers : g # h => SameHandler(g),
         AccountsStay, RequestsStay, session' = session, RowsStay(code, code'),
         handler'[h].phase \in {"idle", "setup"} => handler'[h].source = NoOne,
         handler'[h].phase \in {"verified", "granting", "changing"} => KnownUser(handler[h].user)',
         handler'[h].phase = "claimed" => handler'[h].subject \in Subjects,
         handler'[h].source \in Handlers => handler[handler'[h].source].phase = "done",
         handler'[h].source \in Requests => request'[handler'[h].source].state = "gone",
         handler'[h].phase = "changing" =>
           /\ handler'[h].source \in Handlers
           /\ session[handler'[h].source].state # "none"
           /\ session[handler'[h].source].user = handler'[h].user,
         handler'[h].source # NoOne /\ handler'[h].phase \in {"exchanging", "claimed", "granting", "verified"} =>
           \A g \in Handlers :
             /\ handler'[h].source = g => code'[g].state # "live"
             /\ g # h /\ Spends(g) => handler[g].source # handler'[h].source
  PROVE  Accounts' /\ Sources' /\ Spending'
  <1>i. Accounts /\ Sources /\ Spending
    BY Zenon DEF SignInInv
  <1>n. session[h].state = "none" /\ code[h].state = "none"
    BY Zenon, <1>i DEF Sources
  <1>1. Accounts'
    <2>1. ASSUME NEW g \in Handlers
          PROVE  /\ handler'[g].phase \in {"verified", "granting", "changing"} => KnownUser(handler[g].user)'
                 /\ handler'[g].phase = "claimed" => handler'[g].subject \in Subjects
      BY Zenon, <1>i DEF Accounts, SameHandler, AccountsStay, KnownUser
    <2>2. ASSUME NEW g \in Handlers
          PROVE  /\ session'[g].state # "none" => KnownUser(session[g].user)'
                 /\ code'[g].state # "none" => KnownUser(code[g].user)'
      BY Zenon, <1>i DEF Accounts, RowsStay, AccountsStay, KnownUser
    <2> QED BY Zenon, <2>1, <2>2 DEF Accounts, AccountsStay
  <1>2. Sources'
    <2>1. ASSUME NEW g \in Handlers
          PROVE  /\ handler'[g].phase \in {"idle", "setup"} => handler'[g].source = NoOne
                 /\ session'[g].state # "none" \/ code'[g].state # "none" => handler'[g].phase = "done"
                 /\ handler'[g].source \in Handlers => handler'[handler'[g].source].phase = "done"
                 /\ handler'[g].source \in Requests => request'[handler'[g].source].state = "gone"
                 /\ handler'[g].phase = "changing" =>
                      /\ handler'[g].source \in Handlers
                      /\ session'[handler'[g].source].state # "none"
                      /\ session'[handler'[g].source].user = handler'[g].user
      <3>1. CASE g = h
        <4>1. \A k \in Handlers : handler[k].phase = "done" => handler'[k].phase = "done"
          BY Zenon DEF SameHandler
        <4> QED BY Zenon, <1>n, <3>1, <4>1 DEF RowsStay
      <3>2. CASE g # h
        <4>1. \A k \in Handlers : handler[k].phase = "done" => handler'[k].phase = "done"
          BY Zenon DEF SameHandler
        <4>2. SameHandler(g)
          BY Zenon, <3>2
        <4>3. PICK k : k = handler[g].source
          OBVIOUS
        <4>4. handler'[g].source = k /\ handler'[g].phase = handler[g].phase /\ handler'[g].user = handler[g].user
          BY Zenon, <4>2, <4>3 DEF SameHandler
        <4>5. /\ handler[g].phase \in {"idle", "setup"} => k = NoOne
              /\ session[g].state # "none" \/ code[g].state # "none" => handler[g].phase = "done"
              /\ k \in Handlers => handler[k].phase = "done"
              /\ k \in Requests => request[k].state = "gone"
              /\ handler[g].phase = "changing" =>
                   k \in Handlers /\ session[k].state # "none" /\ session[k].user = handler[g].user
          BY Zenon, <1>i, <4>3 DEF Sources
        <4>6. /\ session'[g].state # "none" \/ code'[g].state # "none" => handler[g].phase = "done"
              /\ k \in Handlers => handler'[k].phase = "done"
              /\ k \in Requests => request'[k].state = "gone"
              /\ handler[g].phase = "changing" =>
                   k \in Handlers /\ session'[k].state # "none" /\ session'[k].user = handler[g].user
          BY Zenon, <4>1, <4>5 DEF RowsStay, RequestsStay
        <4> QED BY Zenon, <4>4, <4>5, <4>6
      <3> QED BY Zenon, <3>1, <3>2
    <2> QED BY Zenon, <2>1 DEF Sources
  <1>3. Spending'
    <2>1. \A g \in Handlers : g # h => (Spends(g)' <=> Spends(g))
      BY Zenon DEF Spends, SameHandler
    <2>2. Spends(h)' => handler'[h].source # NoOne /\ handler'[h].phase \in {"exchanging", "claimed", "granting", "verified"}
      BY Zenon, <1>n DEF Spends
    <2>3. ASSUME NEW g \in Handlers, NEW k \in Handlers
          PROVE  /\ Spends(k)' /\ handler'[k].source = g => code'[g].state # "live"
                 /\ Spends(g)' /\ Spends(k)' /\ handler'[g].source = handler'[k].source => g = k
      <3>1. CASE g # h /\ k # h
        <4>1. /\ Spends(k) /\ handler[k].source = g => code[g].state # "live"
              /\ Spends(g) /\ Spends(k) /\ handler[g].source = handler[k].source => g = k
          BY Zenon, <1>i DEF Spending
        <4> QED BY Zenon, <2>1, <3>1, <4>1 DEF SameHandler, RowsStay
      <3>2. CASE g # h /\ k = h
        BY Zenon, <2>1, <2>2, <3>2 DEF SameHandler
      <3>3. CASE g = h /\ k # h
        <4>1. Spends(k) /\ handler[k].source = g => code[g].state # "live"
          BY Zenon, <1>i DEF Spending
        <4>2. code'[g].state = "live" => code[g].state = "live"
          BY Zenon DEF RowsStay
        <4>3. handler'[k].source = handler[k].source
          BY Zenon, <3>3 DEF SameHandler
        <4> QED BY Zenon, <2>1, <2>2, <3>3, <4>1, <4>2, <4>3
      <3>4. CASE g = h /\ k = h
        BY Zenon, <2>2, <3>4
      <3> QED BY Zenon, <3>1, <3>2, <3>3, <3>4
    <2> QED BY Zenon, <2>3 DEF Spending
  <1> QED BY Zenon, <1>1, <1>2, <1>3

\* Rows are revoked or expire, accounts change, and handlers at most end.
LEMMA RowsMove ==
  ASSUME SignInInv, AccountsStay, RequestsStay, RowsStay(session, session'), RowsStay(code, code'),
         \A g \in Handlers :
           /\ handler'[g].phase = handler[g].phase \/ handler'[g].phase = "done"
           /\ handler'[g].user = handler[g].user
           /\ handler'[g].subject = handler[g].subject
           /\ handler'[g].source = handler[g].source
  PROVE  Accounts' /\ Sources' /\ Spending'
  <1>i. Accounts /\ Sources /\ Spending
    BY Zenon DEF SignInInv
  <1>l. "done" \notin {"verified", "granting", "changing"} /\ "done" # "claimed" /\ "done" \notin {"idle", "setup"}
        /\ "done" \notin {"exchanging", "claimed", "granting", "verified"} /\ "done" # "changing"
    OBVIOUS
  <1>1. Accounts'
    <2>1. ASSUME NEW g \in Handlers
          PROVE  /\ handler'[g].phase \in {"verified", "granting", "changing"} => KnownUser(handler[g].user)'
                 /\ handler'[g].phase = "claimed" => handler'[g].subject \in Subjects
                 /\ session'[g].state # "none" => KnownUser(session[g].user)'
                 /\ code'[g].state # "none" => KnownUser(code[g].user)'
      BY Zenon, <1>i, <1>l DEF Accounts, RowsStay, AccountsStay, KnownUser
    <2> QED BY Zenon, <2>1 DEF Accounts, AccountsStay
  <1>2. Sources'
    <2>1. ASSUME NEW g \in Handlers
          PROVE  /\ handler'[g].phase \in {"idle", "setup"} => handler'[g].source = NoOne
                 /\ session'[g].state # "none" \/ code'[g].state # "none" => handler'[g].phase = "done"
                 /\ handler'[g].source \in Handlers => handler'[handler'[g].source].phase = "done"
                 /\ handler'[g].source \in Requests => request'[handler'[g].source].state = "gone"
                 /\ handler'[g].phase = "changing" =>
                      /\ handler'[g].source \in Handlers
                      /\ session'[handler'[g].source].state # "none"
                      /\ session'[handler'[g].source].user = handler'[g].user
      <3>1. PICK k : k = handler[g].source
        OBVIOUS
      <3>2. handler'[g].source = k /\ handler'[g].user = handler[g].user
        BY Zenon, <3>1
      <3>3. /\ handler[g].phase \in {"idle", "setup"} => k = NoOne
            /\ session[g].state # "none" \/ code[g].state # "none" => handler[g].phase = "done"
            /\ k \in Handlers => handler[k].phase = "done"
            /\ k \in Requests => request[k].state = "gone"
            /\ handler[g].phase = "changing" =>
                 k \in Handlers /\ session[k].state # "none" /\ session[k].user = handler[g].user
        BY Zenon, <1>i, <3>1 DEF Sources
      <3>4. /\ handler'[g].phase \in {"idle", "setup"} => k = NoOne
            /\ session'[g].state # "none" \/ code'[g].state # "none" => handler'[g].phase = "done"
            /\ k \in Handlers => handler'[k].phase = "done"
            /\ k \in Requests => request'[k].state = "gone"
            /\ handler'[g].phase = "changing" =>
                 k \in Handlers /\ session'[k].state # "none" /\ session'[k].user = handler[g].user
        BY Zenon, <1>l, <3>3 DEF RowsStay, RequestsStay
      <3> QED BY Zenon, <3>2, <3>4
    <2> QED BY Zenon, <2>1 DEF Sources
  <1>3. Spending'
    <2>1. \A g \in Handlers : Spends(g)' => Spends(g)
      BY Zenon, <1>l DEF Spends, RowsStay
    <2>2. \A g \in Handlers : code'[g].state = "live" => code[g].state = "live"
      BY Zenon DEF RowsStay
    <2> QED BY Zenon, <1>i, <2>1, <2>2 DEF Spending
  <1> QED BY Zenon, <1>1, <1>2, <1>3

-----------------------------------------------------------------------------
(* Steps of one handler                                                    *)

LEMMA TypesNext == Typed' /\ Accounts' => TypeOK'
  BY Zenon DEF TypeOK, Typed, Handler, User, Request, Phases, Accounts, KnownUser

\* Accounts and sessions as they were, and no setup begun.
LEMMA QuietStep ==
  ASSUME SignInInv, users' = users, session' = session,
         \A g \in Handlers : handler'[g].phase = "setup" /\ ~handler'[g].raced
                               => handler[g].phase = "setup" /\ ~handler[g].raced
  PROVE  SessionsAreCurrent' /\ Administrators'
  BY Zenon DEF SignInInv, SessionsAreCurrent, Administrators

LEMMA QuietAccounts ==
  ASSUME SignInInv, UNCHANGED <<users, identity>>
  PROVE  AccountsStay
  BY Zenon DEF SignInInv, Accounts, AccountsStay, KnownUser, Exists

LEMMA PhaseMoves ==
  ASSUME handler \in [Handlers -> Handler], NEW h \in Handlers, NEW p \in Phases, Becomes(h, p)
  PROVE  /\ handler' \in [Handlers -> Handler]
         /\ \A g \in Handlers : g # h => handler'[g] = handler[g]
         /\ handler'[h].phase = p
         /\ handler'[h].user = handler[h].user /\ handler'[h].subject = handler[h].subject
         /\ handler'[h].source = handler[h].source /\ handler'[h].raced = handler[h].raced
         /\ handler'[h].kind = handler[h].kind /\ handler'[h].hash = handler[h].hash
  BY DEF Becomes, Handler

LEMMA HandlerMoved ==
  ASSUME handler \in [Handlers -> Handler], NEW h \in Handlers, NEW r \in Handler,
         handler' = [handler EXCEPT ![h] = r]
  PROVE  /\ handler' \in [Handlers -> Handler] /\ handler'[h] = r
         /\ \A g \in Handlers : g # h => handler'[g] = handler[g] /\ SameHandler(g)
  BY Zenon DEF SameHandler

LEMMA BeginSetupKeeps ==
  ASSUME SignInInv, NEW h \in Handlers, BeginSetup(h) \/ HandlerFails(h)
  PROVE  SignInInv'
  <1>t. Typed
    BY Zenon, Types DEF SignInInv
  <1>u. UNCHANGED <<users, identity, request, session, code, hashes>>
    BY Zenon DEF BeginSetup, HandlerFails
  <1>1. PICK p \in {"done", "setup"} : Becomes(h, p) /\ (p = "setup" => ~Initialized /\ handler[h].phase = "idle")
    BY Zenon DEF BeginSetup, HandlerFails
  <1>2. p \in Phases /\ (p = "setup" \/ p \notin {"idle", "setup"}) /\ p \notin {"verified", "granting", "changing"} /\ p # "claimed"
        /\ p \notin {"exchanging", "claimed", "granting", "verified"} /\ p # "changing"
    BY DEF Phases
  <1>3. handler[h].phase # "done"
    BY DEF BeginSetup, HandlerFails
  <1>4. /\ handler' \in [Handlers -> Handler]
        /\ \A g \in Handlers : g # h => handler'[g] = handler[g]
        /\ handler'[h].phase = p /\ handler'[h].source = handler[h].source
    BY Zenon, <1>t, <1>1, <1>2, PhaseMoves DEF Typed
  <1>5. Accounts' /\ Sources' /\ Spending'
    <2>1. PICK q : q = handler[h].source
      OBVIOUS
    <2>2. /\ q \in Handlers => handler[q].phase = "done"
          /\ q \in Requests => request'[q].state = "gone"
          /\ p = "setup" => q = NoOne
      BY Zenon, <1>u, <1>1, <2>1 DEF SignInInv, Sources
    <2>3. handler'[h].source = q
      BY Zenon, <1>4, <2>1
    <2>4. AccountsStay /\ RequestsStay /\ RowsStay(code, code')
      BY Zenon, <1>u, QuietAccounts DEF RequestsStay, RowsStay
    <2>5. \A g \in Handlers : g # h => SameHandler(g)
      BY Zenon, <1>4 DEF SameHandler
    <2> QED BY Zenon, <1>u, <1>2, <1>3, <1>4, <2>2, <2>3, <2>4, <2>5, HandlerMoves
  <1>6. SessionsAreCurrent' /\ Administrators'
    <2>1. SessionsAreCurrent'
      BY Zenon, <1>u DEF SignInInv, SessionsAreCurrent
    <2>2. p = "setup" => \A u \in Users : users[u].role = "none"
      BY Zenon, <1>1 DEF Initialized, Exists
    <2>3. Administrators'
      BY Zenon, <1>u, <1>4, <2>2 DEF SignInInv, Administrators
    <2> QED BY Zenon, <2>1, <2>3
  <1> QED BY Zenon, <1>t, <1>u, <1>4, <1>5, <1>6, TypesNext DEF SignInInv, Typed

LEMMA VerifiedKeeps ==
  ASSUME SignInInv, NEW h \in Handlers, NEW u \in Users, NEW kind \in {"web", "native"}, Verified(h, u, kind)
  PROVE  SignInInv'
  <1>t. Typed
    BY Zenon, Types DEF SignInInv
  <1>u. UNCHANGED <<users, identity, request, session, code, hashes>> /\ Exists(u) /\ handler[h].phase = "idle"
    BY Zenon DEF Verified
  <1>1. PICK r : r = [handler[h] EXCEPT !.phase = "verified", !.kind = kind, !.user = u, !.hash = users[u].hash]
    OBVIOUS
  <1>2. handler' = [handler EXCEPT ![h] = r]
    BY Zenon, <1>1 DEF Verified
  <1>3. handler[h] \in Handler /\ users[u].hash \in 0..MaxHash
    BY <1>t DEF Typed, User
  <1>4. /\ r \in Handler /\ r.phase = "verified" /\ r.user = u /\ r.source = handler[h].source
    BY Zenon, <1>1, <1>3 DEF Handler, Phases
  <1>5. handler[h].source = NoOne
    BY Zenon, <1>u DEF SignInInv, Sources
  <1>6. NoOne \notin Handlers /\ NoOne \notin Requests /\ "idle" # "done" /\ "verified" \notin {"idle", "claimed", "changing", "setup"}
    BY SignInAssumption
  <1>7. /\ handler' \in [Handlers -> Handler] /\ handler'[h] = r
        /\ \A g \in Handlers : g # h => handler'[g] = handler[g] /\ SameHandler(g)
    BY Zenon, <1>t, <1>2, <1>4, HandlerMoved DEF Typed
  <1>8. Accounts' /\ Sources' /\ Spending'
    <2>1. AccountsStay /\ RequestsStay /\ RowsStay(code, code')
      BY Zenon, <1>u, QuietAccounts DEF RequestsStay, RowsStay
    <2>2. KnownUser(handler[h].user)'
      BY Zenon, <1>u, <1>4, <1>7 DEF KnownUser, Exists
    <2> QED BY Zenon, <1>u, <1>4, <1>5, <1>6, <1>7, <2>1, <2>2, HandlerMoves
  <1>9. SessionsAreCurrent' /\ Administrators'
    BY Zenon, <1>u, <1>4, <1>7, QuietStep
  <1> QED BY Zenon, <1>t, <1>u, <1>7, <1>8, <1>9, TypesNext DEF SignInInv, Typed

LEMMA ConsumeOIDCRequestKeeps ==
  ASSUME SignInInv, NEW h \in Handlers, NEW q \in Requests, ConsumeOIDCRequest(h, q)
  PROVE  SignInInv'
  <1>t. Typed
    BY Zenon, Types DEF SignInInv
  <1>u. UNCHANGED <<users, identity, session, code, hashes>> /\ handler[h].phase = "idle" /\ request[q].state = "open"
    BY Zenon DEF ConsumeOIDCRequest
  <1>1. PICK r : r = [handler[h] EXCEPT !.phase = "exchanging", !.kind = request[q].kind, !.source = q]
    OBVIOUS
  <1>2. handler' = [handler EXCEPT ![h] = r] /\ request' = [request EXCEPT ![q].state = "gone"]
    BY Zenon, <1>1 DEF ConsumeOIDCRequest
  <1>3. handler[h] \in Handler /\ request[q] \in Request
    BY Zenon, <1>t DEF Typed
  <1>4. /\ r \in Handler /\ r.phase = "exchanging" /\ r.source = q
    BY Zenon, <1>1, <1>3 DEF Handler, Request, Phases
  <1>5. /\ request' \in [Requests -> Request] /\ request'[q].state = "gone"
        /\ \A p \in Requests : p # q => request'[p] = request[p]
    BY <1>t, <1>2 DEF Typed, Request
  <1>6. q \notin Handlers /\ "idle" # "done" /\ "open" # "gone"
        /\ "exchanging" \notin {"idle", "claimed", "verified", "granting", "changing", "setup"}
    BY SignInAssumption
  <1>7. /\ handler' \in [Handlers -> Handler] /\ handler'[h] = r
        /\ \A g \in Handlers : g # h => handler'[g] = handler[g] /\ SameHandler(g)
    BY Zenon, <1>t, <1>2, <1>4, HandlerMoved DEF Typed
  <1>8. \A g \in Handlers : handler[g].source # q
    BY Zenon, <1>u, <1>6 DEF SignInInv, Sources
  <1>9. Accounts' /\ Sources' /\ Spending'
    <2>1. AccountsStay /\ RequestsStay /\ RowsStay(code, code')
      BY Zenon, <1>u, <1>5, QuietAccounts DEF RequestsStay, RowsStay
    <2>2. /\ handler'[h].phase \notin {"idle", "claimed", "verified", "granting", "changing", "setup"}
          /\ handler'[h].source = q
      BY Zenon, <1>4, <1>6, <1>7
    <2> QED BY Zenon, <1>u, <1>5, <1>6, <1>7, <1>8, <2>1, <2>2, HandlerMoves
  <1>10. SessionsAreCurrent' /\ Administrators'
    BY Zenon, <1>u, <1>4, <1>6, <1>7, QuietStep
  <1> QED BY Zenon, <1>t, <1>u, <1>5, <1>7, <1>9, <1>10, TypesNext DEF SignInInv, Typed

LEMMA ExchangeKeeps ==
  ASSUME SignInInv, NEW h \in Handlers, NEW s \in Subjects, Exchange(h, s)
  PROVE  SignInInv'
  <1>t. Typed
    BY Zenon, Types DEF SignInInv
  <1>u. UNCHANGED <<users, identity, request, session, code, hashes>> /\ handler[h].phase = "exchanging"
    BY Zenon DEF Exchange
  <1>1. PICK r : r = [handler[h] EXCEPT !.phase = "claimed", !.subject = s]
    OBVIOUS
  <1>2. handler[h] \in Handler
    BY Zenon, <1>t DEF Typed
  <1>3. handler' = [handler EXCEPT ![h] = r]
    BY Zenon, <1>1 DEF Exchange
  <1>4. /\ r \in Handler /\ r.phase = "claimed" /\ r.source = handler[h].source /\ r.subject = s
    BY Zenon, <1>1, <1>2 DEF Handler, Phases
  <1>6. "exchanging" # "done" /\ "claimed" \notin {"idle", "verified", "granting", "changing", "setup"}
    OBVIOUS
  <1>7. /\ handler' \in [Handlers -> Handler] /\ handler'[h] = r
        /\ \A g \in Handlers : g # h => handler'[g] = handler[g] /\ SameHandler(g)
    BY Zenon, <1>t, <1>3, <1>4, HandlerMoved DEF Typed
  <1>8. Accounts' /\ Sources' /\ Spending'
    <2>1. PICK q : q = handler[h].source
      OBVIOUS
    <2>2. /\ q \in Handlers => handler[q].phase = "done"
          /\ q \in Requests => request'[q].state = "gone"
      BY Zenon, <1>u, <2>1 DEF SignInInv, Sources
    <2>3. /\ handler'[h].phase \notin {"idle", "verified", "granting", "changing", "setup"}
          /\ handler'[h].source = q /\ handler'[h].subject \in Subjects
      BY Zenon, <1>4, <1>6, <1>7, <2>1
    <2>4. AccountsStay /\ RequestsStay /\ RowsStay(code, code')
      BY Zenon, <1>u, QuietAccounts DEF RequestsStay, RowsStay
    <2>5. q # NoOne => \A g \in Handlers :
             /\ q = g => code'[g].state # "live"
             /\ g # h /\ Spends(g) => handler[g].source # q
      BY Zenon, <1>u, <2>1 DEF SignInInv, Spending, Spends
    <2> QED BY Zenon, <1>u, <1>6, <1>7, <2>2, <2>3, <2>4, <2>5, HandlerMoves
  <1>9. SessionsAreCurrent' /\ Administrators'
    BY Zenon, <1>u, <1>4, <1>6, <1>7, QuietStep
  <1> QED BY Zenon, <1>t, <1>u, <1>7, <1>8, <1>9, TypesNext DEF SignInInv, Typed

LEMMA NativeExchangeKeeps ==
  ASSUME SignInInv, NEW h \in Handlers, NEW c \in Handlers, NativeExchange(h, c)
  PROVE  SignInInv'
  <1>t. Typed
    BY Zenon, Types DEF SignInInv
  <1>u. UNCHANGED <<users, identity, request, session, hashes>> /\ handler[h].phase = "idle" /\ code[c].state = "live"
    BY Zenon DEF NativeExchange, ConsumeNativeAuthCode
  <1>a. KnownUser(code[c].user) /\ handler[c].phase = "done"
    BY <1>u DEF SignInInv, Accounts, Sources
  <1>1. PICK p \in {"done", "verified"} : p = IF users[code[c].user].disabled THEN "done" ELSE "verified"
    OBVIOUS
  <1>2. PICK r : r = [handler[h] EXCEPT !.kind = "native", !.user = code[c].user,
                                        !.hash = users[code[c].user].hash, !.source = c, !.phase = p]
    OBVIOUS
  <1>3. handler' = [handler EXCEPT ![h] = r] /\ code' = [code EXCEPT ![c].state = "gone"]
    BY Zenon, <1>1, <1>2 DEF NativeExchange, ConsumeNativeAuthCode, Consume
  <1>4. handler[h] \in Handler /\ users[code[c].user] \in User /\ code[c].user \in Users
    BY Zenon, <1>t, <1>a DEF Typed, KnownUser
  <1>5. r \in Handler /\ r.phase = p /\ r.source = c /\ r.user = code[c].user
    BY Zenon, <1>2, <1>4 DEF Handler, User, Phases
  <1>6. /\ code' \in [Handlers -> Row] /\ code'[c].state = "gone" /\ code'[c].user = code[c].user
        /\ \A k \in Handlers : k # c => code'[k] = code[k]
    <2>1. PICK row : row = [code[c] EXCEPT !.state = "gone"]
      BY Zenon
    <2>2. code \in [Handlers -> Row] /\ code[c] \in Row
      BY Zenon, <1>t DEF Typed
    <2>3. row \in Row /\ row.state = "gone" /\ row.user = code[c].user
      BY <2>1, <2>2 DEF Row
    <2>4. code' = [code EXCEPT ![c] = row]
      BY Zenon, <1>3, <2>1
    <2> QED BY Zenon, <2>2, <2>3, <2>4
  <1>7. /\ handler' \in [Handlers -> Handler] /\ handler'[h] = r
        /\ \A g \in Handlers : g # h => handler'[g] = handler[g] /\ SameHandler(g)
    BY Zenon, <1>t, <1>3, <1>5, HandlerMoved DEF Typed
  <1>8. c \notin Requests /\ "idle" # "done" /\ "gone" # "live" /\ "gone" # "none" /\ "live" # "none"
        /\ p \notin {"idle", "claimed", "granting", "changing", "setup"} /\ c # NoOne
    BY SignInAssumption
  <1>9. Accounts' /\ Sources' /\ Spending'
    <2>1. AccountsStay /\ RequestsStay
      BY Zenon, <1>u, QuietAccounts DEF RequestsStay
    <2>2. RowsStay(code, code')
      BY Zenon, <1>u, <1>6, <1>8 DEF RowsStay
    <2>3. /\ handler'[h].phase \notin {"idle", "claimed", "granting", "changing", "setup"}
          /\ handler'[h].source = c
      BY Zenon, <1>5, <1>7, <1>8
    <2>4. KnownUser(handler[h].user)'
      BY Zenon, <1>u, <1>a, <1>5, <1>7 DEF KnownUser, Exists
    <2>5. \A g \in Handlers : Spends(g) => handler[g].source # c
      BY Zenon, <1>u DEF SignInInv, Spending
    <2> QED BY Zenon, <1>u, <1>a, <1>6, <1>7, <1>8, <2>1, <2>2, <2>3, <2>4, <2>5, HandlerMoves
  <1>10. SessionsAreCurrent' /\ Administrators'
    BY Zenon, <1>u, <1>5, <1>7, <1>8, QuietStep
  <1> QED BY Zenon, <1>t, <1>u, <1>6, <1>7, <1>9, <1>10, TypesNext DEF SignInInv, Typed

LEMMA BeginPasswordChangeKeeps ==
  ASSUME SignInInv, NEW h \in Handlers, NEW k \in Handlers, BeginPasswordChange(h, k)
  PROVE  SignInInv'
  <1>t. Typed
    BY Zenon, Types DEF SignInInv
  <1>u. UNCHANGED <<users, identity, request, session, code, hashes>> /\ handler[h].phase = "idle" /\ session[k].state = "live"
    BY Zenon DEF BeginPasswordChange, Live
  <1>a. KnownUser(session[k].user) /\ handler[k].phase = "done"
    BY <1>u DEF SignInInv, Accounts, Sources
  <1>1. PICK r : r = [handler[h] EXCEPT !.phase = "changing", !.source = k, !.user = session[k].user]
    OBVIOUS
  <1>2. handler' = [handler EXCEPT ![h] = r]
    BY Zenon, <1>1 DEF BeginPasswordChange
  <1>3. handler[h] \in Handler /\ session[k].user \in Users
    BY Zenon, <1>t, <1>a DEF Typed, KnownUser
  <1>4. r \in Handler /\ r.phase = "changing" /\ r.source = k /\ r.user = session[k].user
    BY Zenon, <1>1, <1>3 DEF Handler, Phases
  <1>5. /\ handler' \in [Handlers -> Handler] /\ handler'[h] = r
        /\ \A g \in Handlers : g # h => handler'[g] = handler[g] /\ SameHandler(g)
    BY Zenon, <1>t, <1>2, <1>4, HandlerMoved DEF Typed
  <1>6. k \notin Requests /\ "idle" # "done" /\ "live" # "none"
        /\ "changing" \notin {"idle", "claimed", "granting", "exchanging", "verified", "setup"}
    BY SignInAssumption
  <1>7. Accounts' /\ Sources' /\ Spending'
    <2>1. AccountsStay /\ RequestsStay /\ RowsStay(code, code')
      BY Zenon, <1>u, QuietAccounts DEF RequestsStay, RowsStay
    <2>2. /\ handler'[h].phase \notin {"idle", "claimed", "granting", "exchanging", "verified", "setup"}
          /\ handler'[h].source = k /\ handler'[h].user = session[k].user
      BY Zenon, <1>4, <1>5, <1>6
    <2>3. KnownUser(handler[h].user)'
      BY Zenon, <1>u, <1>a, <1>4, <1>5 DEF KnownUser, Exists
    <2> QED BY Zenon, <1>u, <1>a, <1>5, <1>6, <2>1, <2>2, <2>3, HandlerMoves
  <1>8. SessionsAreCurrent' /\ Administrators'
    BY Zenon, <1>u, <1>4, <1>5, <1>6, QuietStep
  <1> QED BY Zenon, <1>t, <1>u, <1>5, <1>7, <1>8, TypesNext DEF SignInInv, Typed

-----------------------------------------------------------------------------
(* Sessions and codes are issued                                           *)

\* A handler ends with a session or a code for the account it acts for.
LEMMA HandlerIssues ==
  ASSUME SignInInv, NEW h \in Handlers, handler[h].phase \in {"verified", "granting"}, Becomes(h, "done"),
         UNCHANGED <<users, identity, request, hashes>>,
         session' \in [Handlers -> Row], code' \in [Handlers -> Row],
         \A k \in Handlers : k # h => session'[k] = session[k] /\ code'[k] = code[k],
         session'[h].state # "none" => session'[h].user = handler[h].user,
         code'[h].state # "none" => code'[h].user = handler[h].user
  PROVE  TypeOK' /\ Accounts' /\ Sources' /\ Spending' /\ Administrators'
  <1>t. Typed
    BY Zenon, Types DEF SignInInv
  <1>i. Accounts /\ Sources /\ Spending
    BY Zenon DEF SignInInv
  <1>l. /\ "done" \notin {"verified", "granting", "changing", "exchanging", "claimed", "idle", "setup"}
        /\ handler[h].phase # "done" /\ "done" \in Phases
    BY DEF Phases
  <1>1. /\ handler' \in [Handlers -> Handler]
        /\ \A g \in Handlers : g # h => handler'[g] = handler[g]
        /\ handler'[h].phase = "done" /\ handler'[h].source = handler[h].source
    BY Zenon, <1>t, <1>l, PhaseMoves DEF Typed
  <1>2. KnownUser(handler[h].user)
    BY <1>i DEF Accounts
  <1>3. Accounts'
    <2>1. \A u : KnownUser(u)' <=> KnownUser(u)
      BY Zenon DEF KnownUser, Exists
    <2>2. ASSUME NEW g \in Handlers
          PROVE  /\ handler'[g].phase \in {"verified", "granting", "changing"} => KnownUser(handler[g].user)'
                 /\ handler'[g].phase = "claimed" => handler'[g].subject \in Subjects
                 /\ session'[g].state # "none" => KnownUser(session[g].user)'
                 /\ code'[g].state # "none" => KnownUser(code[g].user)'
      <3>1. CASE g = h
        BY Zenon, <1>l, <1>1, <1>2, <3>1 DEF KnownUser, Exists
      <3>2. CASE g # h
        BY Zenon, <1>i, <1>1, <3>2 DEF Accounts, KnownUser, Exists
      <3> QED BY Zenon, <3>1, <3>2
    <2>3. \A s \in Subjects : identity'[s] # NoOne => KnownUser(identity[s])'
      BY Zenon, <1>i DEF Accounts, KnownUser, Exists
    <2> QED BY Zenon, <2>2, <2>3 DEF Accounts
  <1>4. ASSUME NEW g \in Handlers PROVE handler'[g].source = handler[g].source /\ handler[g].source # h
    BY Zenon, <1>i, <1>l, <1>1 DEF Sources
  <1>5. Sources'
    <2>1. ASSUME NEW g \in Handlers, NEW k, k = handler[g].source
          PROVE  /\ handler'[g].phase \in {"idle", "setup"} => k = NoOne
                 /\ session'[g].state # "none" \/ code'[g].state # "none" => handler'[g].phase = "done"
                 /\ k \in Handlers => handler'[k].phase = "done"
                 /\ k \in Requests => request'[k].state = "gone"
                 /\ handler'[g].phase = "changing" =>
                      k \in Handlers /\ session'[k].state # "none" /\ session'[k].user = handler'[g].user
      <3>1. /\ handler[g].phase \in {"idle", "setup"} => k = NoOne
            /\ session[g].state # "none" \/ code[g].state # "none" => handler[g].phase = "done"
            /\ k \in Handlers => handler[k].phase = "done"
            /\ k \in Requests => request[k].state = "gone"
            /\ handler[g].phase = "changing" =>
                 k \in Handlers /\ session[k].state # "none" /\ session[k].user = handler[g].user
        BY Zenon, <1>i, <2>1 DEF Sources
      <3>2. k # h
        BY Zenon, <1>4, <2>1
      <3>3. CASE g = h
        BY Zenon, <1>l, <1>1, <3>1, <3>2, <3>3
      <3>4. CASE g # h
        BY Zenon, <1>1, <3>1, <3>2, <3>4
      <3> QED BY Zenon, <3>3, <3>4
    <2>2. \A g \in Handlers : handler'[g].source = handler[g].source
      BY Zenon, <1>4
    <2> QED BY <2>1, <2>2 DEF Sources
  <1>6. Spending'
    <2>1. ASSUME NEW g \in Handlers PROVE Spends(g)' => Spends(g)
      BY <1>1 DEF Spends
    <2> QED BY Zenon, <1>i, <1>4, <2>1 DEF Spending
  <1>7. Administrators'
    BY Zenon, <1>l, <1>1 DEF SignInInv, Administrators
  <1> QED BY Zenon, <1>t, <1>1, <1>3, <1>5, <1>6, <1>7, TypesNext DEF Typed

LEMMA CreateVerifiedLoginSessionKeeps ==
  ASSUME SignInInv, NEW h \in Handlers, CreateVerifiedLoginSession(h)
  PROVE  SignInInv'
  <1>t. Typed
    BY Zenon, Types DEF SignInInv
  <1>1. PICK r : r = [state |-> "live", kind |-> handler[h].kind, user |-> handler[h].user, hash |-> handler[h].hash]
    BY Zenon
  <1>2. handler[h] \in Handler
    BY Zenon, <1>t DEF Typed
  <1>3. r \in Row /\ r.user = handler[h].user /\ r.hash = handler[h].hash
    BY <1>1, <1>2 DEF Handler, Row
  <1>4. /\ handler[h].phase \in {"verified", "granting"} /\ Becomes(h, "done")
        /\ UNCHANGED <<users, identity, request, code, hashes>>
        /\ session' = IF StillVerified(h) THEN [session EXCEPT ![h] = r] ELSE session
    BY Zenon, <1>1 DEF CreateVerifiedLoginSession
  <1>5. handler[h].phase # "done" /\ session[h].state = "none" /\ code[h].state = "none"
    BY <1>4 DEF SignInInv, Sources
  <1>6. /\ session' \in [Handlers -> Row]
        /\ \A k \in Handlers : k # h => session'[k] = session[k]
        /\ session'[h] = IF StillVerified(h) THEN r ELSE session[h]
    BY Zenon, <1>t, <1>3, <1>4 DEF Typed
  <1>7. TypeOK' /\ Accounts' /\ Sources' /\ Spending' /\ Administrators'
    <2>1. session'[h].state # "none" => session'[h].user = handler[h].user
      BY Zenon, <1>3, <1>5, <1>6
    <2>2. code' = code /\ code' \in [Handlers -> Row]
      BY Zenon, <1>t, <1>4 DEF Typed
    <2> QED BY Zenon, <1>4, <1>5, <1>6, <2>1, <2>2, HandlerIssues
  <1>8. SessionsAreCurrent'
    <2>1. "none" # "live"
      OBVIOUS
    <2>2. ASSUME NEW k \in Handlers, session'[k].state = "live"
          PROVE  /\ ~users[session'[k].user].disabled
                 /\ session'[k].hash = users[session'[k].user].hash
      <3>1. CASE k # h
        BY Zenon, <1>6, <2>2, <3>1 DEF SignInInv, SessionsAreCurrent
      <3>2. CASE k = h
        BY Zenon, <1>3, <1>5, <1>6, <2>1, <2>2, <3>2 DEF StillVerified
      <3> QED BY Zenon, <3>1, <3>2
    <2> QED BY Zenon, <1>4, <2>2 DEF SessionsAreCurrent
  <1> QED BY Zenon, <1>7, <1>8 DEF SignInInv

LEMMA FinishNativeOIDCKeeps ==
  ASSUME SignInInv, NEW h \in Handlers, FinishNativeOIDC(h)
  PROVE  SignInInv'
  <1>t. Typed
    BY Zenon, Types DEF SignInInv
  <1>1. PICK r : r = [state |-> "live", kind |-> "native", user |-> handler[h].user, hash |-> handler[h].hash]
    BY Zenon
  <1>2. handler[h] \in Handler
    BY Zenon, <1>t DEF Typed
  <1>3. r \in Row /\ r.user = handler[h].user
    BY <1>1, <1>2 DEF Handler, Row
  <1>4. /\ handler[h].phase \in {"verified", "granting"} /\ Becomes(h, "done")
        /\ UNCHANGED <<users, identity, request, session, hashes>>
        /\ code' = [code EXCEPT ![h] = r]
    BY Zenon, <1>1 DEF FinishNativeOIDC, CreateNativeAuthCode
  <1>5. /\ code' \in [Handlers -> Row] /\ code'[h] = r
        /\ \A k \in Handlers : k # h => code'[k] = code[k]
    BY Zenon, <1>t, <1>3, <1>4 DEF Typed
  <1>6. session' \in [Handlers -> Row] /\ session[h].state = "none"
    <2>1. handler[h].phase # "done"
      BY <1>4
    <2> QED BY Zenon, <1>t, <1>4, <2>1 DEF SignInInv, Sources, Typed
  <1>7. TypeOK' /\ Accounts' /\ Sources' /\ Spending' /\ Administrators'
    BY Zenon, <1>3, <1>4, <1>5, <1>6, HandlerIssues
  <1>8. SessionsAreCurrent'
    BY Zenon, <1>4 DEF SignInInv, SessionsAreCurrent
  <1> QED BY Zenon, <1>7, <1>8 DEF SignInInv

-----------------------------------------------------------------------------
(* Accounts are made                                                       *)

\* The new account of u; nobody had it, so no session or handler knows it.
LEMMA UserMade ==
  ASSUME SignInInv, NEW u \in Users, ~Exists(u), NEW r \in User, r.role # "none",
         users' = [users EXCEPT ![u] = r]
  PROVE  /\ users' \in [Users -> User] /\ users'[u] = r
         /\ \A v \in Users : v # u => users'[v] = users[v]
         /\ \A v \in Users : Exists(v) => Exists(v)' /\ users'[v] = users[v]
         /\ session' = session => SessionsAreCurrent'
  <1>t. Typed
    BY Zenon, Types DEF SignInInv
  <1>1. users' \in [Users -> User] /\ users'[u] = r /\ \A v \in Users : v # u => users'[v] = users[v]
    BY Zenon, <1>t DEF Typed
  <1>2. \A v \in Users : Exists(v) => Exists(v)' /\ users'[v] = users[v]
    BY Zenon, <1>1 DEF Exists
  <1>3. ASSUME session' = session PROVE SessionsAreCurrent'
    <2>1. "live" # "none"
      OBVIOUS
    <2>2. ASSUME NEW k \in Handlers, session[k].state = "live" PROVE users'[session[k].user] = users[session[k].user]
      BY Zenon, <1>2, <2>1, <2>2 DEF SignInInv, Accounts, KnownUser
    <2> QED BY Zenon, <1>3, <2>2 DEF SignInInv, SessionsAreCurrent
  <1> QED BY Zenon, <1>1, <1>2, <1>3

LEMMA CreateInitialAdminKeeps ==
  ASSUME SignInInv, NEW h \in Handlers, NEW u \in Users, CreateInitialAdmin(h, u)
  PROVE  SignInInv'
  <1>t. Typed
    BY Zenon, Types DEF SignInInv
  <1>u. /\ UNCHANGED <<identity, request, session, code>> /\ ~Exists(u)
        /\ handler[h].phase = "setup" /\ ~handler[h].raced /\ hashes' = hashes + 1 /\ hashes < MaxHash
    BY Zenon DEF CreateInitialAdmin, SerializationFailure
  <1>1. PICK a : a = [role |-> "platform_admin", hash |-> hashes + 1, disabled |-> FALSE]
    BY Zenon
  <1>2. PICK r : r = [handler[h] EXCEPT !.phase = "verified", !.user = u, !.hash = hashes + 1]
    OBVIOUS
  <1>3. hashes + 1 \in 0..MaxHash
    BY <1>t, <1>u, SignInAssumption DEF Typed
  <1>4. handler[h] \in Handler /\ \A g \in Handlers : handler[g] \in Handler
    BY Zenon, <1>t DEF Typed
  <1>5. a \in User /\ a.role = "platform_admin" /\ a.disabled = FALSE /\ a.role # "none"
    BY <1>1, <1>3 DEF User
  <1>6. r \in Handler /\ r.phase = "verified" /\ r.user = u /\ r.source = handler[h].source
    BY Zenon, <1>2, <1>3, <1>4 DEF Handler, Phases
  <1>7. /\ users' = [users EXCEPT ![u] = a]
        /\ handler' = [g \in Handlers |-> IF g = h THEN r
                          ELSE [handler[g] EXCEPT !.raced = handler[g].raced \/ handler[g].phase = "setup"]]
    BY Zenon, <1>1, <1>2 DEF CreateInitialAdmin
  <1>8. ASSUME NEW g \in Handlers, g # h
        PROVE  /\ handler'[g] \in Handler /\ SameHandler(g)
               /\ handler'[g].phase = "setup" => handler'[g].raced
    <2>1. handler'[g] = [handler[g] EXCEPT !.raced = handler[g].raced \/ handler[g].phase = "setup"]
      BY Zenon, <1>7, <1>8
    <2>2. PICK b \in BOOLEAN : b = (handler[g].raced \/ handler[g].phase = "setup")
      BY Zenon
    <2>3. handler'[g] = [handler[g] EXCEPT !.raced = b]
      BY Zenon, <2>1, <2>2
    <2>4. handler'[g] \in Handler /\ SameHandler(g) /\ handler'[g].raced = b
      BY <1>4, <2>3 DEF Handler, SameHandler
    <2> QED BY Zenon, <2>2, <2>4 DEF SameHandler
  <1>9. handler'[h] = r /\ handler' \in [Handlers -> Handler]
    <2>1. handler'[h] = r
      BY Zenon, <1>7
    <2>2. \A g \in Handlers : handler'[g] \in Handler
      BY Zenon, <1>6, <1>8, <2>1
    <2>3. handler' = [g \in Handlers |-> handler'[g]]
      BY Zenon, <1>7
    <2> QED BY Zenon, <2>1, <2>2, <2>3
  <1>10. /\ users' \in [Users -> User] /\ users'[u] = a
         /\ \A v \in Users : v # u => users'[v] = users[v]
         /\ \A v \in Users : Exists(v) => Exists(v)'
         /\ SessionsAreCurrent'
    BY Zenon, <1>u, <1>5, <1>7, UserMade
  <1>11. Accounts' /\ Sources' /\ Spending'
    <2>1. PICK q : q = handler[h].source
      OBVIOUS
    <2>2. /\ q \in Handlers => handler[q].phase = "done"
          /\ q \in Requests => request'[q].state = "gone"
      BY Zenon, <1>u, <2>1 DEF SignInInv, Sources
    <2>3. handler'[h].source = q /\ handler'[h].phase = "verified" /\ handler'[h].user = u
      BY Zenon, <1>6, <1>9, <2>1
    <2>4. AccountsStay
      BY Zenon, <1>u, <1>10 DEF SignInInv, Accounts, AccountsStay, KnownUser
    <2>5. RequestsStay /\ RowsStay(code, code')
      BY Zenon, <1>u DEF RequestsStay, RowsStay
    <2>6. KnownUser(handler[h].user)'
      BY Zenon, <1>5, <1>10, <2>3 DEF KnownUser, Exists
    <2>7. "verified" \notin {"idle", "claimed", "changing", "setup"} /\ "setup" # "done"
      OBVIOUS
    <2>8. q = NoOne
      BY Zenon, <1>u, <2>1 DEF SignInInv, Sources
    <2> QED BY Zenon, <1>u, <1>8, <2>2, <2>3, <2>4, <2>5, <2>6, <2>7, <2>8, HandlerMoves
  <1>12. Administrators'
    <2>1. \A v \in Users : users[v].role # "platform_admin"
      BY Zenon, <1>u DEF SignInInv, Administrators
    <2>2. ASSUME NEW g \in Handlers PROVE ~(handler'[g].phase = "setup" /\ ~handler'[g].raced)
      <3>1. "verified" # "setup"
        OBVIOUS
      <3> QED BY Zenon, <1>6, <1>8, <1>9, <3>1
    <2>3. \A v \in Users : users'[v].role = "platform_admin" => v = u
      BY Zenon, <1>10, <2>1
    <2> QED BY Zenon, <1>5, <1>10, <2>2, <2>3 DEF Administrators
  <1> QED BY Zenon, <1>t, <1>u, <1>3, <1>9, <1>10, <1>11, <1>12, TypesNext DEF SignInInv, Typed

LEMMA ResolveOIDCUserKeeps ==
  ASSUME SignInInv, NEW h \in Handlers, NEW u \in Users, ResolveOIDCUser(h, u)
  PROVE  SignInInv'
  <1>t. Typed
    BY Zenon, Types DEF SignInInv
  <1>u. UNCHANGED <<request, session, code, hashes>> /\ handler[h].phase = "claimed"
    BY Zenon DEF ResolveOIDCUser
  <1>1. PICK s \in Subjects : s = handler[h].subject
    BY Zenon, <1>u DEF SignInInv, Accounts
  <1>2. PICK w : w = IF identity[s] # NoOne THEN identity[s] ELSE u
    OBVIOUS
  <1>3. PICK a : a = [role |-> "user", hash |-> 0, disabled |-> FALSE]
    BY Zenon
  <1>4. a \in User /\ a.role = "user" /\ a.role # "none" /\ a.role # "platform_admin"
    BY <1>3, SignInAssumption DEF User
  <1>5. /\ identity[s] # NoOne \/ ~Exists(u)
        /\ users' = IF identity[s] # NoOne THEN users ELSE [users EXCEPT ![u] = a]
        /\ identity' = [identity EXCEPT ![s] = w]
    BY Zenon, <1>1, <1>2, <1>3 DEF ResolveOIDCUser
  <1>6. /\ w \in Users /\ (identity[s] # NoOne => Exists(w)) /\ (identity[s] = NoOne => w = u)
    BY Zenon, <1>2 DEF SignInInv, Accounts, KnownUser
  <1>7. /\ users' \in [Users -> User] /\ Exists(w)' /\ SessionsAreCurrent'
        /\ \A v \in Users : Exists(v) => Exists(v)' /\ users'[v] = users[v]
        /\ \A v \in Users : users'[v].role = "platform_admin" => users'[v] = users[v]
    <2>1. CASE identity[s] # NoOne
      <3>1. users' = users
        BY Zenon, <1>5, <2>1
      <3> QED BY Zenon, <1>t, <1>u, <1>6, <2>1, <3>1 DEF Typed, Exists, SignInInv, SessionsAreCurrent
    <2>2. CASE identity[s] = NoOne
      <3>1. users' = [users EXCEPT ![u] = a] /\ ~Exists(u) /\ w = u
        BY Zenon, <1>5, <1>6, <2>2
      <3>2. /\ users' \in [Users -> User] /\ users'[u] = a
            /\ \A v \in Users : v # u => users'[v] = users[v]
            /\ \A v \in Users : Exists(v) => Exists(v)' /\ users'[v] = users[v]
            /\ SessionsAreCurrent'
        BY Zenon, <1>u, <1>4, <3>1, UserMade
      <3> QED BY Zenon, <1>4, <3>1, <3>2 DEF Exists
    <2> QED BY Zenon, <2>1, <2>2
  <1>8. PICK b : b = users'[w]
    OBVIOUS
  <1>9. PICK p : p = OidcCallback(handler[h].kind, b)
    OBVIOUS
  <1>10. p \in {"done", "granting", "verified"}
    BY Zenon, <1>9 DEF OidcCallback
  <1>11. PICK r : r = [handler[h] EXCEPT !.user = w, !.hash = b.hash, !.phase = p]
    OBVIOUS
  <1>12. handler' = [handler EXCEPT ![h] = r]
    BY Zenon, <1>1, <1>2, <1>8, <1>9, <1>11 DEF ResolveOIDCUser
  <1>13. handler[h] \in Handler /\ b \in User
    BY Zenon, <1>t, <1>6, <1>7, <1>8 DEF Typed
  <1>14. r \in Handler /\ r.phase = p /\ r.user = w /\ r.source = handler[h].source
    BY Zenon, <1>6, <1>10, <1>11, <1>13 DEF Handler, User, Phases
  <1>15. /\ handler' \in [Handlers -> Handler] /\ handler'[h] = r
         /\ \A g \in Handlers : g # h => handler'[g] = handler[g] /\ SameHandler(g)
    BY Zenon, <1>t, <1>12, <1>14, HandlerMoved DEF Typed
  <1>16. /\ identity' \in [Subjects -> Users \cup {NoOne}] /\ identity'[s] = w
         /\ \A x \in Subjects : x # s => identity'[x] = identity[x]
    BY Zenon, <1>t, <1>5, <1>6 DEF Typed
  <1>17. p \notin {"idle", "setup", "claimed", "changing"} /\ "claimed" # "done"
    BY <1>10
  <1>18. Accounts' /\ Sources' /\ Spending'
    <2>1. PICK q : q = handler[h].source
      OBVIOUS
    <2>2. /\ q \in Handlers => handler[q].phase = "done"
          /\ q \in Requests => request'[q].state = "gone"
      BY Zenon, <1>u, <2>1 DEF SignInInv, Sources
    <2>3. handler'[h].source = q /\ handler'[h].phase = p /\ handler'[h].user = w
      BY Zenon, <1>14, <1>15, <2>1
    <2>4. AccountsStay
      <3>1. ASSUME NEW x \in Subjects, identity'[x] # NoOne PROVE KnownUser(identity[x])'
        <4>1. CASE x = s
          BY Zenon, <1>6, <1>7, <1>16, <4>1 DEF KnownUser, Exists
        <4>2. CASE x # s
          BY Zenon, <1>7, <1>16, <3>1, <4>2 DEF SignInInv, Accounts, KnownUser, Exists
        <4> QED BY Zenon, <4>1, <4>2
      <3> QED BY Zenon, <1>7, <3>1 DEF AccountsStay
    <2>5. RequestsStay /\ RowsStay(code, code')
      BY Zenon, <1>u DEF RequestsStay, RowsStay
    <2>6. KnownUser(handler[h].user)'
      BY Zenon, <1>6, <1>7, <2>3 DEF KnownUser, Exists
    <2>7. q # NoOne => \A g \in Handlers :
             /\ q = g => code'[g].state # "live"
             /\ g # h /\ Spends(g) => handler[g].source # q
      BY Zenon, <1>u, <2>1 DEF SignInInv, Spending, Spends
    <2> QED BY Zenon, <1>u, <1>15, <1>17, <2>2, <2>3, <2>4, <2>5, <2>6, <2>7, HandlerMoves
  <1>19. Administrators'
    <2>1. \A v \in Users : users'[v].role = "platform_admin" => users[v].role = "platform_admin"
                                                              /\ users'[v].disabled = users[v].disabled
      BY Zenon, <1>7
    <2>2. \A g \in Handlers : handler'[g].phase = "setup" => /\ handler[g].phase = "setup"
                                                             /\ handler'[g].raced = handler[g].raced
      BY Zenon, <1>14, <1>15, <1>17
    <2>3. \A g \in Handlers, v \in Users :
             handler'[g].phase = "setup" /\ ~handler'[g].raced => users'[v].role # "platform_admin"
      <3> TAKE g \in Handlers, v \in Users
      <3> HAVE handler'[g].phase = "setup" /\ ~handler'[g].raced
      <3>1. handler[g].phase = "setup" /\ ~handler[g].raced
        BY Zenon, <2>2
      <3>2. users[v].role # "platform_admin"
        BY Zenon, <3>1 DEF SignInInv, Administrators
      <3> QED BY Zenon, <2>1, <3>2
    <2>4. \A x, v \in Users :
             users'[x].role = "platform_admin" /\ users'[v].role = "platform_admin" => x = v
      BY Zenon, <2>1 DEF SignInInv, Administrators
    <2>5. \A v \in Users : users'[v].role = "platform_admin" => ~users'[v].disabled
      BY Zenon, <2>1 DEF SignInInv, Administrators
    <2> QED BY Zenon, <2>3, <2>4, <2>5 DEF Administrators
  <1> QED BY Zenon, <1>t, <1>u, <1>7, <1>15, <1>16, <1>18, <1>19, TypesNext DEF SignInInv, Typed

LEMMA CreateLocalUserKeeps ==
  ASSUME SignInInv, NEW u \in Users, CreateLocalUser(u)
  PROVE  SignInInv'
  <1>t. Typed
    BY Zenon, Types DEF SignInInv
  <1>u. UNCHANGED <<identity, request, handler, session, code>> /\ ~Exists(u) /\ hashes' = hashes + 1 /\ hashes < MaxHash
    BY Zenon DEF CreateLocalUser
  <1>1. PICK a : a = [role |-> "user", hash |-> hashes + 1, disabled |-> FALSE]
    BY Zenon
  <1>2. hashes + 1 \in 0..MaxHash
    BY <1>t, <1>u, SignInAssumption DEF Typed
  <1>3. a \in User /\ a.role # "none" /\ a.role # "platform_admin"
    BY <1>1, <1>2 DEF User
  <1>4. users' = [users EXCEPT ![u] = a]
    BY Zenon, <1>1 DEF CreateLocalUser
  <1>5. /\ users' \in [Users -> User] /\ users'[u] = a
        /\ \A v \in Users : v # u => users'[v] = users[v]
        /\ \A v \in Users : Exists(v) => Exists(v)'
        /\ SessionsAreCurrent'
    BY Zenon, <1>u, <1>3, <1>4, UserMade
  <1>6. Accounts' /\ Sources' /\ Spending'
    <2>1. AccountsStay
      BY Zenon, <1>u, <1>5 DEF SignInInv, Accounts, AccountsStay, KnownUser
    <2>2. RequestsStay /\ RowsStay(session, session') /\ RowsStay(code, code')
      BY Zenon, <1>u DEF RequestsStay, RowsStay
    <2> QED BY Zenon, <1>u, <2>1, <2>2, RowsMove
  <1>7. Administrators'
    BY Zenon, <1>u, <1>3, <1>5 DEF SignInInv, Administrators
  <1> QED BY Zenon, <1>t, <1>u, <1>2, <1>5, <1>6, <1>7, TypesNext DEF SignInInv, Typed

-----------------------------------------------------------------------------
(* Rows are revoked, and accounts change                                   *)

LEMMA RevokedRows ==
  ASSUME NEW rows \in [Handlers -> Row], NEW u, NEW kept
  PROVE  /\ Revoked(rows, u, kept) \in [Handlers -> Row]
         /\ \A k \in Handlers :
              /\ Revoked(rows, u, kept)[k].user = rows[k].user
              /\ Revoked(rows, u, kept)[k].hash = rows[k].hash
              /\ Revoked(rows, u, kept)[k].state = "none" <=> rows[k].state = "none"
              /\ Revoked(rows, u, kept)[k].state = "live" =>
                   rows[k].state = "live" /\ (rows[k].user # u \/ k \in kept)
  BY DEF Revoked, Row

LEMMA SetUserDisabledKeeps ==
  ASSUME SignInInv, NEW u \in Users, NEW disabled \in BOOLEAN, SetUserDisabled(u, disabled)
  PROVE  SignInInv'
  <1>t. Typed
    BY Zenon, Types DEF SignInInv
  <1>u. /\ UNCHANGED <<identity, request, handler, hashes>> /\ Exists(u)
        /\ disabled => AdministratorOtherThan(u)
        /\ users' = [users EXCEPT ![u].disabled = disabled]
        /\ session' = IF disabled THEN Revoked(session, u, {}) ELSE session
        /\ code' = IF disabled THEN Revoked(code, u, {}) ELSE code
    BY Zenon DEF SetUserDisabled, MayDisable
  <1>1. /\ users' \in [Users -> User] /\ users'[u].disabled = disabled
        /\ users'[u].hash = users[u].hash /\ users'[u].role = users[u].role
        /\ \A v \in Users : v # u => users'[v] = users[v]
    BY <1>t, <1>u DEF Typed, User
  <1>2. session' \in [Handlers -> Row] /\ RowsStay(session, session')
        /\ \A k \in Handlers : /\ session'[k].user = session[k].user /\ session'[k].hash = session[k].hash
                               /\ session'[k].state = "live" => session[k].state = "live"
                               /\ disabled /\ session'[k].state = "live" => session[k].user # u
    <2>1. CASE disabled
      <3>1. PICK rows \in [Handlers -> Row] : rows = Revoked(session, u, {}) /\ session' = rows
        BY Zenon, <1>t, <1>u, <2>1, RevokedRows DEF Typed
      <3>2. \A k \in Handlers :
              /\ rows[k].user = session[k].user /\ rows[k].hash = session[k].hash
              /\ rows[k].state = "none" <=> session[k].state = "none"
              /\ rows[k].state = "live" => session[k].state = "live" /\ (session[k].user # u \/ k \in {})
        <4>1. session \in [Handlers -> Row]
          BY Zenon, <1>t DEF Typed
        <4> QED BY <3>1, <4>1, RevokedRows
      <3>3. \A k \in Handlers : k \notin {}
        OBVIOUS
      <3> QED BY Zenon, <3>1, <3>2, <3>3 DEF RowsStay
    <2>2. CASE ~disabled
      BY Zenon, <1>t, <1>u, <2>2 DEF Typed, RowsStay
    <2> QED BY Zenon, <2>1, <2>2
  <1>3. code' \in [Handlers -> Row] /\ RowsStay(code, code')
    <2>1. CASE disabled
      <3>1. PICK rows \in [Handlers -> Row] : rows = Revoked(code, u, {}) /\ code' = rows
        BY Zenon, <1>t, <1>u, <2>1, RevokedRows DEF Typed
      <3>2. \A k \in Handlers :
              /\ rows[k].user = code[k].user /\ rows[k].hash = code[k].hash
              /\ rows[k].state = "none" <=> code[k].state = "none"
              /\ rows[k].state = "live" => code[k].state = "live" /\ (code[k].user # u \/ k \in {})
        <4>1. code \in [Handlers -> Row]
          BY Zenon, <1>t DEF Typed
        <4> QED BY <3>1, <4>1, RevokedRows
      <3>3. \A k \in Handlers : k \notin {}
        OBVIOUS
      <3> QED BY Zenon, <3>1, <3>2, <3>3 DEF RowsStay
    <2>2. CASE ~disabled
      BY Zenon, <1>t, <1>u, <2>2 DEF Typed, RowsStay
    <2> QED BY Zenon, <2>1, <2>2
  <1>4. \A v \in Users : users'[v].role = users[v].role
    BY Zenon, <1>1
  <1>5. Accounts' /\ Sources' /\ Spending'
    <2>1. AccountsStay
      BY Zenon, <1>u, <1>4 DEF SignInInv, Accounts, AccountsStay, KnownUser, Exists
    <2>2. RequestsStay
      BY Zenon, <1>u DEF RequestsStay
    <2> QED BY Zenon, <1>u, <1>2, <1>3, <2>1, <2>2, RowsMove
  <1>6. SessionsAreCurrent'
    <2>1. ASSUME NEW k \in Handlers, session'[k].state = "live"
          PROVE  ~users'[session'[k].user].disabled /\ session'[k].hash = users'[session'[k].user].hash
      <3>1. PICK v : v = session[k].user
        OBVIOUS
      <3>2. "live" # "none"
        OBVIOUS
      <3>3. v \in Users /\ ~users[v].disabled /\ session[k].hash = users[v].hash
        BY Zenon, <1>2, <2>1, <3>1, <3>2 DEF SignInInv, Accounts, SessionsAreCurrent, KnownUser
      <3>4. ~users'[v].disabled /\ session[k].hash = users'[v].hash
        BY Zenon, <1>1, <1>2, <2>1, <3>1, <3>3
      <3>5. session'[k].user = v /\ session'[k].hash = session[k].hash
        BY Zenon, <1>2, <3>1
      <3> QED BY Zenon, <3>4, <3>5
    <2> QED BY Zenon, <2>1 DEF SessionsAreCurrent
  <1>7. Administrators'
    <2>1. disabled => users[u].role # "platform_admin"
      BY Zenon, <1>u DEF AdministratorOtherThan, Live, SignInInv, Administrators, Accounts, KnownUser
    <2>2. \A v \in Users : users'[v].role = "platform_admin" => ~users'[v].disabled
      BY Zenon, <1>1, <1>4, <2>1 DEF SignInInv, Administrators
    <2> QED BY Zenon, <1>u, <1>4, <2>2 DEF SignInInv, Administrators
  <1> QED BY Zenon, <1>t, <1>u, <1>1, <1>2, <1>3, <1>5, <1>6, <1>7, TypesNext DEF SignInInv, Typed

\* The new password ends every session of the account but the kept ones, which
\* are of that account and stand for it from now on.
LEMMA PasswordSet ==
  ASSUME SignInInv, NEW u \in Users, NEW kept \in SUBSET Handlers, SetUserPassword(u, kept),
         \A k \in kept : session[k].user = u
  PROVE  /\ users' \in [Users -> User] /\ hashes' \in 0..MaxHash
         /\ \A v \in Users : users'[v].role = users[v].role /\ users'[v].disabled = users[v].disabled
         /\ session' \in [Handlers -> Row] /\ RowsStay(session, session')
         /\ code' \in [Handlers -> Row] /\ RowsStay(code, code')
         /\ SessionsAreCurrent'
  <1>t. Typed
    BY Zenon, Types DEF SignInInv
  <1>u. /\ users' = [users EXCEPT ![u].hash = hashes + 1] /\ hashes' = hashes + 1 /\ hashes < MaxHash
        /\ session' = [k \in Handlers |->
              IF k \in kept /\ session[k].state = "live"
              THEN [session[k] EXCEPT !.hash = hashes + 1] ELSE Revoked(session, u, kept)[k]]
        /\ code' = Revoked(code, u, {})
    BY Zenon DEF SetUserPassword
  <1>1. hashes + 1 \in 0..MaxHash
    BY <1>t, <1>u, SignInAssumption DEF Typed
  <1>2. /\ users' \in [Users -> User] /\ users'[u].hash = hashes + 1
        /\ \A v \in Users : users'[v].role = users[v].role /\ users'[v].disabled = users[v].disabled
        /\ \A v \in Users : v # u => users'[v] = users[v]
    BY <1>t, <1>u, <1>1 DEF Typed, User
  <1>3. PICK rows \in [Handlers -> Row] : rows = Revoked(session, u, kept)
    BY Zenon, <1>t, RevokedRows DEF Typed
  <1>4. ASSUME NEW k \in Handlers
        PROVE  /\ rows[k].user = session[k].user /\ rows[k].hash = session[k].hash
               /\ rows[k].state = "none" <=> session[k].state = "none"
               /\ rows[k].state = "live" => session[k].state = "live" /\ (session[k].user # u \/ k \in kept)
    <2>1. session \in [Handlers -> Row]
      BY Zenon, <1>t DEF Typed
    <2> QED BY <1>3, <2>1, RevokedRows
  <1>5. ASSUME NEW k \in Handlers
        PROVE  /\ session'[k] \in Row /\ session'[k].user = session[k].user
               /\ session'[k].state = "none" <=> session[k].state = "none"
               /\ session'[k].state = "live" =>
                    /\ session[k].state = "live"
                    /\ \/ session[k].user = u /\ session'[k].hash = hashes + 1
                       \/ session[k].user # u /\ session'[k].hash = session[k].hash
    <2>1. CASE k \in kept /\ session[k].state = "live"
      <3>1. session'[k] = [session[k] EXCEPT !.hash = hashes + 1]
        BY Zenon, <1>u, <2>1
      <3>2. session[k] \in Row /\ session[k].user = u
        BY Zenon, <1>t, <2>1 DEF Typed
      <3> QED BY <1>1, <2>1, <3>1, <3>2 DEF Row
    <2>2. CASE ~(k \in kept /\ session[k].state = "live")
      <3>1. session'[k] = rows[k]
        BY Zenon, <1>u, <1>3, <2>2
      <3> QED BY Zenon, <1>3, <1>4, <2>2, <3>1
    <2> QED BY Zenon, <2>1, <2>2
  <1>6. session' \in [Handlers -> Row] /\ RowsStay(session, session')
    BY Zenon, <1>u, <1>5 DEF RowsStay
  <1>7. code' \in [Handlers -> Row] /\ RowsStay(code, code')
    <2>1. code \in [Handlers -> Row]
      BY Zenon, <1>t DEF Typed
    <2>2. PICK new \in [Handlers -> Row] : new = Revoked(code, u, {})
      BY Zenon, <2>1, RevokedRows
    <2>3. RowsStay(code, new)
      BY <2>1, <2>2, RevokedRows DEF RowsStay
    <2> QED BY Zenon, <1>u, <2>2, <2>3
  <1>8. SessionsAreCurrent'
    <2>1. ASSUME NEW k \in Handlers, session'[k].state = "live"
          PROVE  ~users'[session'[k].user].disabled /\ session'[k].hash = users'[session'[k].user].hash
      <3>1. PICK v : v = session[k].user
        OBVIOUS
      <3>2. "live" # "none"
        OBVIOUS
      <3>3. v \in Users /\ ~users[v].disabled /\ session[k].hash = users[v].hash
        BY Zenon, <1>5, <2>1, <3>1, <3>2 DEF SignInInv, Accounts, SessionsAreCurrent, KnownUser
      <3>4. ~users'[v].disabled /\ session'[k].hash = users'[v].hash
        BY Zenon, <1>2, <1>5, <2>1, <3>1, <3>3
      <3>5. session'[k].user = v
        BY Zenon, <1>5, <3>1
      <3> QED BY Zenon, <3>4, <3>5
    <2> QED BY Zenon, <2>1 DEF SessionsAreCurrent
  <1> QED BY Zenon, <1>u, <1>1, <1>2, <1>6, <1>7, <1>8

LEMMA PasswordKeeps ==
  ASSUME SignInInv,
         \/ \E u \in Users : ResetUserPassword(u)
         \/ \E h \in Handlers : ChangeOwnPassword(h)
  PROVE  SignInInv'
  <1>t. Typed
    BY Zenon, Types DEF SignInInv
  <1>1. /\ users' \in [Users -> User] /\ hashes' \in 0..MaxHash
        /\ \A v \in Users : users'[v].role = users[v].role /\ users'[v].disabled = users[v].disabled
        /\ session' \in [Handlers -> Row] /\ RowsStay(session, session')
        /\ code' \in [Handlers -> Row] /\ RowsStay(code, code')
        /\ SessionsAreCurrent'
    <2>1. ASSUME NEW u \in Users, ResetUserPassword(u) PROVE <1>1!:
      <3>1. SetUserPassword(u, {}) /\ {} \in SUBSET Handlers /\ \A k \in {} : session[k].user = u
        BY <2>1 DEF ResetUserPassword
      <3> QED BY Zenon, <3>1, PasswordSet
    <2>2. ASSUME NEW h \in Handlers, ChangeOwnPassword(h) PROVE <1>1!:
      <3>1. PICK k : k = handler[h].source
        OBVIOUS
      <3>2. PICK u : u = handler[h].user
        OBVIOUS
      <3>3. handler[h].phase = "changing" /\ SetUserPassword(u, {k})
        BY Zenon, <2>2, <3>1, <3>2 DEF ChangeOwnPassword
      <3>4. k \in Handlers /\ session[k].user = u
        BY Zenon, <3>1, <3>2, <3>3 DEF SignInInv, Sources
      <3>5. u \in Users
        BY <3>2, <3>3 DEF SignInInv, Accounts, KnownUser
      <3>6. {k} \in SUBSET Handlers /\ \A j \in {k} : session[j].user = u
        BY <3>4
      <3> QED BY Zenon, <3>3, <3>5, <3>6, PasswordSet
    <2> QED BY Zenon, <2>1, <2>2
  <1>2. /\ handler' \in [Handlers -> Handler]
        /\ \A g \in Handlers :
             /\ handler'[g].phase = handler[g].phase \/ handler'[g].phase = "done"
             /\ handler'[g].user = handler[g].user /\ handler'[g].subject = handler[g].subject
             /\ handler'[g].source = handler[g].source /\ handler'[g].raced = handler[g].raced
    <2>1. CASE handler' = handler
      BY Zenon, <1>t, <2>1 DEF Typed
    <2>2. ASSUME NEW h \in Handlers, Becomes(h, "done") PROVE <1>2!:
      <3>1. handler \in [Handlers -> Handler] /\ "done" \in Phases
        BY <1>t DEF Typed, Phases
      <3> QED BY Zenon, <2>2, <3>1, PhaseMoves
    <2> QED BY Zenon, <2>1, <2>2 DEF ResetUserPassword, ChangeOwnPassword
  <1>3. UNCHANGED <<identity, request>>
    BY Zenon DEF ResetUserPassword, ChangeOwnPassword
  <1>4. Accounts' /\ Sources' /\ Spending'
    <2>1. AccountsStay
      BY Zenon, <1>1, <1>3 DEF SignInInv, Accounts, AccountsStay, KnownUser, Exists
    <2>2. RequestsStay
      BY Zenon, <1>3 DEF RequestsStay
    <2> QED BY Zenon, <1>1, <1>2, <2>1, <2>2, RowsMove
  <1>5. Administrators'
    <2>1. "done" # "setup"
      OBVIOUS
    <2>2. \A g \in Handlers : handler'[g].phase = "setup" /\ ~handler'[g].raced
                                => handler[g].phase = "setup" /\ ~handler[g].raced
      BY Zenon, <1>2, <2>1
    <2>3. /\ \A h \in Handlers, u \in Users :
               handler'[h].phase = "setup" /\ ~handler'[h].raced => users'[u].role # "platform_admin"
          /\ \A u, v \in Users :
               users'[u].role = "platform_admin" /\ users'[v].role = "platform_admin" => u = v
      BY Zenon, <1>1, <2>2 DEF SignInInv, Administrators
    <2>4. \A u \in Users : users'[u].role = "platform_admin" => ~users'[u].disabled
      BY Zenon, <1>1 DEF SignInInv, Administrators
    <2> QED BY Zenon, <2>3, <2>4 DEF Administrators
  <1> QED BY Zenon, <1>t, <1>1, <1>2, <1>3, <1>4, <1>5, TypesNext DEF SignInInv, Typed

LEMMA RowsEndKeeps ==
  ASSUME SignInInv, NEW k \in Handlers, Logout(k) \/ NativeLogout(k) \/ ExpireSession(k) \/ ExpireCode(k)
  PROVE  SignInInv'
  <1>t. Typed
    BY Zenon, Types DEF SignInInv
  <1>u. UNCHANGED <<users, identity, request, handler, hashes>>
    BY Zenon DEF Logout, NativeLogout, ExpireSession, ExpireCode, DeleteSession
  <1>1. \/ session[k].state = "live" /\ session' = [session EXCEPT ![k].state = "gone"] /\ code' = code
        \/ code[k].state = "live" /\ code' = [code EXCEPT ![k].state = "gone"] /\ session' = session
    BY Zenon DEF Logout, NativeLogout, ExpireSession, ExpireCode, DeleteSession, Live
  <1>3. \A rows : RowsStay(rows, rows)
    BY Zenon DEF RowsStay
  <1>4. /\ session' \in [Handlers -> Row] /\ RowsStay(session, session')
        /\ code' \in [Handlers -> Row] /\ RowsStay(code, code')
        /\ \A j \in Handlers : session'[j].hash = session[j].hash
    <2>1. session \in [Handlers -> Row] /\ code \in [Handlers -> Row]
      BY Zenon, <1>t DEF Typed
    <2>2. CASE session[k].state = "live" /\ session' = [session EXCEPT ![k].state = "gone"] /\ code' = code
      <3>1. PICK new : new = [session EXCEPT ![k].state = "gone"]
        BY Zenon
      <3>2. new \in [Handlers -> Row] /\ RowsStay(session, new) /\ \A j \in Handlers : new[j].hash = session[j].hash
        BY <2>1, <2>2, <3>1 DEF Row, RowsStay
      <3> QED BY Zenon, <1>3, <2>1, <2>2, <3>1, <3>2
    <2>3. CASE code[k].state = "live" /\ code' = [code EXCEPT ![k].state = "gone"] /\ session' = session
      <3>1. PICK new : new = [code EXCEPT ![k].state = "gone"]
        BY Zenon
      <3>2. new \in [Handlers -> Row] /\ RowsStay(code, new)
        BY <2>1, <2>3, <3>1 DEF Row, RowsStay
      <3> QED BY Zenon, <1>3, <2>1, <2>3, <3>1, <3>2
    <2> QED BY Zenon, <1>1, <2>2, <2>3
  <1>5. Accounts' /\ Sources' /\ Spending'
    BY Zenon, <1>u, <1>4, QuietAccounts, RowsMove DEF RequestsStay
  <1>6. SessionsAreCurrent'
    BY Zenon, <1>u, <1>4 DEF SignInInv, SessionsAreCurrent, RowsStay
  <1>7. Administrators'
    BY Zenon, <1>u DEF SignInInv, Administrators
  <1> QED BY Zenon, <1>t, <1>u, <1>4, <1>5, <1>6, <1>7, TypesNext DEF SignInInv, Typed

LEMMA RequestsKeep ==
  ASSUME SignInInv, NEW q \in Requests,
         ExpireRequest(q) \/ \E kind \in {"web", "native"} : OidcStart(q, kind)
  PROVE  SignInInv'
  <1>t. Typed
    BY Zenon, Types DEF SignInInv
  <1>u. UNCHANGED <<users, identity, handler, session, code, hashes>>
    BY Zenon DEF ExpireRequest, OidcStart
  <1>1. request' \in [Requests -> Request] /\ RequestsStay
    <2>1. CASE ExpireRequest(q)
      BY <1>t, <2>1 DEF Typed, Request, RequestsStay, ExpireRequest
    <2>2. ASSUME NEW kind \in {"web", "native"}, OidcStart(q, kind)
          PROVE  request' \in [Requests -> Request] /\ RequestsStay
      BY <1>t, <2>2 DEF Typed, Request, RequestsStay, OidcStart
    <2> QED BY Zenon, <2>1, <2>2
  <1>2. Accounts' /\ Sources' /\ Spending'
    BY Zenon, <1>u, <1>1, QuietAccounts, RowsMove DEF RowsStay
  <1>3. SessionsAreCurrent' /\ Administrators'
    BY Zenon, <1>u, QuietStep
  <1> QED BY Zenon, <1>t, <1>u, <1>1, <1>2, <1>3, TypesNext DEF SignInInv, Typed

-----------------------------------------------------------------------------
LEMMA SignInInvInit == Init => SignInInv
  <1> SUFFICES ASSUME Init PROVE SignInInv
    OBVIOUS
  <1>1. /\ \A u \in Users : users[u] = NoUser
        /\ \A s \in Subjects : identity[s] = NoOne
        /\ \A h \in Handlers : handler[h] = Fresh /\ session[h] = NoRow /\ code[h] = NoRow
    BY Zenon DEF Init
  <1>2. NoUser \in User /\ Fresh \in Handler /\ NoRow \in Row /\ [state |-> "none", kind |-> "web"] \in Request
        /\ 0 \in 0..MaxHash
    BY SignInAssumption DEF NoUser, Fresh, NoRow, User, Handler, Row, Phases, Request
  <1>3. /\ NoRow.state = "none" /\ Fresh.phase = "idle" /\ Fresh.source = NoOne /\ NoUser.role = "none"
        /\ NoOne \notin Handlers /\ NoOne \notin Requests
    BY SignInAssumption DEF NoRow, Fresh, NoUser
  <1>4. Typed
    BY Zenon, <1>2 DEF Init, Typed
  <1>5. Accounts /\ Sources /\ Spending /\ SessionsAreCurrent /\ Administrators
    BY <1>1, <1>3 DEF Accounts, Sources, Spending, Spends, SessionsAreCurrent, Administrators
  <1> QED BY Zenon, <1>4, <1>5 DEF SignInInv, TypeOK, Typed, Handler, User, Request, Phases, Accounts, KnownUser

LEMMA SignInInvStep == SignInInv /\ [Next]_vars => SignInInv'
  <1> SUFFICES ASSUME SignInInv, [Next]_vars PROVE SignInInv'
    OBVIOUS
  <1>1. ASSUME NEW h \in Handlers,
               \/ BeginSetup(h) \/ IssueSession(h) \/ IssueNativeSession(h) \/ FinishNativeOIDC(h)
               \/ ChangeOwnPassword(h) \/ HandlerFails(h) \/ ExpireCode(h)
               \/ Logout(h) \/ NativeLogout(h) \/ ExpireSession(h)
        PROVE  SignInInv'
    BY Zenon, <1>1, BeginSetupKeeps, CreateVerifiedLoginSessionKeeps, FinishNativeOIDCKeeps, PasswordKeeps,
       RowsEndKeeps DEF IssueSession, IssueNativeSession
  <1>2. ASSUME NEW h \in Handlers, NEW u \in Users,
               CreateInitialAdmin(h, u) \/ ResolveOIDCUser(h, u) \/ Login(h, u) \/ NativeLogin(h, u)
        PROVE  SignInInv'
    <2>1. "web" \in {"web", "native"} /\ "native" \in {"web", "native"}
      OBVIOUS
    <2> QED BY Zenon, <1>2, <2>1, CreateInitialAdminKeeps, ResolveOIDCUserKeeps, VerifiedKeeps DEF Login, NativeLogin
  <1>3. ASSUME NEW h \in Handlers,
               \/ \E q \in Requests : ConsumeOIDCRequest(h, q)
               \/ \E s \in Subjects : Exchange(h, s)
               \/ \E k \in Handlers : NativeExchange(h, k) \/ BeginPasswordChange(h, k)
        PROVE  SignInInv'
    BY Zenon, <1>3, ConsumeOIDCRequestKeeps, ExchangeKeeps, NativeExchangeKeeps, BeginPasswordChangeKeeps
  <1>4. ASSUME NEW q \in Requests, ExpireRequest(q) \/ \E kind \in {"web", "native"} : OidcStart(q, kind)
        PROVE  SignInInv'
    BY Zenon, <1>4, RequestsKeep
  <1>5. ASSUME NEW u \in Users,
               \/ CreateLocalUser(u) \/ ResetUserPassword(u)
               \/ \E disabled \in BOOLEAN : SetUserDisabled(u, disabled)
        PROVE  SignInInv'
    BY Zenon, <1>5, CreateLocalUserKeeps, PasswordKeeps, SetUserDisabledKeeps
  <1>6. CASE UNCHANGED vars
    <2>1. UNCHANGED <<users, identity, request, handler, session, code, hashes>>
      BY Zenon, <1>6 DEF vars
    <2>2. Accounts' /\ Sources' /\ Spending'
      BY Zenon, <2>1, QuietAccounts, RowsMove DEF RowsStay, RequestsStay
    <2>3. SessionsAreCurrent' /\ Administrators'
      BY Zenon, <2>1, QuietStep
    <2> QED BY Zenon, <2>1, <2>2, <2>3, Types, TypesNext DEF SignInInv, Typed
  <1> QED BY Zenon, <1>1, <1>2, <1>3, <1>4, <1>5, <1>6 DEF Next

\* Every reachable state of accounts, handlers and rows satisfies the inductive
\* invariant: for any number of users, requests and concurrent handlers.
THEOREM SignInInvariant == Spec => []SignInInv
  BY SignInInvInit, SignInInvStep, PTL DEF Spec

\* Every variable holds rows of its table.
THEOREM TypeCorrect == Spec => []TypeOK
  <1>1. SignInInv => TypeOK
    BY Zenon DEF SignInInv
  <1> QED BY <1>1, SignInInvariant, PTL

\* No verification that a reset or a disable overtook leaves a live session:
\* createVerifiedLoginSession checks the account again, SetUserPassword and
\* SetUserDisabled revoke, and the session a change of password keeps is one of
\* the same account.
THEOREM SessionsAreCurrentAlways == Spec => []SessionsAreCurrent
  <1>1. SignInInv => SessionsAreCurrent
    BY Zenon DEF SignInInv
  <1> QED BY <1>1, SignInInvariant, PTL

\* A sign-on request or a native code never makes two sessions
\* (ConsumeOIDCRequest, ConsumeNativeAuthCode).
THEOREM GrantsAreUsedOnceAlways == Spec => []GrantsAreUsedOnce
  <1>1. SignInInv => GrantsAreUsedOnce
    BY Zenon DEF SignInInv, Spending, Spends, GrantsAreUsedOnce
  <1> QED BY <1>1, SignInInvariant, PTL

\* Setup commits once, and the administrator it made is never disabled
\* (CreateInitialAdmin, updateUser).
THEOREM SoleAdministratorAlways == Spec => []SoleAdministrator
  <1>1. SignInInv => SoleAdministrator
    <2> SUFFICES ASSUME SignInInv PROVE SoleAdministrator
      OBVIOUS
    <2>1. PICK admins : admins = {u \in Users : users[u].role = "platform_admin"}
      BY Zenon
    <2>2. \A u \in admins : ~users[u].disabled
      BY Zenon, <2>1 DEF SignInInv, Administrators
    <2>3. \A u, v \in admins : u = v
      BY Zenon, <2>1 DEF SignInInv, Administrators
    <2>4. Cardinality(admins) <= 1
      <3>1. CASE admins = {}
        BY <3>1, FS_EmptySet
      <3>2. ASSUME NEW u \in admins PROVE Cardinality(admins) <= 1
        <4>1. admins = {u}
          BY Zenon, <2>3, <3>2
        <4> QED BY <4>1, FS_Singleton
      <3> QED BY Zenon, <3>1, <3>2
    <2> QED BY Zenon, <2>1, <2>2, <2>4 DEF SoleAdministrator
  <1> QED BY <1>1, SignInInvariant, PTL
=============================================================================
