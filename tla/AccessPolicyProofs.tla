------------------------- MODULE AccessPolicyProofs -------------------------
(***************************************************************************)
(* What holds of an access policy for any number of handlers, accounts and *)
(* revisions. Neither result is inductive: that a policy recorded as       *)
(* applied is enforced rests on what the one handler with the desktop lock *)
(* has already written, and HandlerInv states that for each phase.         *)
(***************************************************************************)
EXTENDS AccessPolicy, TLAPS

Phases == {"idle", "bound", "session", "accounts", "account", "failing", "issuing", "done"}

\* The guest enforces what was asked for, or was last reached by a late
\* command of an older revision.
Good(t) == guest[t] = desired \/ t \in superseded

\* What is still to be written was read from the policy row.
ReadFromRow == \A h \in Handlers : handler[h].todo # {} => handler[h].rev # 0

Active(h) == handler[h].phase \notin {"idle", "done"}

\* A request at work holds the lock, has read the policy that is still
\* wanted, and has written every target it does not owe any more.
HandlerInv(h) ==
  /\ Active(h) => lock = h
  /\ handler[h].phase \notin {"idle", "done", "bound"} => handler[h].rev = desired
  /\ handler[h].phase = "session" => handler[h].todo \subseteq {Session}
  /\ handler[h].phase = "accounts" =>
       \A t \in ({Session, Vdi} \cup bound) \ handler[h].todo : Good(t)
  /\ handler[h].phase = "account" =>
       handler[h].account \in handler[h].todo \/ handler[h].account \notin bound \/ Good(handler[h].account)
  /\ handler[h].phase = "issuing" => handler[h].account \notin bound \/ Good(handler[h].account)

RecordInv ==
  state = "applied" => applied = desired /\ \A t \in {Session, Vdi} \cup usable : Good(t)

IInv ==
  /\ TypeOK /\ ReadFromRow
  /\ faults = 0 => RecordInv /\ \A h \in Handlers : HandlerInv(h)

-----------------------------------------------------------------------------
\* The initial state satisfies the inductive invariant.
LEMMA InitHolds == Init => IInv
BY PolicyAssumption, SMT
   DEF Init, IInv, TypeOK, ReadFromRow, RecordInv, HandlerInv, Active, Idle, Targets, Session, Vdi

Requests == [phase : Phases, kind : {"update", "native", "agent"}, account : Accounts \cup {None},
             rev : 0..MaxRevision, todo : SUBSET Targets]

\* What is known of one request, in the form the steps below use.
LEMMA Typed ==
  ASSUME TypeOK
  PROVE /\ handler \in [Handlers -> Requests]
        /\ \A h \in Handlers : /\ handler[h].phase \in Phases
                              /\ handler[h].kind \in {"update", "native", "agent"}
                              /\ handler[h].account \in Accounts \cup {None}
                              /\ handler[h].rev \in 0..MaxRevision
                              /\ handler[h].todo \in SUBSET Targets
<1>1. handler \in [Handlers -> Requests]
  BY Zenon DEF TypeOK, Requests, Phases
<1> QED
  BY <1>1, SMT DEF Requests

\* Replacing the record of one request by a well-formed one keeps the types.
LEMMA BecomesTyped ==
  ASSUME TypeOK, ReadFromRow, NEW h \in Handlers,
         NEW p \in Phases, NEW k \in {"update", "native", "agent"}, NEW a \in Accounts \cup {None},
         NEW v \in 0..MaxRevision, NEW s \in SUBSET Targets, s # {} => v # 0,
         Becomes(h, p, k, a, v, s)
  PROVE handler' \in [Handlers -> Requests] /\ ReadFromRow'
<1>1. handler \in [Handlers -> Requests]
  BY Typed
<1>2. [phase |-> p, kind |-> k, account |-> a, rev |-> v, todo |-> s] \in Requests
  BY Zenon DEF Requests
<1>3. handler' \in [Handlers -> Requests]
  BY <1>1, <1>2, Zenon DEF Becomes
<1> QED
  BY <1>1, <1>3, SMT DEF Becomes, ReadFromRow

\* The two ways to leave a phase (Return, Goes) keep what the request read.
LEMMA ReturnTyped ==
  ASSUME TypeOK, ReadFromRow, NEW h \in Handlers, NEW d, Return(h, d)
  PROVE /\ handler' \in [Handlers -> Requests] /\ ReadFromRow'
        /\ lock' \in Handlers \cup {None} /\ bound' \subseteq Accounts /\ usable' \subseteq bound'
<1>1. handler' \in [Handlers -> Requests] /\ ReadFromRow'
  <2>1. "done" \in Phases /\ {} \in SUBSET Targets
    BY DEF Phases
  <2> QED
    BY <2>1, Typed, BecomesTyped DEF Return, Moves
<1>2. lock' \in Handlers \cup {None} /\ bound' \subseteq Accounts /\ usable' \subseteq bound'
  BY SMT DEF TypeOK, Return, Unlocked
<1> QED
  BY <1>1, <1>2

LEMMA GoesTyped ==
  ASSUME TypeOK, ReadFromRow, NEW h \in Handlers, NEW p \in Phases, Goes(h, p)
  PROVE /\ handler' \in [Handlers -> Requests] /\ ReadFromRow'
        /\ lock' \in Handlers \cup {None} /\ bound' \subseteq Accounts /\ usable' \subseteq bound'
<1>1. handler[h].todo # {} => handler[h].rev # 0
  BY Zenon DEF ReadFromRow
<1>2. handler' \in [Handlers -> Requests] /\ ReadFromRow'
  BY <1>1, Typed, BecomesTyped DEF Goes, Moves
<1> QED
  BY <1>2, SMT DEF TypeOK, Goes

\* A command that takes effect keeps the types of what the guest enforces.
LEMMA EnforceTyped ==
  ASSUME TypeOK, NEW t \in Targets, NEW r \in 0..MaxRevision, Enforce(t, r)
  PROVE guest' \in [Targets -> 0..MaxRevision] /\ superseded' \subseteq Targets
BY SMT DEF TypeOK, Enforce

\* Every action keeps the types, and never sends a policy that was not read.
LEMMA TypeStep ==
  ASSUME TypeOK, ReadFromRow, [Next]_vars
  PROVE TypeOK' /\ ReadFromRow'
<1> USE PolicyAssumption
<1>a. /\ {} \in SUBSET Targets /\ {Session} \in SUBSET Targets
      /\ \A a \in Accounts : {a} \ usable \in SUBSET Targets
      /\ bound \cup {Vdi} \in SUBSET Targets
  BY SMT DEF Targets, TypeOK
<1>b. desired \in 0..MaxRevision /\ desired # 0
  BY SMT DEF TypeOK
<1>0. CASE UNCHANGED vars
  BY <1>0, Zenon DEF TypeOK, ReadFromRow, vars
<1>1. ASSUME NEW h \in Handlers, NEW changed \in BOOLEAN, NEW running \in BOOLEAN,
             UpdateDesktopAccessPolicy(h, changed, running)
      PROVE TypeOK' /\ ReadFromRow'
  <2>1. desired' \in 1..MaxRevision /\ applied' \in 0..desired' /\ state' = "pending"
        /\ lock' \in Handlers \cup {None}
    BY <1>1, SMT DEF UpdateDesktopAccessPolicy, TypeOK
  <2>2. /\ (IF running THEN "session" ELSE "done") \in Phases
        /\ (IF running THEN {Session} ELSE {}) \in SUBSET Targets
    BY <1>a, Zenon DEF Phases
  <2>3. desired' \in 0..MaxRevision /\ desired' # 0
    BY <2>1, SMT
  <2>4. handler' \in [Handlers -> Requests] /\ ReadFromRow'
    BY <1>1, <2>2, <2>3, BecomesTyped DEF UpdateDesktopAccessPolicy
  <2> QED
    BY <1>1, <2>1, <2>4, SMT DEF UpdateDesktopAccessPolicy, TypeOK, Requests, Phases, inGuest
<1>2. ASSUME NEW h \in Handlers, NEW a \in Accounts, CreateNativeDesktopConnection(h, a)
      PROVE TypeOK' /\ ReadFromRow'
  <2>1. "bound" \in Phases /\ 0 \in 0..MaxRevision
    BY SMT DEF Phases
  <2>2. handler' \in [Handlers -> Requests] /\ ReadFromRow'
    BY <1>2, <1>a, <2>1, BecomesTyped DEF CreateNativeDesktopConnection
  <2> QED
    BY <1>2, <2>2, SMT DEF CreateNativeDesktopConnection, TypeOK, Requests, Phases, policy, inGuest
<1>3. ASSUME NEW h \in Handlers, NEW a \in Accounts, PrepareAgentGuestSession(h, a)
      PROVE TypeOK' /\ ReadFromRow'
  <2>1. /\ (IF PolicyCurrent THEN "account" ELSE "bound") \in Phases
        /\ (IF PolicyCurrent THEN OwnCommand(a) ELSE {}) \in SUBSET Targets
    BY <1>a, Zenon DEF Phases, OwnCommand
  <2>2. handler' \in [Handlers -> Requests] /\ ReadFromRow'
    BY <1>3, <1>b, <2>1, BecomesTyped DEF PrepareAgentGuestSession
  <2> QED
    BY <1>3, <2>2, SMT DEF PrepareAgentGuestSession, TypeOK, Requests, Phases, policy, inGuest
<1>4. ASSUME NEW h \in Handlers, ReconcileDesktopAccessPolicy(h)
      PROVE TypeOK' /\ ReadFromRow'
  <2>1. "session" \in Phases
    BY DEF Phases
  <2>2. handler' \in [Handlers -> Requests] /\ ReadFromRow'
    BY <1>4, <1>a, <1>b, <2>1, Typed, BecomesTyped DEF ReconcileDesktopAccessPolicy
  <2> QED
    BY <1>4, <2>2, SMT DEF ReconcileDesktopAccessPolicy, TypeOK, Requests, Phases, policy, inGuest
<1>5. ASSUME NEW h \in Handlers, NEW t \in Targets, CommandSucceeds(h, t)
      PROVE TypeOK' /\ ReadFromRow'
  <2>1. handler[h].rev \in 0..MaxRevision /\ handler[h].rev # 0
    BY <1>5, SMT DEF CommandSucceeds, Sending, TypeOK, ReadFromRow
  <2>2. guest' \in [Targets -> 0..MaxRevision] /\ superseded' \subseteq Targets
    BY <1>5, <2>1, EnforceTyped DEF CommandSucceeds
  <2>3. handler[h].todo \ {t} \in SUBSET Targets /\ "accounts" \in Phases
    BY Typed, Zenon DEF Phases
  <2>4. handler' \in [Handlers -> Requests] /\ ReadFromRow'
    <3>1. CASE handler[h].phase = "session"
      BY <1>5, <1>a, <2>1, <2>3, <3>1, Typed, BecomesTyped DEF CommandSucceeds, Moves
    <3>2. CASE handler[h].phase # "session"
      BY <1>5, <2>1, <2>3, <3>2, Typed, BecomesTyped DEF CommandSucceeds, Moves
    <3> QED
      BY <3>1, <3>2
  <2> QED
    BY <1>5, <2>2, <2>4, SMT DEF CommandSucceeds, TypeOK, Requests, Phases, policy
<1>6. ASSUME NEW h \in Handlers, NEW t \in Targets, NEW late \in BOOLEAN, CommandFails(h, t, late)
      PROVE TypeOK' /\ ReadFromRow'
  <2>1. handler[h].rev \in 1..MaxRevision
    BY <1>6, SMT DEF CommandFails, Sending, TypeOK, ReadFromRow
  <2>2. stray' \subseteq Targets \X (1..MaxRevision)
    BY <1>6, <2>1, SMT DEF CommandFails, TypeOK
  <2>3. Return(h, Dropped(h)) \/ Goes(h, "failing")
    BY <1>6, Zenon DEF CommandFails
  <2> QED
    BY <1>6, <2>2, <2>3, ReturnTyped, GoesTyped, SMT DEF CommandFails, TypeOK, Requests, Phases, policy
<1>7. ASSUME NEW h \in Handlers, MarkDesktopAccessPolicyApplied(h)
      PROVE TypeOK' /\ ReadFromRow'
  <2>1. Return(h, {}) \/ Goes(h, "issuing") \/ Goes(h, "failing")
    BY <1>7, Zenon DEF MarkDesktopAccessPolicyApplied
  <2>2. desired' = desired /\ applied' \in 0..desired /\ state' \in {"pending", "applied", "failed"}
    BY <1>7, SMT DEF MarkDesktopAccessPolicyApplied, StillDesired, TypeOK
  <2> QED
    BY <1>7, <2>1, <2>2, ReturnTyped, GoesTyped, SMT
       DEF MarkDesktopAccessPolicyApplied, TypeOK, Requests, Phases, inGuest
<1>8. ASSUME NEW h \in Handlers, MarkDesktopAccessPolicyFailed(h)
      PROVE TypeOK' /\ ReadFromRow'
  BY <1>8, ReturnTyped, SMT DEF MarkDesktopAccessPolicyFailed, TypeOK, Requests, Phases, inGuest
<1>9. ASSUME NEW h \in Handlers, Issue(h)
      PROVE TypeOK' /\ ReadFromRow'
  <2>1. "done" \in Phases
    BY DEF Phases
  <2>2. handler' \in [Handlers -> Requests] /\ ReadFromRow'
    BY <1>9, <1>a, <2>1, Typed, BecomesTyped DEF Issue, Moves
  <2> QED
    BY <1>9, <2>2, SMT DEF Issue, Unlocked, StillBound, TypeOK, Requests, Phases, policy, inGuest
<1>10. ASSUME NEW h \in Handlers, RequestCanceled(h)
       PROVE TypeOK' /\ ReadFromRow'
  <2>1. stray' \subseteq Targets \X (1..MaxRevision)
    BY <1>10, SMT DEF RequestCanceled, TypeOK, ReadFromRow
  <2> QED
    BY <1>10, <2>1, ReturnTyped, SMT DEF RequestCanceled, TypeOK, Requests, Phases, policy
<1>11. ASSUME NEW h \in Handlers, LoseLock(h)
       PROVE TypeOK' /\ ReadFromRow'
  BY <1>11, SMT DEF LoseLock, TypeOK, ReadFromRow, policy, inGuest
<1>12. ASSUME NEW a \in Accounts, DisableBinding(a)
       PROVE TypeOK' /\ ReadFromRow'
  BY <1>12, SMT DEF DisableBinding, TypeOK, ReadFromRow, policy, inGuest
<1>13. ASSUME NEW t \in Targets, NEW rev \in 1..MaxRevision, StrayLands(t, rev)
       PROVE TypeOK' /\ ReadFromRow'
  <2>1. guest' \in [Targets -> 0..MaxRevision] /\ superseded' \subseteq Targets
    BY <1>13, EnforceTyped, SMT DEF StrayLands
  <2> QED
    BY <1>13, <2>1, SMT DEF StrayLands, TypeOK, ReadFromRow, policy
<1> QED
  BY <1>0, <1>1, <1>2, <1>3, <1>4, <1>5, <1>6, <1>7, <1>8, <1>9, <1>10, <1>11, <1>12, <1>13, Zenon DEF Next

-----------------------------------------------------------------------------
\* A command of the wanted revision makes its target good, a late one marks
\* it superseded; other targets are left alone.
LEMMA EnforceGood ==
  ASSUME TypeOK, NEW t \in Targets, NEW r, Enforce(t, r), desired' = desired
  PROVE Good(t)' /\ \A x \in Targets : Good(x) => Good(x)'
BY SMT DEF TypeOK, Enforce, Good

\* While no lock was lost, a request that holds the lock, or finds it free,
\* is the only one at work: replacing its record concerns no other request.
LEMMA Alone ==
  ASSUME TypeOK, NEW h \in Handlers, \A g \in Handlers : HandlerInv(g),
         Active(h) \/ lock = None,
         NEW p, NEW k, NEW a, NEW v, NEW s, Becomes(h, p, k, a, v, s)
  PROVE /\ \A g \in Handlers : g # h => HandlerInv(g)'
        /\ handler'[h].phase = p /\ handler'[h].account = a
        /\ handler'[h].rev = v /\ handler'[h].todo = s
<1>1. handler \in [Handlers -> Requests]
  BY Typed
<1>2. ASSUME NEW g \in Handlers, g # h PROVE HandlerInv(g)'
  <2>1. ~Active(g)
    BY <1>2, PolicyAssumption, Zenon DEF HandlerInv
  <2>2. handler'[g] = handler[g]
    BY <1>1, <1>2, SMT DEF Becomes
  <2> QED
    BY <2>1, <2>2, SMT DEF HandlerInv, Active
<1>3. handler'[h] = [phase |-> p, kind |-> k, account |-> a, rev |-> v, todo |-> s]
  BY <1>1, SMT DEF Becomes
<1> QED
  BY <1>2, <1>3, SMT

\* A request that returns leaves nothing to be said of it.
LEMMA Finished ==
  ASSUME NEW h \in Handlers, handler'[h].phase = "done"
  PROVE HandlerInv(h)'
BY SMT DEF HandlerInv, Active

LEMMA ReturnKeeps ==
  ASSUME TypeOK, NEW h \in Handlers, \A g \in Handlers : HandlerInv(g), Active(h), NEW d, Return(h, d)
  PROVE usable' \subseteq usable /\ \A g \in Handlers : HandlerInv(g)'
<1>1. (\A g \in Handlers : g # h => HandlerInv(g)') /\ handler'[h].phase = "done"
  <2>1. Becomes(h, "done", handler[h].kind, handler[h].account, handler[h].rev, {})
    BY Zenon DEF Return, Moves
  <2> QED
    BY <2>1, Alone
<1> QED
  BY <1>1, Finished, Zenon DEF Return

\* One whose command failed keeps the lock until it has recorded that.
LEMMA FailingKeeps ==
  ASSUME TypeOK, NEW h \in Handlers, \A g \in Handlers : HandlerInv(g), Active(h),
         handler[h].rev = desired, desired' = desired, Goes(h, "failing")
  PROVE usable' = usable /\ \A g \in Handlers : HandlerInv(g)'
<1>0. Becomes(h, "failing", handler[h].kind, handler[h].account, handler[h].rev, handler[h].todo)
  BY Zenon DEF Goes, Moves
<1>1. /\ \A g \in Handlers : g # h => HandlerInv(g)'
      /\ handler'[h].phase = "failing" /\ handler'[h].rev = desired
  BY <1>0, Alone
<1>2. lock' = h /\ usable' = usable
  BY Zenon DEF Goes, HandlerInv
<1>3. HandlerInv(h)'
  BY <1>1, <1>2, SMT DEF HandlerInv, Active
<1> QED
  BY <1>1, <1>2, <1>3, Zenon

\* While no lock was lost, each action keeps the record and the requests as
\* the invariant describes them.
LEMMA PolicyStep ==
  ASSUME TypeOK, RecordInv, \A g \in Handlers : HandlerInv(g), [Next]_vars, faults' = faults
  PROVE RecordInv' /\ \A g \in Handlers : HandlerInv(g)'
<1> DEFINE Goal == RecordInv' /\ \A g \in Handlers : HandlerInv(g)'
<1>a. usable \subseteq bound /\ bound \subseteq Accounts /\ Accounts \subseteq Targets
      /\ Session \in Targets /\ Vdi \in Targets
  BY SMT DEF TypeOK, Targets
<1>0. CASE UNCHANGED vars
  BY <1>0, Zenon DEF RecordInv, HandlerInv, Active, Good, vars
<1>1. ASSUME NEW h \in Handlers, NEW changed \in BOOLEAN, NEW running \in BOOLEAN,
             UpdateDesktopAccessPolicy(h, changed, running)
      PROVE Goal
  <2>1. /\ \A g \in Handlers : g # h => HandlerInv(g)'
        /\ handler'[h].phase = (IF running THEN "session" ELSE "done")
        /\ handler'[h].rev = desired'
        /\ handler'[h].todo = (IF running THEN {Session} ELSE {})
    <3>1. lock = None /\ Becomes(h, IF running THEN "session" ELSE "done", "update", None, desired',
                                IF running THEN {Session} ELSE {})
      BY <1>1, Zenon DEF UpdateDesktopAccessPolicy
    <3> QED
      BY <3>1, Alone
  <2>2. state' = "pending" /\ lock' = (IF running THEN h ELSE None)
    BY <1>1, Zenon DEF UpdateDesktopAccessPolicy
  <2>3. HandlerInv(h)'
    BY <2>1, <2>2, SMT DEF HandlerInv, Active
  <2> QED
    BY <2>1, <2>2, <2>3, SMT DEF RecordInv
<1>2. ASSUME NEW h \in Handlers, NEW a \in Accounts, CreateNativeDesktopConnection(h, a)
      PROVE Goal
  <2>1. (\A g \in Handlers : g # h => HandlerInv(g)') /\ handler'[h].phase = "bound"
    <3>1. lock = None /\ Becomes(h, "bound", "native", a, 0, {})
      BY <1>2, Zenon DEF CreateNativeDesktopConnection
    <3> QED
      BY <3>1, Alone
  <2>2. HandlerInv(h)'
    BY <1>2, <2>1, SMT DEF HandlerInv, Active, CreateNativeDesktopConnection
  <2>3. RecordInv'
    BY <1>2, SMT DEF RecordInv, Good, CreateNativeDesktopConnection, policy, inGuest
  <2> QED
    BY <2>1, <2>2, <2>3, Zenon
<1>3. ASSUME NEW h \in Handlers, NEW a \in Accounts, PrepareAgentGuestSession(h, a)
      PROVE Goal
  <2>1. /\ \A g \in Handlers : g # h => HandlerInv(g)'
        /\ handler'[h].phase = (IF PolicyCurrent THEN "account" ELSE "bound")
        /\ handler'[h].account = a /\ handler'[h].rev = desired
        /\ handler'[h].todo = (IF PolicyCurrent THEN OwnCommand(a) ELSE {})
    <3>1. lock = None /\ Becomes(h, IF PolicyCurrent THEN "account" ELSE "bound", "agent", a, desired,
                                IF PolicyCurrent THEN OwnCommand(a) ELSE {})
      BY <1>3, Zenon DEF PrepareAgentGuestSession
    <3> QED
      BY <3>1, Alone
  <2>2. lock' = h /\ UNCHANGED <<desired, applied, state, usable, guest, superseded>>
    BY <1>3, Zenon DEF PrepareAgentGuestSession, policy, inGuest
  <2>3. PolicyCurrent => a \in OwnCommand(a) \/ Good(a)'
    BY <2>2, SMT DEF PolicyCurrent, OwnCommand, RecordInv, Good
  <2>4. HandlerInv(h)'
    BY <2>1, <2>2, <2>3, SMT DEF HandlerInv, Active
  <2>5. RecordInv'
    BY <2>2, SMT DEF RecordInv, Good
  <2> QED
    BY <2>1, <2>4, <2>5, Zenon
<1>4. ASSUME NEW h \in Handlers, ReconcileDesktopAccessPolicy(h)
      PROVE Goal
  <2>1. Active(h) /\ lock = h
    BY <1>4, SMT DEF ReconcileDesktopAccessPolicy, Active, HandlerInv
  <2>b. Becomes(h, "session", handler[h].kind, handler[h].account, desired, {Session})
    BY <1>4, Zenon DEF ReconcileDesktopAccessPolicy
  <2>2. /\ \A g \in Handlers : g # h => HandlerInv(g)'
        /\ handler'[h].phase = "session" /\ handler'[h].rev = desired /\ handler'[h].todo = {Session}
    BY <2>1, <2>b, Alone
  <2>3. HandlerInv(h)'
    BY <1>4, <2>1, <2>2, SMT DEF HandlerInv, Active, ReconcileDesktopAccessPolicy, policy
  <2>4. RecordInv'
    BY <1>4, SMT DEF RecordInv, Good, ReconcileDesktopAccessPolicy, policy, inGuest
  <2> QED
    BY <2>2, <2>3, <2>4, Zenon
<1>5. ASSUME NEW h \in Handlers, NEW t \in Targets, CommandSucceeds(h, t)
      PROVE Goal
  <2>1. Active(h) /\ lock = h /\ handler[h].rev = desired /\ t \in handler[h].todo
    BY <1>5, SMT DEF CommandSucceeds, Sending, Active, HandlerInv
  <2>2. UNCHANGED <<desired, applied, state, bound, usable, lock>>
    BY <1>5, Zenon DEF CommandSucceeds, policy
  <2>3. Good(t)' /\ \A x \in Targets : Good(x) => Good(x)'
    BY <1>5, <2>2, EnforceGood, Zenon DEF CommandSucceeds
  <2>4. RecordInv'
    BY <1>a, <2>2, <2>3, Zenon DEF RecordInv
  <2>5. CASE handler[h].phase = "session"
    <3>b. Becomes(h, "accounts", handler[h].kind, handler[h].account, handler[h].rev, bound \cup {Vdi})
      BY <1>5, <2>5, Zenon DEF CommandSucceeds, Moves
    <3>1. /\ \A g \in Handlers : g # h => HandlerInv(g)'
          /\ handler'[h].phase = "accounts" /\ handler'[h].rev = desired
          /\ handler'[h].todo = bound \cup {Vdi}
      BY <2>1, <3>b, Alone
    <3>2. Good(Session)'
      BY <2>1, <2>3, <2>5, SMT DEF HandlerInv
    <3>3. \A x \in ({Session, Vdi} \cup bound') \ handler'[h].todo : Good(x)'
      BY <2>2, <3>1, <3>2, Zenon
    <3>4. HandlerInv(h)'
      BY <2>1, <2>2, <3>1, <3>3, SMT DEF HandlerInv, Active
    <3> QED
      BY <2>4, <3>1, <3>4, Zenon
  <2>6. CASE handler[h].phase # "session"
    <3>b. Becomes(h, handler[h].phase, handler[h].kind, handler[h].account, handler[h].rev, handler[h].todo \ {t})
      BY <1>5, <2>6, Zenon DEF CommandSucceeds, Moves
    <3>1. /\ \A g \in Handlers : g # h => HandlerInv(g)'
          /\ handler'[h].phase = handler[h].phase /\ handler'[h].rev = desired
          /\ handler'[h].account = handler[h].account
          /\ handler'[h].todo = handler[h].todo \ {t}
      BY <2>1, <3>b, Alone
    <3>2. handler[h].phase \in {"accounts", "account"}
      BY <1>5, <2>6, SMT DEF CommandSucceeds, Sending
    <3>3. handler[h].phase = "accounts" =>
            \A x \in ({Session, Vdi} \cup bound') \ handler'[h].todo : Good(x)'
      BY <1>a, <2>2, <2>3, <3>1, SMT DEF HandlerInv
    <3>4. handler[h].phase = "account" =>
            handler[h].account \in handler'[h].todo \/ handler[h].account \notin bound' \/ Good(handler[h].account)'
      BY <1>a, <2>2, <2>3, <3>1, SMT DEF HandlerInv
    <3>5. HandlerInv(h)'
      BY <2>1, <2>2, <3>1, <3>2, <3>3, <3>4, SMT DEF HandlerInv, Active
    <3> QED
      BY <2>4, <3>1, <3>5, Zenon
  <2> QED
    BY <2>5, <2>6
<1>6. ASSUME NEW h \in Handlers, NEW t \in Targets, NEW late \in BOOLEAN, CommandFails(h, t, late)
      PROVE Goal
  <2>1. Active(h) /\ lock = h /\ handler[h].rev = desired
    BY <1>6, SMT DEF CommandFails, Sending, Active, HandlerInv
  <2>2. UNCHANGED <<desired, applied, state, guest, superseded>>
    BY <1>6, Zenon DEF CommandFails, policy
  <2>3. CASE Return(h, Dropped(h))
    BY <2>1, <2>2, <2>3, ReturnKeeps, Zenon DEF RecordInv, Good
  <2>4. CASE Goes(h, "failing")
    BY <2>1, <2>2, <2>4, FailingKeeps, Zenon DEF RecordInv, Good
  <2> QED
    BY <1>6, <2>3, <2>4, Zenon DEF CommandFails
<1>7. ASSUME NEW h \in Handlers, MarkDesktopAccessPolicyApplied(h)
      PROVE Goal
  <2>1. /\ Active(h) /\ lock = h /\ handler[h].rev = desired /\ StillDesired(h)
        /\ \A x \in {Session, Vdi} \cup bound : Good(x)
    BY <1>7, SMT DEF MarkDesktopAccessPolicyApplied, StillDesired, Active, HandlerInv
  <2>2. /\ desired' = desired /\ applied' = desired /\ UNCHANGED <<guest, superseded>>
        /\ Return(h, {}) \/ Goes(h, "issuing")
    BY <1>7, <2>1, Zenon DEF MarkDesktopAccessPolicyApplied, inGuest
  <2>3. CASE Return(h, {})
    BY <1>a, <2>1, <2>2, <2>3, ReturnKeeps, Zenon DEF RecordInv, Good
  <2>4. CASE Goes(h, "issuing")
    <3>b. Becomes(h, "issuing", handler[h].kind, handler[h].account, handler[h].rev, handler[h].todo)
      BY <2>4, Zenon DEF Goes, Moves
    <3>1. /\ \A g \in Handlers : g # h => HandlerInv(g)'
          /\ handler'[h].phase = "issuing" /\ handler'[h].rev = desired
          /\ handler'[h].account = handler[h].account
      BY <2>1, <3>b, Alone
    <3>2. UNCHANGED <<lock, bound, usable>>
      BY <2>4, Zenon DEF Goes
    <3>3. handler[h].account \notin bound' \/ Good(handler[h].account)'
      BY <2>1, <2>2, <3>1, <3>2, Zenon DEF Good
    <3>4. HandlerInv(h)'
      BY <2>1, <2>2, <3>1, <3>2, <3>3, SMT DEF HandlerInv, Active
    <3>5. RecordInv'
      BY <1>a, <2>1, <2>2, <3>2, Zenon DEF RecordInv, Good
    <3> QED
      BY <3>1, <3>4, <3>5, Zenon
  <2> QED
    BY <2>2, <2>3, <2>4
<1>8. ASSUME NEW h \in Handlers, MarkDesktopAccessPolicyFailed(h)
      PROVE Goal
  <2>1. Active(h) /\ Return(h, Dropped(h)) /\ UNCHANGED <<desired, applied, guest, superseded>>
    BY <1>8, SMT DEF MarkDesktopAccessPolicyFailed, Active, inGuest
  <2>2. state' = "failed" \/ state' = state
    BY <1>8, Zenon DEF MarkDesktopAccessPolicyFailed
  <2>3. usable' \subseteq usable /\ \A g \in Handlers : HandlerInv(g)'
    BY <2>1, ReturnKeeps, Zenon
  <2> QED
    BY <2>1, <2>2, <2>3, SMT DEF RecordInv, Good
<1>9. ASSUME NEW h \in Handlers, Issue(h)
      PROVE Goal
  <2>1. Active(h)
    BY <1>9, SMT DEF Issue, Active
  <2>2. (\A g \in Handlers : g # h => HandlerInv(g)') /\ handler'[h].phase = "done"
    <3>1. Becomes(h, "done", handler[h].kind, handler[h].account, handler[h].rev, {})
      BY <1>9, Zenon DEF Issue, Moves
    <3> QED
      BY <2>1, <3>1, Alone
  <2>3. UNCHANGED <<desired, applied, state, bound, guest, superseded>>
    BY <1>9, Zenon DEF Issue, policy, inGuest
  <2>4. \A x \in usable' : x \in usable \/ Good(x)
    <3>1. StillBound(h) => Good(handler[h].account)
      BY <1>9, SMT DEF Issue, StillBound, HandlerInv
    <3> QED
      BY <1>9, <3>1, Zenon DEF Issue
  <2>5. RecordInv'
    BY <2>3, <2>4, Zenon DEF RecordInv, Good
  <2> QED
    BY <2>2, <2>5, Finished, Zenon
<1>10. ASSUME NEW h \in Handlers, RequestCanceled(h)
       PROVE Goal
  <2>1. Active(h) /\ Return(h, Dropped(h)) /\ UNCHANGED <<desired, applied, state, guest, superseded>>
    BY <1>10, Zenon DEF RequestCanceled, Active, policy
  <2> QED
    BY <2>1, ReturnKeeps, Zenon DEF RecordInv, Good
<1>11. ASSUME NEW h \in Handlers, LoseLock(h)
       PROVE Goal
  BY <1>11, SMT DEF LoseLock, TypeOK
<1>12. ASSUME NEW a \in Accounts, DisableBinding(a)
       PROVE Goal
  <2>1. /\ bound' \subseteq bound /\ usable' \subseteq usable
        /\ UNCHANGED <<desired, applied, state, lock, handler, guest, superseded>>
    BY <1>12, Zenon DEF DisableBinding, policy, inGuest
  <2> QED
    BY <2>1, SMT DEF RecordInv, HandlerInv, Active, Good
<1>13. ASSUME NEW t \in Targets, NEW rev \in 1..MaxRevision, StrayLands(t, rev)
       PROVE Goal
  <2>1. UNCHANGED <<desired, applied, state, bound, usable, lock, handler>>
    BY <1>13, Zenon DEF StrayLands, policy
  <2>2. \A x \in Targets : Good(x) => Good(x)'
    BY <1>13, <2>1, EnforceGood, Zenon DEF StrayLands
  <2>3. RecordInv'
    BY <1>a, <2>1, <2>2, Zenon DEF RecordInv
  <2>4. ASSUME NEW g \in Handlers PROVE HandlerInv(g)'
    <3>1. HandlerInv(g)
      OBVIOUS
    <3> QED
      BY <1>a, <2>1, <2>2, <3>1, SMT DEF HandlerInv, Active
  <2> QED
    BY <2>3, <2>4
<1> QED
  BY <1>0, <1>1, <1>2, <1>3, <1>4, <1>5, <1>6, <1>7, <1>8, <1>9, <1>10, <1>11, <1>12, <1>13, Zenon DEF Next

\* The inductive invariant holds throughout.
THEOREM Invariant == Spec => []IInv
<1>1. IInv /\ [Next]_vars => IInv'
  <2> SUFFICES ASSUME IInv, [Next]_vars PROVE IInv'
    OBVIOUS
  <2>1. TypeOK' /\ ReadFromRow'
    BY TypeStep DEF IInv
  <2>2. faults' = 0 => faults = 0 /\ faults' = faults
    <3>1. faults \in Nat
      BY PolicyAssumption, SMT DEF IInv, TypeOK
    <3>2. faults' = faults \/ \E h \in Handlers : LoseLock(h)
      BY Zenon DEF Next, vars, UpdateDesktopAccessPolicy, CreateNativeDesktopConnection,
         PrepareAgentGuestSession, ReconcileDesktopAccessPolicy, CommandSucceeds, CommandFails,
         MarkDesktopAccessPolicyApplied, MarkDesktopAccessPolicyFailed, Issue, RequestCanceled,
         DisableBinding, StrayLands
    <3> QED
      BY <3>1, <3>2, SMT DEF LoseLock
  <2>3. faults' = 0 => RecordInv' /\ \A g \in Handlers : HandlerInv(g)'
    BY <2>2, PolicyStep, Zenon DEF IInv
  <2> QED
    BY <2>1, <2>3, Zenon DEF IInv
<1> QED
  BY InitHolds, <1>1, PTL DEF Spec

\* Every variable has its type, and a credential is never usable on an
\* account that is no longer bound.
THEOREM TypeCorrect == Spec => []TypeOK
<1>1. IInv => TypeOK
  BY DEF IInv
<1> QED
  BY Invariant, <1>1, PTL

\* A policy recorded as applied is the one asked for and the guest enforces
\* it on the session and every usable account, unless a lock was lost
\* (applyDesktopAccessPolicy, MarkDesktopAccessPolicyApplied).
THEOREM AppliedMeansEnforced == Spec => []AppliedIsEnforced
<1>1. IInv => AppliedIsEnforced
  BY Zenon DEF IInv, RecordInv, Good, AppliedIsEnforced
<1> QED
  BY Invariant, <1>1, PTL

\* The applied revision never goes back, whatever locks were lost: the
\* record is written only if the revision is still the wanted one
\* (MarkDesktopAccessPolicyApplied).
THEOREM AppliedAdvances == Spec => AppliedOnlyAdvances
<1>1. IInv /\ [Next]_vars => [applied' >= applied]_vars
  <2> SUFFICES ASSUME IInv, [Next]_vars PROVE applied' >= applied
    OBVIOUS
  <2>1. applied \in Nat /\ desired \in Nat /\ applied <= desired
    BY PolicyAssumption, SMT DEF IInv, TypeOK
  <2>2. applied' = applied \/ applied' = desired
    <3>1. ASSUME NEW h \in Handlers, MarkDesktopAccessPolicyApplied(h)
          PROVE applied' = applied \/ applied' = desired
      BY <3>1, Zenon DEF MarkDesktopAccessPolicyApplied, StillDesired
    <3> QED
      BY <3>1, Zenon DEF Next, vars, policy, UpdateDesktopAccessPolicy, CreateNativeDesktopConnection,
         PrepareAgentGuestSession, ReconcileDesktopAccessPolicy, CommandSucceeds, CommandFails,
         MarkDesktopAccessPolicyFailed, Issue, RequestCanceled, DisableBinding, StrayLands, LoseLock
  <2> QED
    BY <2>1, <2>2, SMT
<1> QED
  BY Invariant, <1>1, PTL DEF Spec, AppliedOnlyAdvances
=============================================================================
