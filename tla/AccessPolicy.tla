---------------------------- MODULE AccessPolicy ----------------------------
(***************************************************************************)
(* The access policy of one desktop: what an administrator asked for, what *)
(* the control plane recorded as applied, and what the guest enforces.     *)
(*                                                                         *)
(* The policy reaches the guest as one command for the session settings    *)
(* and one for each managed account, sent in turn by a handler that holds  *)
(* the desktop lock. A command that outlives its time limit is abandoned,  *)
(* not stopped: it may still take effect. The lock is a database session;  *)
(* when that session breaks the handler goes on without it.                *)
(*                                                                         *)
(* A revision stands for the settings saved under it. What the guest       *)
(* enforces is the revision of the last command that took effect; 0 is an  *)
(* account no policy command has reached.                                  *)
(***************************************************************************)
EXTENDS Naturals, FiniteSets

CONSTANTS Handlers, Accounts, MaxRevision, MaxFaults, None

ASSUME PolicyAssumption ==
  /\ None \notin Handlers \cup Accounts
  /\ MaxRevision \in Nat \ {0} /\ MaxFaults \in Nat

\* The target of desktopSessionPolicyCommand, and the account every guest has.
Session == "session"
Vdi == "vdi"
Targets == Accounts \cup {Session, Vdi}

VARIABLES
  desired, applied, state,  \* desktop_access_policies
  bound,      \* accounts whose binding is provisioning or ready
  usable,     \* accounts a credential was issued for
  lock,       \* the handler whose database session holds the desktop lock
  handler,    \* what each request is doing
  guest,      \* the revision enforced for each target
  stray,      \* abandoned commands that may still take effect
  superseded, \* targets last written by a command for an older revision
  faults      \* how often a lock was lost

vars == <<desired, applied, state, bound, usable, lock, handler, guest, stray, superseded, faults>>
policy == <<desired, applied, state>>
inGuest == <<guest, stray, superseded>>

\* rev: the policy as this request read it. todo: targets not yet written.
Idle == [phase |-> "idle", kind |-> "update", account |-> None, rev |-> 0, todo |-> {}]

Init ==
  /\ desired = 1 /\ applied = 0 /\ state = "pending"
  /\ bound = {} /\ usable = {}
  /\ lock = None
  /\ handler = [h \in Handlers |-> Idle]
  /\ guest = [t \in Targets |-> 0]
  /\ stray = {} /\ superseded = {}
  /\ faults = 0

\* (mutant) the lock is not released
StillLocked(h) == lock

Unlocked(h) == IF lock = h THEN None ELSE lock

\* A failed agent session is queued for revocation as its handler returns.
Dropped(h) == IF handler[h].kind = "agent" THEN {handler[h].account} ELSE {}

Becomes(h, phase, kind, account, rev, todo) ==
  handler' = [handler EXCEPT ![h] =
    [phase |-> phase, kind |-> kind, account |-> account, rev |-> rev, todo |-> todo]]

\* The request goes on as what it is, with the policy it read.
Moves(h, phase, todo) == Becomes(h, phase, handler[h].kind, handler[h].account, handler[h].rev, todo)

Return(h, dropped) ==
  /\ Moves(h, "done", {})
  /\ lock' = Unlocked(h)
  /\ bound' = bound \ dropped
  /\ usable' = usable \ dropped

Goes(h, phase) == Moves(h, phase, handler[h].todo) /\ UNCHANGED <<lock, bound, usable>>

-----------------------------------------------------------------------------
(* The requests                                                            *)

\* updateDesktopAccessPolicy and PutDesktopAccessPolicy: the revision grows
\* only if a setting changed. A desktop that is not running is left for the
\* next connection.
UpdateDesktopAccessPolicy(h, changed, running) ==
  /\ handler[h].phase = "idle" /\ lock = None
  /\ changed => desired < MaxRevision
  /\ desired' = IF changed THEN desired + 1 ELSE desired
  /\ state' = "pending"
  /\ Becomes(h, IF running THEN "session" ELSE "done", "update", None, desired',
             IF running THEN {Session} ELSE {})
  /\ lock' = IF running THEN h ELSE None
  /\ UNCHANGED <<applied, bound, usable, inGuest, faults>>

\* createNativeDesktopConnection: the earlier connection is retired, the
\* account prepared and bound, and the policy applied whatever the row says.
CreateNativeDesktopConnection(h, a) ==
  /\ handler[h].phase = "idle" /\ lock = None /\ lock' = h
  /\ bound' = bound \cup {a} /\ usable' = usable \ {a}
  /\ Becomes(h, "bound", "native", a, 0, {})
  /\ UNCHANGED <<policy, inGuest, faults>>

PolicyCurrent == state = "applied" /\ applied = desired

\* (mutant) a current policy is taken to hold for a new account as well
NoCommand(a) == {}

\* A new account needs its own command; a ready one has had it.
OwnCommand(a) == {a} \ usable

\* prepareAgentGuestSession: when the policy is current, a new account gets
\* its own command and a ready one none; otherwise the policy is applied.
PrepareAgentGuestSession(h, a) ==
  /\ handler[h].phase = "idle" /\ lock = None /\ lock' = h
  /\ bound' = bound \cup {a} /\ UNCHANGED usable
  /\ Becomes(h, IF PolicyCurrent THEN "account" ELSE "bound", "agent", a, desired,
             IF PolicyCurrent THEN OwnCommand(a) ELSE {})
  /\ UNCHANGED <<policy, inGuest, faults>>

\* The row is read and the session settings are sent first.
ReconcileDesktopAccessPolicy(h) ==
  /\ handler[h].phase = "bound"
  /\ Becomes(h, "session", handler[h].kind, handler[h].account, desired, {Session})
  /\ UNCHANGED <<policy, bound, usable, lock, inGuest, faults>>

-----------------------------------------------------------------------------
(* Commands in the guest                                                   *)

\* The guest now enforces `rev` for `t`.
Enforce(t, rev) ==
  /\ guest' = [guest EXCEPT ![t] = rev]
  /\ superseded' = IF rev = desired THEN superseded \ {t} ELSE superseded \cup {t}

Sending(h, t) == handler[h].phase \in {"session", "accounts", "account"} /\ t \in handler[h].todo

\* The accounts are read from the bindings after the session command.
CommandSucceeds(h, t) ==
  /\ Sending(h, t)
  /\ Enforce(t, handler[h].rev)
  /\ IF handler[h].phase = "session" THEN Moves(h, "accounts", bound \cup {Vdi})
                                     ELSE Moves(h, handler[h].phase, handler[h].todo \ {t})
  /\ UNCHANGED <<policy, bound, usable, lock, stray, faults>>

\* The command exits with an error or runs out of time; in the second case
\* it is still in the guest.
CommandFails(h, t, late) ==
  /\ Sending(h, t)
  /\ stray' = IF late THEN stray \cup {<<t, handler[h].rev>>} ELSE stray
  /\ IF handler[h].phase = "account" THEN Return(h, Dropped(h)) ELSE Goes(h, "failing")
  /\ UNCHANGED <<policy, guest, superseded, faults>>

\* The client hangs up: with the request's context gone nothing can be sent
\* or recorded any more.
RequestCanceled(h) ==
  /\ handler[h].phase \notin {"idle", "done"}
  /\ \/ UNCHANGED stray
     \/ \E t \in handler[h].todo : stray' = stray \cup {<<t, handler[h].rev>>}
  /\ Return(h, Dropped(h))
  /\ UNCHANGED <<policy, guest, superseded, faults>>

StrayLands(t, rev) ==
  /\ <<t, rev>> \in stray
  /\ stray' = stray \ {<<t, rev>>}
  /\ Enforce(t, rev)
  /\ UNCHANGED <<policy, bound, usable, lock, handler, faults>>

-----------------------------------------------------------------------------
(* The outcome                                                             *)

StillDesired(h) == desired = handler[h].rev

MarkDesktopAccessPolicyApplied(h) ==
  /\ handler[h].phase = "accounts" /\ handler[h].todo = {}
  /\ IF StillDesired(h)
     THEN /\ applied' = handler[h].rev /\ state' = "applied"
          /\ IF handler[h].kind = "update" THEN Return(h, {}) ELSE Goes(h, "issuing")
     ELSE Goes(h, "failing") /\ UNCHANGED <<applied, state>>
  /\ UNCHANGED <<desired, inGuest, faults>>

MarkDesktopAccessPolicyFailed(h) ==
  /\ handler[h].phase = "failing"
  /\ state' = IF StillDesired(h) THEN "failed" ELSE state
  /\ Return(h, Dropped(h))
  /\ UNCHANGED <<desired, applied, inGuest, faults>>

StillBound(h) == handler[h].account \in bound

\* The credential of the prepared account is issued, or the agent's login
\* begun, if the binding was not disabled meanwhile.
Issue(h) ==
  /\ handler[h].phase = "issuing" \/ (handler[h].phase = "account" /\ handler[h].todo = {})
  /\ Moves(h, "done", {}) /\ lock' = Unlocked(h)
  /\ usable' = IF StillBound(h) THEN usable \cup {handler[h].account} ELSE usable
  /\ UNCHANGED <<policy, bound, inGuest, faults>>

-----------------------------------------------------------------------------
\* Access was taken away, or the session ended: the binding is disabled and
\* the account locked.
DisableBinding(a) ==
  /\ a \in bound
  /\ bound' = bound \ {a}
  /\ usable' = usable \ {a}
  /\ UNCHANGED <<policy, lock, handler, inGuest, faults>>

\* The database session that holds the lock breaks under its handler.
LoseLock(h) ==
  /\ lock = h /\ faults < MaxFaults
  /\ lock' = None /\ faults' = faults + 1
  /\ UNCHANGED <<policy, bound, usable, handler, inGuest>>

Next ==
  \/ \E h \in Handlers :
       \/ \E changed, running \in BOOLEAN : UpdateDesktopAccessPolicy(h, changed, running)
       \/ \E a \in Accounts : CreateNativeDesktopConnection(h, a) \/ PrepareAgentGuestSession(h, a)
       \/ ReconcileDesktopAccessPolicy(h)
       \/ \E t \in Targets : CommandSucceeds(h, t) \/ \E late \in BOOLEAN : CommandFails(h, t, late)
       \/ MarkDesktopAccessPolicyApplied(h) \/ MarkDesktopAccessPolicyFailed(h) \/ Issue(h)
       \/ RequestCanceled(h) \/ LoseLock(h)
  \/ \E a \in Accounts : DisableBinding(a)
  \/ \E t \in Targets, rev \in 1..MaxRevision : StrayLands(t, rev)

Spec == Init /\ [][Next]_vars

Applying(h) == handler[h].phase \in {"session", "accounts", "failing"}

\* Each command of an application has a limit of its own, and its outcome is
\* one statement. Nothing is assumed of clients, administrators and late
\* commands, nor of what a handler does in the guest before and after an
\* application and with the command for a single account: those run as long
\* as the client waits.
FairSpec ==
  /\ Spec
  /\ \A h \in Handlers :
       /\ WF_vars(Applying(h) /\ \E t \in Targets :
                    CommandSucceeds(h, t) \/ \E late \in BOOLEAN : CommandFails(h, t, late))
       /\ WF_vars(MarkDesktopAccessPolicyApplied(h) \/ MarkDesktopAccessPolicyFailed(h))

-----------------------------------------------------------------------------
\* Every variable has its type, and only a bound account is usable.
TypeOK ==
  /\ desired \in 1..MaxRevision /\ applied \in 0..desired
  /\ state \in {"pending", "applied", "failed"}
  /\ bound \subseteq Accounts /\ usable \subseteq bound
  /\ lock \in Handlers \cup {None}
  /\ handler \in [Handlers -> [phase : {"idle", "bound", "session", "accounts", "account", "failing", "issuing", "done"},
                               kind : {"update", "native", "agent"}, account : Accounts \cup {None},
                               rev : 0..MaxRevision, todo : SUBSET Targets]]
  /\ guest \in [Targets -> 0..MaxRevision]
  /\ stray \subseteq Targets \X (1..MaxRevision) /\ superseded \subseteq Targets
  /\ faults \in 0..MaxFaults

\* As long as no handler has lost its lock, a policy recorded as applied is the one
\* asked for, and the guest enforces it on the session and on every account
\* in use. The exception is a target last reached by a command of an older
\* revision that was abandoned at its time limit (applyDesktopAccessPolicy,
\* prepareAgentGuestSession's shortcut, MarkDesktopAccessPolicyApplied).
AppliedIsEnforced ==
  state = "applied" /\ faults = 0 =>
    /\ applied = desired
    /\ \A t \in {Session, Vdi} \cup usable : guest[t] = desired \/ t \in superseded

\* The applied revision never goes back, even when two handlers apply at once
\* because one lost the lock (MarkDesktopAccessPolicyApplied).
AppliedOnlyAdvances == [][applied' >= applied]_vars

\* An application that began ends, however its commands fail, run late or
\* lose the lock under it, and an update does not leave the desktop lock
\* behind. (That the policy then has a verdict is not said: the request may be
\* cancelled, and a preparation goes on with the lock in its hands.)
\* (applyDesktopAccessPolicy, reconcileDesktopAccessPolicy)
ApplicationEnds ==
  \A h \in Handlers :
    /\ Applying(h) ~> ~Applying(h)
    /\ (lock = h /\ handler[h].kind = "update") ~> (lock # h)
=============================================================================
