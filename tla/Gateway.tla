------------------------------- MODULE Gateway -------------------------------
(***************************************************************************)
(* The session gateway: single-use tickets and short leases in the store,  *)
(* the control calls that carry them, and the relays that carry RDP bytes. *)
(*                                                                         *)
(* A tunnel is one client socket from admission to its last clean-up.  The *)
(* clock is shared: the code only ever adds durations to instants of one   *)
(* machine, and the relay counts a grant from the moment it asked for it.  *)
(***************************************************************************)
EXTENDS Naturals, FiniteSets

CONSTANTS
    Conns,          \* desktop connections, each with at most one ticket
    Gateways,       \* enrolled gateway identities
    Tunnels,        \* client sockets, each used once
    None,           \* no gateway, no connection, no tunnel
    Expiry,         \* when each connection or its signed-in session ends
    MaxConnections, \* slots of a gateway
    Window,         \* GatewayAuthorizationWindow
    TicketLife,     \* how long an unused ticket is good for
    ControlTimeout, \* deadline of a control call
    MaxTime,        \* bound on the clock
    MaxRev          \* bound on policy revisions

ASSUME GatewayAssumption ==
    /\ {MaxConnections, Window, TicketLife, ControlTimeout, MaxTime, MaxRev} \subseteq Nat \ {0}
    /\ Expiry \in [Conns -> Nat]
    /\ None \notin Conns \cup Gateways \cup Tunnels

VARIABLES
    now,
    lost,       \* when the authority behind a connection's ticket ended; 0: not yet
    held,       \* an account change or identity revocation is pending
    policy,     \* desired and applied revision of the desktop's policy
    ticketGw,   \* gateway a ticket is bound to; None: no ticket was minted
    ticketRev, ticketExp, consumedBy, leaseUntil, ticketClosed,
    closeReqs,  \* closures on their way to the store
    phase, gw, ticket, deadline, renewAt,
    call,       \* the control call of a tunnel, and its answer
    workers,    \* handlers admitted by Transport, per gateway
    slots,      \* slots of the relay in use, per gateway
    draining, joined

storeVars == <<lost, held, policy, ticketGw, ticketRev, ticketExp, consumedBy, leaseUntil, ticketClosed>>
tunnelVars == <<phase, gw, ticket, deadline, renewAt>>
serviceVars == <<workers, slots, draining, joined>>
vars == <<now, storeVars, closeReqs, tunnelVars, call, serviceVars>>

NoCall == [st |-> "none", sent |-> 0, valid |-> 0, rev |-> 0]

\* The timer that is not armed: no instant of the bounded clock reaches it.
Unarmed == MaxTime + 1

Earlier(a, b) == IF a < b THEN a ELSE b

------------------------------------------------------------------------------
(* The store.                                                              *)

\* gatewayAccess: the connection is active and unexpired, nothing about its
\* account is pending, and the policy it was opened under is applied.
Access(c) ==
    /\ lost[c] = 0
    /\ now < Expiry[c]
    /\ ~held
    /\ policy.desired = policy.applied

\* One ticket per connection, for one gateway and one policy revision.
CreateNativeGatewayTicket(c, g) ==
    /\ ticketGw[c] = None
    /\ Access(c)
    /\ ticketGw' = [ticketGw EXCEPT ![c] = g]
    /\ ticketRev' = [ticketRev EXCEPT ![c] = policy.desired]
    /\ ticketExp' = [ticketExp EXCEPT ![c] = Earlier(Expiry[c], now + TicketLife)]
    /\ UNCHANGED <<now, lost, held, policy, consumedBy, leaseUntil, ticketClosed,
                   closeReqs, tunnelVars, call, serviceVars>>

Redeemable(c, g) ==
    /\ Access(c)
    /\ ticketGw[c] = g
    /\ consumedBy[c] = None
    /\ now < ticketExp[c]
    /\ ticketRev[c] = policy.desired

Renewable(c) ==
    /\ Access(c)
    /\ ~ticketClosed[c]
    /\ now < leaseUntil[c]
    /\ ticketRev[c] = policy.desired

LeaseEnd(c) == Earlier(Expiry[c], now + Window)

\* The answer goes to the tunnel that asked, if it still waits.
Waiting(t) == phase[t] \in {"redeeming", "relaying"}
Answered(t, answer) == [call EXCEPT ![t] = IF Waiting(t) THEN answer ELSE NoCall]
GrantTo(t, c) ==
    Answered(t, [call[t] EXCEPT !.st = "granted", !.valid = LeaseEnd(c) - now, !.rev = ticketRev[c]])
Refuse(t) == Answered(t, [call[t] EXCEPT !.st = "refused"])

\* The redemption commits or is refused whether or not its caller still waits.
RedeemNativeGatewayTicket(t) ==
    LET c == ticket[t] IN
    /\ call[t].st = "redeem"
    /\ \/ /\ Redeemable(c, gw[t])
          /\ consumedBy' = [consumedBy EXCEPT ![c] = t]
          /\ leaseUntil' = [leaseUntil EXCEPT ![c] = LeaseEnd(c)]
          /\ call' = GrantTo(t, c)
       \/ /\ ~Redeemable(c, gw[t])
          /\ call' = Refuse(t)
          /\ UNCHANGED <<consumedBy, leaseUntil>>
    /\ UNCHANGED <<now, lost, held, policy, ticketGw, ticketRev, ticketExp, ticketClosed,
                   closeReqs, tunnelVars, serviceVars>>

RenewNativeGatewayGrant(t) ==
    LET c == ticket[t] IN
    /\ call[t].st = "renew"
    /\ \/ /\ Renewable(c)
          /\ leaseUntil' = [leaseUntil EXCEPT ![c] = LeaseEnd(c)]
          /\ call' = GrantTo(t, c)
       \/ /\ ~Renewable(c)
          /\ call' = Refuse(t)
          /\ UNCHANGED leaseUntil
    /\ UNCHANGED <<now, lost, held, policy, ticketGw, ticketRev, ticketExp, consumedBy, ticketClosed,
                   closeReqs, tunnelVars, serviceVars>>

CloseNativeGatewayGrant(c) ==
    /\ c \in closeReqs
    /\ closeReqs' = closeReqs \ {c}
    /\ ticketClosed' = [ticketClosed EXCEPT ![c] = TRUE]
    /\ UNCHANGED <<now, lost, held, policy, ticketGw, ticketRev, ticketExp, consumedBy, leaseUntil,
                   tunnelVars, call, serviceVars>>

\* What ends or suspends authority: the connection is released or revoked or
\* its session signed out; an account change begins or settles; the policy is
\* rewritten, which no ticket of an older revision survives, and applied.
Noted(C) == [c \in Conns |-> IF c \in C /\ lost[c] = 0 THEN now ELSE lost[c]]

LoseConnection(c) ==
    /\ lost[c] = 0
    /\ lost' = Noted({c})
    /\ UNCHANGED <<held, policy>>

HoldDesktop ==
    /\ held' = ~held
    /\ UNCHANGED <<lost, policy>>

PutPolicy ==
    /\ policy.desired < MaxRev
    /\ policy' = [policy EXCEPT !.desired = @ + 1]
    /\ lost' = Noted({c \in Conns : ticketGw[c] # None})
    /\ UNCHANGED held

ApplyPolicy ==
    /\ policy.applied < policy.desired
    /\ policy' = [policy EXCEPT !.applied = policy.desired]
    /\ UNCHANGED <<lost, held>>

AuthorityChanges ==
    /\ HoldDesktop \/ PutPolicy \/ ApplyPolicy \/ \E c \in Conns : LoseConnection(c)
    /\ UNCHANGED <<now, ticketGw, ticketRev, ticketExp, consumedBy, leaseUntil, ticketClosed,
                   closeReqs, tunnelVars, call, serviceVars>>

------------------------------------------------------------------------------
(* A gateway.  Transport admits a socket and reads its ticket; the relay    *)
(* redeems it, dials the desktop, copies bytes and renews the lease.       *)

\* Admission and the wait group change under one mutex, so that nobody is
\* admitted once Close has begun to wait.
Admit(t, g) ==
    /\ phase[t] = "new"
    /\ ~draining[g]
    /\ workers[g] < MaxConnections
    /\ phase' = [phase EXCEPT ![t] = "admitted"]
    /\ gw' = [gw EXCEPT ![t] = g]
    /\ workers' = [workers EXCEPT ![g] = @ + 1]
    /\ UNCHANGED <<now, storeVars, closeReqs, ticket, deadline, renewAt, call,
                   slots, draining, joined>>

\* A usable first frame: the relay takes a slot and sends the redemption.
\* (That it always finds a slot is the invariant CountsAgree.)
Serve(t, c) ==
    /\ phase[t] = "admitted"
    /\ ticketGw[c] # None
    /\ slots[gw[t]] < MaxConnections
    /\ phase' = [phase EXCEPT ![t] = "redeeming"]
    /\ ticket' = [ticket EXCEPT ![t] = c]
    /\ slots' = [slots EXCEPT ![gw[t]] = @ + 1]
    /\ call' = [call EXCEPT ![t] = [NoCall EXCEPT !.st = "redeem", !.sent = now]]
    /\ UNCHANGED <<now, storeVars, closeReqs, gw, deadline, renewAt, workers, draining, joined>>

\* (mutant) A rejected frame returns before its worker is counted off.
RejectFrameLeaking(t) ==
    /\ phase[t] = "admitted"
    /\ phase' = [phase EXCEPT ![t] = "done"]
    /\ UNCHANGED <<now, storeVars, closeReqs, gw, ticket, deadline, renewAt, call, serviceVars>>

\* No frame within three seconds, or not a ticket.
RejectFrame(t) ==
    /\ phase[t] = "admitted"
    /\ phase' = [phase EXCEPT ![t] = "returned"]
    /\ UNCHANGED <<now, storeVars, closeReqs, gw, ticket, deadline, renewAt, call, serviceVars>>

\* A call that was sent stays on its way; an answer nobody waits for is lost.
Abandoned(t) ==
    IF call[t].st \in {"redeem", "renew"} THEN [NoCall EXCEPT !.st = call[t].st] ELSE NoCall

\* The relay returns: its slot is free before the handler's worker is done.
Release(t) ==
    /\ phase' = [phase EXCEPT ![t] = "returned"]
    /\ slots' = [slots EXCEPT ![gw[t]] = @ - 1]

\* Sockets and timers are stopped and the closure is sent before the slot is
\* given back.
Finish(t) ==
    /\ phase' = [phase EXCEPT ![t] = "closing"]
    /\ closeReqs' = closeReqs \cup {ticket[t]}
    /\ deadline' = [deadline EXCEPT ![t] = 0]
    /\ renewAt' = [renewAt EXCEPT ![t] = Unarmed]
    /\ call' = [call EXCEPT ![t] = Abandoned(t)]

\* (mutant) The lease is counted from the moment the answer is read.
GrantEndFromAnswer(t) == now + call[t].valid

\* The lease is counted from before the request was sent.
GrantEnd(t) == call[t].sent + call[t].valid

\* The control request is still within its own timeout.
CallInTime(t) == now < call[t].sent + ControlTimeout

Redeemed(t) ==
    /\ phase[t] = "redeeming"
    /\ call[t].st = "granted"
    /\ \/ /\ CallInTime(t)
          /\ now < GrantEnd(t)
          /\ phase' = [phase EXCEPT ![t] = "dialing"]
          /\ deadline' = [deadline EXCEPT ![t] = GrantEnd(t)]
          /\ call' = [call EXCEPT ![t] = NoCall]
          /\ UNCHANGED <<renewAt, closeReqs>>
       \/ /\ ~(CallInTime(t) /\ now < GrantEnd(t))
          /\ Finish(t)
    /\ UNCHANGED <<now, storeVars, gw, ticket, serviceVars>>

\* (mutant) A failed redemption keeps its slot.
RedemptionFailsLeaking(t) ==
    /\ phase[t] = "redeeming"
    /\ phase' = [phase EXCEPT ![t] = "returned"]
    /\ call' = [call EXCEPT ![t] = Abandoned(t)]
    /\ UNCHANGED <<now, storeVars, closeReqs, gw, ticket, deadline, renewAt, serviceVars>>

\* Refused, timed out, cancelled or lost: there is no tunnel id to close.
RedemptionFails(t) ==
    /\ phase[t] = "redeeming"
    /\ Release(t)
    /\ call' = [call EXCEPT ![t] = Abandoned(t)]
    /\ UNCHANGED <<now, storeVars, closeReqs, gw, ticket, deadline, renewAt, workers, draining, joined>>

Dial(t) ==
    /\ phase[t] = "dialing"
    /\ now < deadline[t]
    /\ phase' = [phase EXCEPT ![t] = "dialed"]
    /\ UNCHANGED <<now, storeVars, closeReqs, gw, ticket, deadline, renewAt, call, serviceVars>>

\* Both timers start when the client has been told that the tunnel is ready.
Ready(t) ==
    /\ phase[t] = "dialed"
    /\ now < deadline[t]
    /\ phase' = [phase EXCEPT ![t] = "relaying"]
    /\ renewAt' = [renewAt EXCEPT ![t] = now + (deadline[t] - now) \div 2]
    /\ UNCHANGED <<now, storeVars, closeReqs, gw, ticket, deadline, call, serviceVars>>

\* The desktop does not answer, the client is gone, or the lease ran out.
ConnectFails(t) ==
    /\ phase[t] \in {"dialing", "dialed"}
    /\ Finish(t)
    /\ UNCHANGED <<now, storeVars, gw, ticket, serviceVars>>

RenewTimer(t) ==
    /\ phase[t] = "relaying"
    /\ now >= renewAt[t]
    /\ renewAt' = [renewAt EXCEPT ![t] = Unarmed]
    /\ call' = [call EXCEPT ![t] = [NoCall EXCEPT !.st = "renew", !.sent = now]]
    /\ UNCHANGED <<now, storeVars, closeReqs, phase, gw, ticket, deadline, serviceVars>>

\* (mutant) The answer is not checked against the deadline it is to extend.
ExtendsExpired(t) == call[t].rev = ticketRev[ticket[t]] /\ now < GrantEnd(t)

\* An answer that comes at or after the old deadline extends nothing.
Extends(t) ==
    /\ CallInTime(t)
    /\ call[t].rev = ticketRev[ticket[t]]
    /\ now < deadline[t]
    /\ now < GrantEnd(t)

Renewed(t) ==
    /\ phase[t] = "relaying"
    /\ call[t].st = "granted"
    /\ \/ /\ Extends(t)
          /\ deadline' = [deadline EXCEPT ![t] = GrantEnd(t)]
          /\ renewAt' = [renewAt EXCEPT ![t] = now + (GrantEnd(t) - now) \div 2]
          /\ call' = [call EXCEPT ![t] = NoCall]
          /\ UNCHANGED <<phase, closeReqs>>
       \/ /\ ~Extends(t)
          /\ Finish(t)
    /\ UNCHANGED <<now, storeVars, gw, ticket, serviceVars>>

\* Refused, timed out or lost.
RenewalFails(t) ==
    /\ phase[t] = "relaying"
    /\ call[t].st # "none"
    /\ Finish(t)
    /\ UNCHANGED <<now, storeVars, gw, ticket, serviceVars>>

Expire(t) ==
    /\ phase[t] = "relaying"
    /\ now >= deadline[t]
    /\ Finish(t)
    /\ UNCHANGED <<now, storeVars, gw, ticket, serviceVars>>

\* The client or the desktop hangs up, or a socket fails.
CopyEnds(t) ==
    /\ phase[t] = "relaying"
    /\ Finish(t)
    /\ UNCHANGED <<now, storeVars, gw, ticket, serviceVars>>

Cancelled(t) ==
    /\ phase[t] = "relaying"
    /\ draining[gw[t]]
    /\ Finish(t)
    /\ UNCHANGED <<now, storeVars, gw, ticket, serviceVars>>

\* The closure was acknowledged, failed, or took longer than a second.
CloseAnswered(t) ==
    /\ phase[t] = "closing"
    /\ Release(t)
    /\ UNCHANGED <<now, storeVars, closeReqs, gw, ticket, deadline, renewAt, call,
                   workers, draining, joined>>

Return(t) ==
    /\ phase[t] = "returned"
    /\ phase' = [phase EXCEPT ![t] = "done"]
    /\ workers' = [workers EXCEPT ![gw[t]] = @ - 1]
    /\ UNCHANGED <<now, storeVars, closeReqs, gw, ticket, deadline, renewAt, call,
                   slots, draining, joined>>

\* Transport.Close cancels every tunnel and waits for the workers.
Drain(g) ==
    /\ ~draining[g]
    /\ draining' = [draining EXCEPT ![g] = TRUE]
    /\ UNCHANGED <<now, storeVars, closeReqs, tunnelVars, call, workers, slots, joined>>

Join(g) ==
    /\ draining[g]
    /\ workers[g] = 0
    /\ ~joined[g]
    /\ joined' = [joined EXCEPT ![g] = TRUE]
    /\ UNCHANGED <<now, storeVars, closeReqs, tunnelVars, call, workers, slots, draining>>

\* The process dies, or the drain times out and the process exits; another
\* takes its place.  Sockets close with it, calls already sent do not.
Live(t) == phase[t] \notin {"new", "done"}

Restart(g) ==
    /\ phase' = [t \in Tunnels |-> IF gw[t] = g /\ Live(t) THEN "done" ELSE phase[t]]
    /\ deadline' = [t \in Tunnels |-> IF gw[t] = g THEN 0 ELSE deadline[t]]
    /\ renewAt' = [t \in Tunnels |-> IF gw[t] = g THEN Unarmed ELSE renewAt[t]]
    /\ call' = [t \in Tunnels |-> IF gw[t] = g THEN Abandoned(t) ELSE call[t]]
    /\ workers' = [workers EXCEPT ![g] = 0]
    /\ slots' = [slots EXCEPT ![g] = 0]
    /\ draining' = [draining EXCEPT ![g] = FALSE]
    /\ joined' = [joined EXCEPT ![g] = FALSE]
    /\ UNCHANGED <<now, storeVars, closeReqs, gw, ticket>>

Tick ==
    /\ now < MaxTime
    /\ now' = now + 1
    /\ UNCHANGED <<storeVars, closeReqs, tunnelVars, call, serviceVars>>

------------------------------------------------------------------------------
Init ==
    /\ now = 1
    /\ lost = [c \in Conns |-> 0]
    /\ held = FALSE
    /\ policy = [desired |-> 1, applied |-> 1]
    /\ ticketGw = [c \in Conns |-> None]
    /\ ticketRev = [c \in Conns |-> 0]
    /\ ticketExp = [c \in Conns |-> 0]
    /\ consumedBy = [c \in Conns |-> None]
    /\ leaseUntil = [c \in Conns |-> 0]
    /\ ticketClosed = [c \in Conns |-> FALSE]
    /\ closeReqs = {}
    /\ phase = [t \in Tunnels |-> "new"]
    /\ gw = [t \in Tunnels |-> None]
    /\ ticket = [t \in Tunnels |-> None]
    /\ deadline = [t \in Tunnels |-> 0]
    /\ renewAt = [t \in Tunnels |-> Unarmed]
    /\ call = [t \in Tunnels |-> NoCall]
    /\ workers = [g \in Gateways |-> 0]
    /\ slots = [g \in Gateways |-> 0]
    /\ draining = [g \in Gateways |-> FALSE]
    /\ joined = [g \in Gateways |-> FALSE]

StoreNext ==
    \/ \E c \in Conns : CloseNativeGatewayGrant(c) \/ \E g \in Gateways : CreateNativeGatewayTicket(c, g)
    \/ \E t \in Tunnels : RedeemNativeGatewayTicket(t) \/ RenewNativeGatewayGrant(t)
    \/ AuthorityChanges

TunnelNext(t) ==
    \/ \E g \in Gateways : Admit(t, g)
    \/ \E c \in Conns : Serve(t, c)
    \/ RejectFrame(t) \/ Redeemed(t) \/ RedemptionFails(t)
    \/ Dial(t) \/ Ready(t) \/ ConnectFails(t)
    \/ RenewTimer(t) \/ Renewed(t) \/ RenewalFails(t)
    \/ Expire(t) \/ CopyEnds(t) \/ Cancelled(t)
    \/ CloseAnswered(t) \/ Return(t)

GatewayNext == \E g \in Gateways : Drain(g) \/ Join(g) \/ Restart(g)

Next == StoreNext \/ (\E t \in Tunnels : TunnelNext(t)) \/ GatewayNext \/ Tick

Spec == Init /\ [][Next]_vars

------------------------------------------------------------------------------
(* Properties.                                                             *)

Phases == {"new", "admitted", "redeeming", "dialing", "dialed", "relaying", "closing", "returned", "done"}
Calls == [st : {"none", "redeem", "renew", "granted", "refused"}, sent : Nat, valid : Nat, rev : Nat]

\* Rows, tunnels and counters keep their types.
TypeOK ==
    /\ now \in Nat
    /\ lost \in [Conns -> Nat]
    /\ held \in BOOLEAN
    /\ policy \in [desired : Nat, applied : Nat]
    /\ ticketGw \in [Conns -> Gateways \cup {None}]
    /\ ticketRev \in [Conns -> Nat]
    /\ ticketExp \in [Conns -> Nat]
    /\ consumedBy \in [Conns -> Tunnels \cup {None}]
    /\ leaseUntil \in [Conns -> Nat]
    /\ ticketClosed \in [Conns -> BOOLEAN]
    /\ closeReqs \subseteq Conns
    /\ phase \in [Tunnels -> Phases]
    /\ gw \in [Tunnels -> Gateways \cup {None}]
    /\ ticket \in [Tunnels -> Conns \cup {None}]
    /\ deadline \in [Tunnels -> Nat]
    /\ renewAt \in [Tunnels -> Nat]
    /\ call \in [Tunnels -> Calls]
    /\ workers \in [Gateways -> Nat]
    /\ slots \in [Gateways -> Nat]
    /\ draining \in [Gateways -> BOOLEAN]
    /\ joined \in [Gateways -> BOOLEAN]

\* Bytes pass while the relay copies and the sockets' deadline is ahead: the
\* deadline is set on both sockets and holds even if the relay is stuck.
Flows(t) == phase[t] = "relaying" /\ now < deadline[t]

\* Losing authority stops a tunnel within one window, whatever was in flight.
LostTunnelStops ==
    \A t \in Tunnels : Flows(t) /\ lost[ticket[t]] # 0 => now < lost[ticket[t]] + Window

\* Slots and workers are counted alike on every path: an admitted socket
\* always finds a slot in the relay, and once Close has returned there is no
\* handler left that could pass bytes (Relay.Serve, Transport.Close).
CountsAgree ==
    /\ \A t \in Tunnels : phase[t] = "admitted" => slots[gw[t]] < MaxConnections
    /\ \A t \in Tunnels, g \in Gateways : joined[g] /\ gw[t] = g => ~Live(t)

\* A lost connection gives back all it held, and a drain comes to its end:
\* timers and timeouts are the runtime's, and need nothing from the store.
TunnelFairness ==
    /\ WF_vars(Tick)
    /\ \A t \in Tunnels :
          /\ WF_vars(RejectFrame(t))
          /\ WF_vars(Redeemed(t) \/ RedemptionFails(t))
          /\ WF_vars(Dial(t) \/ ConnectFails(t))
          /\ WF_vars(Ready(t) \/ ConnectFails(t))
          /\ WF_vars(Renewed(t) \/ RenewalFails(t))
          /\ WF_vars(Expire(t))
          /\ WF_vars(Cancelled(t))
          /\ WF_vars(CloseAnswered(t))
          /\ WF_vars(Return(t))
    /\ \A g \in Gateways : WF_vars(Join(g))

FairSpec == Spec /\ TunnelFairness

\* Every admitted socket ends and returns its slot and worker, although calls
\* to the control plane may never be answered, and a drain that is not
\* interrupted by a restart joins every worker.
TunnelsEnd ==
    /\ \A t \in Tunnels : phase[t] = "admitted" ~> phase[t] = "done"
    /\ \A g \in Gateways : draining[g] ~> joined[g] \/ ~draining[g]

------------------------------------------------------------------------------
(* The gateway keeps its promise.                                          *)

\* A connection is claimed while the tunnel that redeemed its ticket is on its
\* way to the first byte.
Stage(c) ==
    CASE \E t \in Tunnels : ticket[t] = c /\ Flows(t) -> "flowing"
      [] consumedBy[c] = None -> "unused"
      [] \E t \in Tunnels : t = consumedBy[c] /\ phase[t] \in {"redeeming", "dialing", "dialed"} -> "claimed"
      [] OTHER -> "ended"

Promise == INSTANCE GatewayPromise WITH
    until <- leaseUntil,
    stage <- [c \in Conns |-> Stage(c)]

\* Tickets, leases and relays implement the promise: traffic only within
\* grants, grants only with authority, and no connection used twice.
KeepsPromise == Promise!PromiseSpec
==============================================================================
