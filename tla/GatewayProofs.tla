---------------------------- MODULE GatewayProofs ----------------------------
(***************************************************************************)
(* The gateway keeps its promise, for any number of connections, gateways  *)
(* and tunnels and for every window, lifetime and timeout.                 *)
(***************************************************************************)
EXTENDS Gateway, FiniteSetTheorems, TLAPS

\* The types of what the promise is about; the counters of workers and slots
\* play no part in it.
Types ==
    /\ now \in Nat
    /\ lost \in [Conns -> Nat]
    /\ policy \in [desired : Nat, applied : Nat]
    /\ ticketRev \in [Conns -> Nat]
    /\ consumedBy \in [Conns -> Tunnels \cup {None}]
    /\ leaseUntil \in [Conns -> Nat]
    /\ phase \in [Tunnels -> Phases]
    /\ ticket \in [Tunnels -> Conns \cup {None}]
    /\ deadline \in [Tunnels -> Nat]
    /\ call \in [Tunnels -> Calls]

\* A lease ends with its connection, within one window of now and of the loss
\* of authority, and belongs to a tunnel that carries the connection.
LeaseHolds(c) ==
    /\ leaseUntil[c] <= Expiry[c]
    /\ leaseUntil[c] <= now + Window
    /\ lost[c] # 0 => leaseUntil[c] <= lost[c] + Window
    /\ consumedBy[c] # None =>
          /\ ticket[consumedBy[c]] = c
          /\ phase[consumedBy[c]] \notin {"new", "admitted"}

\* What a tunnel believes of its lease is never ahead of the store.
TunnelHolds(t) ==
    /\ call[t].sent <= now
    /\ call[t].st # "none" => ticket[t] \in Conns /\ phase[t] \notin {"new", "admitted"}
    /\ call[t].st \in {"renew", "granted"} => consumedBy[ticket[t]] = t
    /\ call[t].st = "granted" => call[t].sent + call[t].valid <= leaseUntil[ticket[t]]
    /\ phase[t] \in {"dialing", "dialed", "relaying"} =>
          /\ ticket[t] \in Conns
          /\ consumedBy[ticket[t]] = t
          /\ deadline[t] <= leaseUntil[ticket[t]]

Inv ==
    /\ Types
    /\ \A c \in Conns : LeaseHolds(c)
    /\ \A t \in Tunnels : TunnelHolds(t)

------------------------------------------------------------------------------
(* The invariant.                                                          *)

\* The constants the arithmetic is about are numbers.
LEMMA Constants ==
    /\ Window \in Nat \ {0}
    /\ Expiry \in [Conns -> Nat]
    /\ None \notin Conns
    /\ None \notin Tunnels
  BY GatewayAssumption

\* A tunnel without a call, and one that has abandoned its call.
LEMMA CallForms ==
  ASSUME NEW t \in Tunnels, call \in [Tunnels -> Calls]
  PROVE  /\ NoCall \in Calls
         /\ NoCall.st = "none" /\ NoCall.sent = 0
         /\ Abandoned(t) \in Calls
         /\ Abandoned(t).sent = 0
         /\ Abandoned(t).st \in {"none", "redeem", "renew"}
         /\ Abandoned(t).st # "none" => Abandoned(t).st = call[t].st
  <1>1. NoCall \in Calls /\ NoCall.st = "none" /\ NoCall.sent = 0
    BY DEF NoCall, Calls
  <1>2. call[t] \in Calls
    OBVIOUS
  <1>3. CASE call[t].st \in {"redeem", "renew"}
    BY <1>1, <1>2, <1>3 DEF Abandoned, NoCall, Calls
  <1>4. CASE call[t].st \notin {"redeem", "renew"}
    BY <1>1, <1>2, <1>4 DEF Abandoned
  <1> QED BY <1>1, <1>3, <1>4

\* Initially nothing is leased and no tunnel has called.
LEMMA InitInv == Init => Inv
  <1> SUFFICES ASSUME Init PROVE Inv
    OBVIOUS
  <1>1. NoCall \in Calls /\ NoCall.st = "none" /\ NoCall.sent = 0
    BY DEF NoCall, Calls
  <1>2. Types
    BY <1>1 DEF Init, Types, Phases
  <1>3. \A c \in Conns : LeaseHolds(c)
    BY Constants DEF Init, LeaseHolds
  <1>4. \A t \in Tunnels : TunnelHolds(t)
    BY <1>1 DEF Init, TunnelHolds
  <1> QED BY <1>2, <1>3, <1>4 DEF Inv

\* A step that leaves the store's leases and the tickets alone, and moves no
\* tunnel back before its redemption, need only answer for its tunnels.
LEMMA TunnelFrame ==
  ASSUME Inv, UNCHANGED <<now, lost, policy, ticketRev, consumedBy, leaseUntil, ticket>>,
         phase' \in [Tunnels -> Phases],
         deadline' \in [Tunnels -> Nat],
         call' \in [Tunnels -> Calls],
         \A t \in Tunnels :
            phase[t] \notin {"new", "admitted"} => phase'[t] \notin {"new", "admitted"},
         \A t \in Tunnels : TunnelHolds(t)'
  PROVE  Inv'
  <1>1. Types'
    BY DEF Inv, Types
  <1>2. \A c \in Conns : LeaseHolds(c)'
    BY Constants DEF Inv, Types, LeaseHolds
  <1> QED BY <1>1, <1>2 DEF Inv

\* A tunnel whose own state does not change keeps what it believes.
LEMMA OtherTunnel ==
  ASSUME Inv, UNCHANGED <<now, consumedBy, leaseUntil, ticket>>,
         NEW u \in Tunnels,
         phase'[u] = phase[u], deadline'[u] = deadline[u], call'[u] = call[u]
  PROVE  TunnelHolds(u)'
  BY Zenon DEF Inv, TunnelHolds

\* A tunnel that closes, by Finish, holds nothing any more.
LEMMA FinishInv ==
  ASSUME Inv, NEW t \in Tunnels, phase[t] \notin {"new", "admitted"}, Finish(t),
         UNCHANGED <<now, lost, policy, ticketRev, consumedBy, leaseUntil, ticket>>
  PROVE  Inv'
  <1> USE CallForms DEF Inv, Types
  <1>1. /\ phase' \in [Tunnels -> Phases]
        /\ deadline' \in [Tunnels -> Nat]
        /\ call' \in [Tunnels -> Calls]
    BY DEF Finish, Phases
  <1>2. phase'[t] = "closing" /\ call'[t] = Abandoned(t)
    BY DEF Finish
  <1>3. TunnelHolds(t)'
    BY <1>2 DEF TunnelHolds
  <1>4. ASSUME NEW u \in Tunnels, u # t PROVE TunnelHolds(u)'
    BY <1>4, OtherTunnel DEF Finish
  <1>5. \A u \in Tunnels : phase[u] \notin {"new", "admitted"} => phase'[u] \notin {"new", "admitted"}
    BY <1>2 DEF Finish
  <1> QED BY <1>1, <1>3, <1>4, <1>5, TunnelFrame

\* A step of one tunnel alone: its new phase, call and deadline.
MovesTo(t, p, k, d) ==
    /\ p \in Phases /\ k \in Calls /\ d \in Nat
    /\ phase' = [phase EXCEPT ![t] = p]
    /\ call' = [call EXCEPT ![t] = k]
    /\ deadline' = [deadline EXCEPT ![t] = d]
    /\ UNCHANGED <<now, lost, policy, ticketRev, consumedBy, leaseUntil, ticket>>

\* What the tunnel must then hold for the invariant to survive.
Keeps(t, p, k, d) ==
    /\ phase[t] \notin {"new", "admitted"} => p \notin {"new", "admitted"}
    /\ k.sent <= now
    /\ k.st # "none" => ticket[t] \in Conns /\ p \notin {"new", "admitted"}
    /\ k.st \in {"renew", "granted"} => consumedBy[ticket[t]] = t
    /\ k.st = "granted" => k.sent + k.valid <= leaseUntil[ticket[t]]
    /\ p \in {"dialing", "dialed", "relaying"} =>
          /\ ticket[t] \in Conns
          /\ consumedBy[ticket[t]] = t
          /\ d <= leaseUntil[ticket[t]]

\* A step of one tunnel alone keeps the invariant if its new state does.
LEMMA MoveInv ==
  ASSUME Inv, NEW t \in Tunnels, NEW p, NEW k, NEW d, MovesTo(t, p, k, d), Keeps(t, p, k, d)
  PROVE  Inv'
  <1>1. /\ phase' \in [Tunnels -> Phases]
        /\ deadline' \in [Tunnels -> Nat]
        /\ call' \in [Tunnels -> Calls]
        /\ UNCHANGED <<now, lost, policy, ticketRev, consumedBy, leaseUntil, ticket>>
    BY DEF Inv, Types, MovesTo
  <1>2. phase'[t] = p /\ deadline'[t] = d /\ call'[t] = k
    BY DEF Inv, Types, MovesTo
  <1>3. TunnelHolds(t)'
    BY <1>1, <1>2 DEF TunnelHolds, Keeps
  <1>4. ASSUME NEW u \in Tunnels, u # t PROVE TunnelHolds(u)'
    BY <1>1, <1>4, OtherTunnel DEF Inv, Types, MovesTo
  <1>5. \A u \in Tunnels : phase[u] \notin {"new", "admitted"} => phase'[u] \notin {"new", "admitted"}
    BY <1>2 DEF Inv, Types, MovesTo, Keeps
  <1> QED BY <1>1, <1>3, <1>4, <1>5, TunnelFrame

\* Every step of a tunnel other than Serve keeps the invariant.
LEMMA TunnelInv ==
  ASSUME Inv, NEW t \in Tunnels, TunnelNext(t), ~\E c \in Conns : Serve(t, c)
  PROVE  Inv'
  <1> DEFINE To(p, k, d) == MovesTo(t, p, k, d) /\ Keeps(t, p, k, d)
  <1>t. /\ now \in Nat /\ call[t] \in Calls /\ deadline[t] \in Nat /\ phase[t] \in Phases
        /\ call = [call EXCEPT ![t] = call[t]] /\ deadline = [deadline EXCEPT ![t] = deadline[t]]
        /\ phase = [phase EXCEPT ![t] = phase[t]]
        /\ TunnelHolds(t)
    BY DEF Inv, Types
  <1>f. /\ NoCall \in Calls /\ NoCall.st = "none" /\ NoCall.sent = 0
        /\ Abandoned(t) \in Calls /\ Abandoned(t).sent = 0
        /\ Abandoned(t).st \in {"none", "redeem", "renew"}
        /\ Abandoned(t).st # "none" => Abandoned(t).st = call[t].st
    BY CallForms DEF Inv, Types
  <1>g. ASSUME call[t].st = "granted"
        PROVE  /\ GrantEnd(t) \in Nat /\ ticket[t] \in Conns /\ consumedBy[ticket[t]] = t
               /\ GrantEnd(t) <= leaseUntil[ticket[t]]
    BY <1>t, <1>g DEF GrantEnd, Calls, TunnelHolds
  <1>m. ASSUME NEW p, NEW k, NEW d, To(p, k, d) PROVE Inv'
    BY <1>m, MoveInv
  <1>1. ASSUME NEW g \in Gateways, Admit(t, g) PROVE Inv'
    <2>1. To("admitted", call[t], deadline[t])
      BY <1>1, <1>t DEF Admit, storeVars, Phases, TunnelHolds, MovesTo, Keeps
    <2> QED BY Zenon, <1>m, <2>1
  <1>2. CASE RejectFrame(t)
    <2>1. To("returned", call[t], deadline[t])
      BY <1>2, <1>t DEF RejectFrame, storeVars, Phases, TunnelHolds, MovesTo, Keeps
    <2> QED BY Zenon, <1>m, <2>1
  <1>3. CASE Redeemed(t)
    <2>1. ASSUME Finish(t) PROVE Inv'
      BY <1>3, <2>1, FinishInv DEF Redeemed, storeVars
    <2>2. ASSUME ~Finish(t) PROVE Inv'
      <3>1. To("dialing", NoCall, GrantEnd(t))
        BY <1>3, <2>2, <1>t, <1>f, <1>g DEF Redeemed, storeVars, Phases, MovesTo, Keeps
      <3> QED BY Zenon, <1>m, <3>1
    <2> QED BY <2>1, <2>2
  <1>4. CASE RedemptionFails(t)
    <2>1. To("returned", Abandoned(t), deadline[t])
      BY <1>4, <1>t, <1>f DEF RedemptionFails, Release, storeVars, Phases, TunnelHolds, MovesTo, Keeps
    <2> QED BY Zenon, <1>m, <2>1
  <1>5. CASE Dial(t)
    <2>1. To("dialed", call[t], deadline[t])
      BY <1>5, <1>t DEF Dial, storeVars, Phases, TunnelHolds, MovesTo, Keeps
    <2> QED BY Zenon, <1>m, <2>1
  <1>6. CASE Ready(t)
    <2>1. To("relaying", call[t], deadline[t])
      BY <1>6, <1>t DEF Ready, storeVars, Phases, TunnelHolds, MovesTo, Keeps
    <2> QED BY Zenon, <1>m, <2>1
  <1>7. CASE ConnectFails(t)
    BY <1>7, FinishInv DEF ConnectFails, storeVars
  <1>8. CASE RenewTimer(t)
    <2> DEFINE k == [NoCall EXCEPT !.st = "renew", !.sent = now]
    <2>1. k \in Calls /\ k.st = "renew" /\ k.sent = now
      BY Zenon, <1>t DEF NoCall, Calls
    <2> HIDE DEF k
    <2>2. /\ call' = [call EXCEPT ![t] = k]
          /\ phase[t] = "relaying"
          /\ UNCHANGED <<now, lost, policy, ticketRev, consumedBy, leaseUntil, ticket, phase, deadline>>
      BY Zenon, <1>8 DEF RenewTimer, storeVars, k
    <2>3. To("relaying", k, deadline[t])
      BY <1>t, <2>1, <2>2 DEF Phases, TunnelHolds, MovesTo, Keeps
    <2> QED BY Zenon, <1>m, <2>3
  <1>9. CASE Renewed(t)
    <2>1. ASSUME Finish(t) PROVE Inv'
      BY <1>9, <2>1, FinishInv DEF Renewed, storeVars
    <2>2. ASSUME ~Finish(t) PROVE Inv'
      <3>1. To("relaying", NoCall, GrantEnd(t))
        BY <1>9, <2>2, <1>t, <1>f, <1>g DEF Renewed, storeVars, Phases, MovesTo, Keeps
      <3> QED BY Zenon, <1>m, <3>1
    <2> QED BY <2>1, <2>2
  <1>10. CASE RenewalFails(t) \/ Expire(t) \/ CopyEnds(t) \/ Cancelled(t)
    BY <1>10, FinishInv DEF RenewalFails, Expire, CopyEnds, Cancelled, storeVars
  <1>11. CASE CloseAnswered(t)
    <2>1. To("returned", call[t], deadline[t])
      BY <1>11, <1>t DEF CloseAnswered, Release, storeVars, Phases, TunnelHolds, MovesTo, Keeps
    <2> QED BY Zenon, <1>m, <2>1
  <1>12. CASE Return(t)
    <2>1. To("done", call[t], deadline[t])
      BY <1>12, <1>t DEF Return, storeVars, Phases, TunnelHolds, MovesTo, Keeps
    <2> QED BY Zenon, <1>m, <2>1
  <1> QED BY Zenon, <1>1, <1>2, <1>3, <1>4, <1>5, <1>6, <1>7, <1>8, <1>9, <1>10, <1>11, <1>12 DEF TunnelNext

\* Serve gives a tunnel its ticket, which nobody can have consumed for it.
LEMMA ServeInv ==
  ASSUME Inv, NEW t \in Tunnels, NEW c \in Conns, Serve(t, c)
  PROVE  Inv'
  <1> DEFINE k == [NoCall EXCEPT !.st = "redeem", !.sent = now]
  <1>1. k \in Calls /\ k.st = "redeem" /\ k.sent = now
    BY Zenon DEF NoCall, Calls, Inv, Types
  <1> HIDE DEF k
  <1>2. /\ phase[t] = "admitted"
        /\ phase' = [phase EXCEPT ![t] = "redeeming"]
        /\ ticket' = [ticket EXCEPT ![t] = c]
        /\ call' = [call EXCEPT ![t] = k]
        /\ UNCHANGED <<now, lost, policy, ticketRev, consumedBy, leaseUntil, deadline>>
    BY Zenon DEF Serve, storeVars, k
  <1>3. Types'
    BY <1>1, <1>2 DEF Inv, Types, Phases
  <1>4. ASSUME NEW d \in Conns PROVE LeaseHolds(d)'
    BY <1>2, Constants DEF Inv, Types, LeaseHolds
  <1>5. TunnelHolds(t)'
    BY <1>1, <1>2 DEF Inv, Types, TunnelHolds
  <1>6. ASSUME NEW u \in Tunnels, u # t PROVE TunnelHolds(u)'
    <2>1. phase'[u] = phase[u] /\ call'[u] = call[u] /\ ticket'[u] = ticket[u] /\ TunnelHolds(u)
      BY <1>2, <1>6 DEF Inv, Types
    <2> QED BY Zenon, <1>2, <2>1 DEF TunnelHolds
  <1> QED BY <1>3, <1>4, <1>5, <1>6 DEF Inv

\* The store answers: a lease that is granted or extended never gets shorter,
\* and the answer does not promise more than was stored.
LEMMA AnswerInv ==
  ASSUME Inv, NEW t \in Tunnels, RedeemNativeGatewayTicket(t) \/ RenewNativeGatewayGrant(t)
  PROVE  Inv'
  <1> DEFINE c == ticket[t]
  <1>1. /\ c \in Conns /\ phase[t] \notin {"new", "admitted"}
        /\ call[t] \in Calls /\ call[t].sent <= now /\ now \in Nat
        /\ UNCHANGED <<now, lost, policy, ticketRev, ticket, phase, deadline>>
    BY DEF Inv, Types, TunnelHolds, RedeemNativeGatewayTicket, RenewNativeGatewayGrant, tunnelVars
  <1> HIDE DEF c
  <1>2. ASSUME call' = Refuse(t), UNCHANGED <<consumedBy, leaseUntil>> PROVE Inv'
    <2> DEFINE k == IF Waiting(t) THEN [call[t] EXCEPT !.st = "refused"] ELSE NoCall
    <2>1. k \in Calls /\ k.sent <= now /\ k.st \in {"none", "refused"}
      BY <1>1 DEF Calls, NoCall
    <2>2. call' = [call EXCEPT ![t] = k]
      BY Zenon, <1>2 DEF Refuse, Answered
    <2> HIDE DEF k
    <2>3. MovesTo(t, phase[t], k, deadline[t])
      BY <1>1, <1>2, <2>1, <2>2 DEF MovesTo, Inv, Types
    <2>4. Keeps(t, phase[t], k, deadline[t])
      BY <1>1, <2>1 DEF Keeps, Inv, TunnelHolds, c
    <2> QED BY Zenon, <2>3, <2>4, MoveInv
  <1>3. ASSUME Access(c), call' = GrantTo(t, c),
               leaseUntil' = [leaseUntil EXCEPT ![c] = LeaseEnd(c)],
               \/ consumedBy[c] = None /\ consumedBy' = [consumedBy EXCEPT ![c] = t]
               \/ consumedBy[c] = t /\ consumedBy' = consumedBy
        PROVE  Inv'
    <2>1. /\ LeaseEnd(c) \in Nat /\ now < LeaseEnd(c)
          /\ leaseUntil[c] <= LeaseEnd(c)
          /\ LeaseEnd(c) <= Expiry[c] /\ LeaseEnd(c) <= now + Window
      <3>1. /\ Expiry[c] \in Nat /\ leaseUntil[c] \in Nat /\ Window \in Nat \ {0}
            /\ leaseUntil[c] <= Expiry[c] /\ leaseUntil[c] <= now + Window
        BY <1>1, Constants DEF Inv, Types, LeaseHolds
      <3>2. now < Expiry[c]
        BY Zenon, <1>3 DEF Access
      <3> QED BY <1>1, <3>1, <3>2 DEF LeaseEnd, Earlier
    <2> DEFINE k == IF Waiting(t)
                    THEN [call[t] EXCEPT !.st = "granted", !.valid = LeaseEnd(c) - now, !.rev = ticketRev[c]]
                    ELSE NoCall
    <2>2. /\ k \in Calls /\ k.sent <= now /\ k.st \in {"none", "granted"}
          /\ k.st = "granted" => k.sent + k.valid <= LeaseEnd(c)
      <3>1. ticketRev[c] \in Nat /\ LeaseEnd(c) - now \in Nat
        BY <1>1, <2>1 DEF Inv, Types
      <3>2. CASE Waiting(t)
        <4> HIDE DEF k
        <4>1. k = [call[t] EXCEPT !.st = "granted", !.valid = LeaseEnd(c) - now, !.rev = ticketRev[c]]
          BY Zenon, <3>2 DEF k
        <4>2. /\ k \in Calls /\ k.sent = call[t].sent
              /\ k.st = "granted" /\ k.valid = LeaseEnd(c) - now
          BY Zenon, <1>1, <3>1, <4>1 DEF Calls
        <4> QED BY <1>1, <2>1, <4>2 DEF Calls
      <3>3. CASE ~Waiting(t)
        BY <1>1, <3>3 DEF Calls, NoCall
      <3> QED BY <3>2, <3>3
    <2>3. call' = [call EXCEPT ![t] = k]
      BY Zenon, <1>3 DEF GrantTo, Answered
    <2> HIDE DEF k
    <2>4. Types'
      BY <1>1, <1>3, <2>1, <2>2, <2>3 DEF Inv, Types
    <2>5. /\ consumedBy'[c] = t /\ leaseUntil'[c] = LeaseEnd(c) /\ lost[c] = 0
          /\ \A d \in Conns \ {c} : consumedBy'[d] = consumedBy[d] /\ leaseUntil'[d] = leaseUntil[d]
      BY <1>1, <1>3 DEF Inv, Types, Access
    <2>6. ASSUME NEW d \in Conns PROVE LeaseHolds(d)'
      <3>1. CASE d = c
        BY <1>1, <2>1, <2>5, <3>1 DEF LeaseHolds, c
      <3>2. CASE d # c
        <4>1. LeaseHolds(d) /\ consumedBy'[d] = consumedBy[d] /\ leaseUntil'[d] = leaseUntil[d]
          BY <2>5, <3>2 DEF Inv
        <4> QED BY Zenon, <1>1, <4>1 DEF LeaseHolds
      <3> QED BY <3>1, <3>2
    <2>7. TunnelHolds(t)'
      <3>1. call'[t] = k
        BY <2>3 DEF Inv, Types
      <3>2. deadline[t] \in Nat /\ leaseUntil[c] \in Nat /\ TunnelHolds(t)
        BY <1>1 DEF Inv, Types
      <3> QED BY <1>1, <2>1, <2>2, <2>5, <3>1, <3>2 DEF TunnelHolds, c
    <2>8. ASSUME NEW u \in Tunnels, u # t PROVE TunnelHolds(u)'
      <3>1. call'[u] = call[u] /\ TunnelHolds(u) /\ ticket[u] \in Conns \cup {None}
        BY <2>3, <2>8 DEF Inv, Types
      <3>2. ticket[u] = c => consumedBy[ticket[u]] # u
        BY <1>3, <2>8, Constants
      <3> QED BY <1>1, <2>5, <3>1, <3>2 DEF TunnelHolds
    <2> QED BY <2>4, <2>6, <2>7, <2>8 DEF Inv
  <1>4. CASE RedeemNativeGatewayTicket(t)
    BY <1>2, <1>3, <1>4 DEF RedeemNativeGatewayTicket, Redeemable, c
  <1>5. CASE RenewNativeGatewayGrant(t)
    <2>1. consumedBy[c] = t
      BY <1>1, <1>5 DEF Inv, TunnelHolds, RenewNativeGatewayGrant, c
    <2> QED BY <1>2, <1>3, <1>5, <2>1 DEF RenewNativeGatewayGrant, Renewable, c
  <1> QED BY <1>4, <1>5

\* Minting a ticket and closing a grant touch no lease.
LEMMA TicketInv ==
  ASSUME Inv, NEW c \in Conns,
         CloseNativeGatewayGrant(c) \/ \E g \in Gateways : CreateNativeGatewayTicket(c, g)
  PROVE  Inv'
  <1>1. /\ UNCHANGED <<now, lost, policy, consumedBy, leaseUntil, ticket, phase, deadline, call>>
        /\ ticketRev' \in [Conns -> Nat]
    BY DEF CloseNativeGatewayGrant, CreateNativeGatewayTicket, tunnelVars, Inv, Types
  <1>2. Types'
    BY <1>1 DEF Inv, Types
  <1>3. (\A d \in Conns : LeaseHolds(d)') /\ \A t \in Tunnels : TunnelHolds(t)'
    BY Zenon, <1>1 DEF Inv, LeaseHolds, TunnelHolds
  <1> QED BY <1>2, <1>3 DEF Inv

\* Authority is lost now, when every lease ends within a window.
LEMMA AuthorityInv == ASSUME Inv, AuthorityChanges PROVE Inv'
  <1>1. /\ lost' = lost \/ \E C \in SUBSET Conns : lost' = Noted(C)
        /\ UNCHANGED <<now, ticketRev, consumedBy, leaseUntil, ticket, phase, deadline, call>>
    <2>1. ASSUME NEW c \in Conns, LoseConnection(c) PROVE \E C \in SUBSET Conns : lost' = Noted(C)
      BY <2>1 DEF LoseConnection
    <2>2. ASSUME PutPolicy PROVE \E C \in SUBSET Conns : lost' = Noted(C)
      BY <2>2 DEF PutPolicy
    <2> QED BY Zenon, <2>1, <2>2 DEF AuthorityChanges, HoldDesktop, ApplyPolicy, tunnelVars
  <1>p. policy' \in [desired : Nat, applied : Nat]
    <2>1. policy \in [desired : Nat, applied : Nat]
      BY DEF Inv, Types
    <2>2. ASSUME PutPolicy PROVE policy' \in [desired : Nat, applied : Nat]
      BY <2>1, <2>2 DEF PutPolicy
    <2>3. ASSUME ApplyPolicy PROVE policy' \in [desired : Nat, applied : Nat]
      BY <2>1, <2>3 DEF ApplyPolicy
    <2> QED BY Zenon, <2>1, <2>2, <2>3 DEF AuthorityChanges, HoldDesktop, LoseConnection
  <1>2. lost' \in [Conns -> Nat] /\ \A c \in Conns : lost'[c] = lost[c] \/ lost'[c] = now
    BY <1>1 DEF Noted, Inv, Types
  <1>3. Types'
    BY <1>1, <1>2, <1>p DEF Inv, Types
  <1>4. \A c \in Conns : LeaseHolds(c)'
    BY <1>1, <1>2, Constants DEF Inv, Types, LeaseHolds
  <1>5. \A t \in Tunnels : TunnelHolds(t)'
    BY Zenon, <1>1 DEF Inv, TunnelHolds
  <1> QED BY <1>3, <1>4, <1>5 DEF Inv

\* A process that restarts forgets its tunnels; calls already sent remain.
LEMMA GatewayInv == ASSUME Inv, GatewayNext PROVE Inv'
  <1>1. ASSUME NEW g \in Gateways, Drain(g) \/ Join(g) PROVE Inv'
    <2>1. UNCHANGED <<now, lost, policy, ticketRev, consumedBy, leaseUntil, ticket, phase, deadline, call>>
      BY <1>1 DEF Drain, Join, storeVars, tunnelVars
    <2> QED BY Zenon, <2>1 DEF Inv, Types, LeaseHolds, TunnelHolds
  <1>2. ASSUME NEW g \in Gateways, Restart(g) PROVE Inv'
    <2>1. UNCHANGED <<now, lost, policy, ticketRev, consumedBy, leaseUntil, ticket>>
      BY <1>2 DEF Restart, storeVars
    <2>2. ASSUME NEW t \in Tunnels
          PROVE  \/ phase'[t] = phase[t] /\ deadline'[t] = deadline[t] /\ call'[t] = call[t]
                 \/ /\ phase'[t] \in {"new", "done"} /\ deadline'[t] = 0 /\ call'[t] = Abandoned(t)
                    /\ phase'[t] = "new" => phase[t] = "new"
      BY <1>2 DEF Restart, Live, Inv, Types
    <2>3. ASSUME NEW t \in Tunnels PROVE TunnelHolds(t)'
      <3>1. CASE phase'[t] = phase[t] /\ deadline'[t] = deadline[t] /\ call'[t] = call[t]
        BY Zenon, <2>1, <3>1, OtherTunnel
      <3>2. CASE /\ phase'[t] \in {"new", "done"} /\ call'[t] = Abandoned(t)
                 /\ phase'[t] = "new" => phase[t] = "new"
        <4>1. /\ Abandoned(t).sent = 0 /\ Abandoned(t).st \in {"none", "redeem", "renew"}
              /\ Abandoned(t).st # "none" => Abandoned(t).st = call[t].st
          BY CallForms DEF Inv, Types
        <4>2. TunnelHolds(t) /\ now \in Nat
          BY DEF Inv, Types
        <4> QED BY <2>1, <3>2, <4>1, <4>2 DEF TunnelHolds
      <3> QED BY Zenon, <2>2, <3>1, <3>2
    <2>4. /\ phase' \in [Tunnels -> Phases]
          /\ deadline' \in [Tunnels -> Nat]
          /\ call' \in [Tunnels -> Calls]
      BY <1>2, CallForms DEF Restart, Inv, Types, Phases
    <2> QED BY <2>1, <2>2, <2>3, <2>4, TunnelFrame
  <1> QED BY <1>1, <1>2 DEF GatewayNext

\* Time only relaxes what is bounded by it.
LEMMA TickInv == ASSUME Inv, Tick PROVE Inv'
  <1>1. /\ now' = now + 1
        /\ UNCHANGED <<lost, policy, ticketRev, consumedBy, leaseUntil, ticket, phase, deadline, call>>
    BY DEF Tick, storeVars, tunnelVars
  <1>2. Types'
    BY <1>1 DEF Inv, Types
  <1>3. \A c \in Conns : LeaseHolds(c)'
    BY <1>1, Constants DEF Inv, Types, LeaseHolds
  <1>4. \A t \in Tunnels : TunnelHolds(t)'
    BY <1>1 DEF Inv, Types, TunnelHolds, Calls
  <1> QED BY <1>2, <1>3, <1>4 DEF Inv

\* The invariant holds in every behaviour of the gateway.
THEOREM LeasesBound == Spec => []Inv
  <1>1. ASSUME Inv, [Next]_vars PROVE Inv'
    <2>1. CASE StoreNext
      BY Zenon, <1>1, <2>1, TicketInv, AnswerInv, AuthorityInv DEF StoreNext
    <2>2. CASE \E t \in Tunnels : TunnelNext(t)
      BY Zenon, <1>1, <2>2, ServeInv, TunnelInv
    <2>3. CASE GatewayNext \/ Tick
      BY Zenon, <1>1, <2>3, GatewayInv, TickInv
    <2>4. CASE UNCHANGED vars
      <3>1. UNCHANGED <<now, lost, policy, ticketRev, consumedBy, leaseUntil, ticket, phase, deadline, call>>
        BY <2>4 DEF vars, storeVars, tunnelVars
      <3> QED BY Zenon, <1>1, <3>1 DEF Inv, Types, LeaseHolds, TunnelHolds
    <2> QED BY Zenon, <1>1, <2>1, <2>2, <2>3, <2>4 DEF Next
  <1> QED BY <1>1, InitInv, PTL DEF Spec

\* Losing authority stops a tunnel within one window: the tunnel's deadline is
\* within its lease, and the lease within a window of the loss.
THEOREM LostTunnelStopsHolds == Spec => []LostTunnelStops
  <1>1. Inv => LostTunnelStops
    BY Constants DEF Inv, Types, LeaseHolds, TunnelHolds, LostTunnelStops, Flows
  <1> QED BY <1>1, LeasesBound, PTL

------------------------------------------------------------------------------
(* The refinement.                                                         *)

\* On its way to the first byte.
Early == {"redeeming", "dialing", "dialed"}

\* The stage of a connection is decided by the one tunnel that consumed its
\* ticket: no other tunnel can carry its bytes.
StageFacts ==
    \A c \in Conns :
       /\ consumedBy[c] = None => Stage(c) = "unused"
       /\ \A t \in Tunnels : consumedBy[c] = t =>
             /\ Flows(t) => Stage(c) = "flowing"
             /\ ~Flows(t) /\ phase[t] \in Early => Stage(c) = "claimed"
             /\ ~Flows(t) /\ phase[t] \notin Early => Stage(c) = "ended"

\* The invariant makes it so.
LEMMA StageIs == Inv => StageFacts
  <1> SUFFICES ASSUME Inv, NEW c \in Conns
      PROVE  /\ consumedBy[c] = None => Stage(c) = "unused"
             /\ \A t \in Tunnels : consumedBy[c] = t =>
                  /\ Flows(t) => Stage(c) = "flowing"
                  /\ ~Flows(t) /\ phase[t] \in Early => Stage(c) = "claimed"
                  /\ ~Flows(t) /\ phase[t] \notin Early => Stage(c) = "ended"
    BY Zenon DEF StageFacts
  <1> DEFINE F == \E t \in Tunnels : ticket[t] = c /\ Flows(t)
             U == consumedBy[c] = None
             E == \E t \in Tunnels : t = consumedBy[c] /\ phase[t] \in {"redeeming", "dialing", "dialed"}
  <1>1. F => consumedBy[c] \in Tunnels /\ Flows(consumedBy[c])
    BY DEF Inv, TunnelHolds, Flows
  <1>2. consumedBy[c] \in Tunnels => ticket[consumedBy[c]] = c
    BY Constants DEF Inv, LeaseHolds
  <1>3. ~(F /\ U) /\ ~(U /\ E) /\ ~(F /\ E)
    BY <1>1, Constants DEF Flows
  <1>4. Stage(c) = CASE F -> "flowing" [] U -> "unused" [] E -> "claimed" [] OTHER -> "ended"
    BY Zenon DEF Stage
  <1> HIDE DEF F, U, E
  <1>5. /\ F => Stage(c) = "flowing"
        /\ U => Stage(c) = "unused"
        /\ E => Stage(c) = "claimed"
        /\ ~F /\ ~U /\ ~E => Stage(c) = "ended"
    BY Zenon, <1>3, <1>4
  <1>6. U => Stage(c) = "unused"
    BY <1>5
  <1>7. ASSUME NEW t \in Tunnels, consumedBy[c] = t
        PROVE  /\ Flows(t) => F
               /\ ~Flows(t) => ~F
               /\ ~U
               /\ phase[t] \in Early <=> E
    BY <1>1, <1>2, <1>7, Constants DEF F, U, E, Early
  <1> QED BY Zenon, <1>5, <1>6, <1>7 DEF U

\* What the stage of a connection may do by itself.
MayStop(c) == Stage(c)' = Stage(c) \/ (Stage(c) # "unused" /\ Stage(c)' = "ended")

\* A step in which no tunnel starts to carry bytes, and none becomes early but
\* by being served, can only stop connections.
LEMMA OnlyStops ==
  ASSUME Inv, StageFacts, StageFacts', UNCHANGED consumedBy,
         \A t \in Tunnels :
            /\ Flows(t)' => Flows(t)
            /\ phase'[t] \in Early => phase[t] \in Early \cup {"new", "admitted"}
  PROVE  \A c \in Conns : MayStop(c)
  <1> SUFFICES ASSUME NEW c \in Conns PROVE MayStop(c)
    OBVIOUS
  <1>1. CASE consumedBy[c] = None
    BY Zenon, <1>1 DEF StageFacts, MayStop
  <1>2. CASE consumedBy[c] # None
    <2>1. PICK t \in Tunnels : consumedBy[c] = t /\ phase[t] \notin {"new", "admitted"}
      BY <1>2 DEF Inv, Types, LeaseHolds
    <2>2. /\ Flows(t) => Stage(c) = "flowing"
          /\ ~Flows(t) /\ phase[t] \in Early => Stage(c) = "claimed"
          /\ ~Flows(t) /\ phase[t] \notin Early => Stage(c) = "ended"
      BY Zenon, <2>1 DEF StageFacts
    <2>3. /\ Flows(t)' => Stage(c)' = "flowing"
          /\ ~Flows(t)' /\ phase'[t] \in Early => Stage(c)' = "claimed"
          /\ ~Flows(t)' /\ phase'[t] \notin Early => Stage(c)' = "ended"
      BY Zenon, <2>1 DEF StageFacts
    <2>4. phase[t] \in Early => ~Flows(t)
      BY DEF Early, Flows
    <2> QED BY <2>1, <2>2, <2>3, <2>4 DEF MayStop
  <1> QED BY <1>1, <1>2

\* The stage of a connection changes only with the tunnel that consumed it.
LEMMA StageKept ==
  ASSUME Inv, StageFacts, StageFacts', NEW c \in Conns, consumedBy'[c] = consumedBy[c],
         \A t \in Tunnels : consumedBy[c] = t => (Flows(t)' <=> Flows(t)) /\ phase'[t] = phase[t]
  PROVE  Stage(c)' = Stage(c)
  <1>1. CASE consumedBy[c] = None
    <2>1. Stage(c) = "unused"
      BY Zenon, <1>1 DEF StageFacts
    <2>2. Stage(c)' = "unused"
      BY Zenon, <1>1 DEF StageFacts
    <2> QED BY <2>1, <2>2
  <1>2. CASE consumedBy[c] # None
    <2>1. PICK t \in Tunnels : consumedBy[c] = t
      BY <1>2 DEF Inv, Types
    <2>2. /\ Flows(t) => Stage(c) = "flowing"
          /\ ~Flows(t) /\ phase[t] \in Early => Stage(c) = "claimed"
          /\ ~Flows(t) /\ phase[t] \notin Early => Stage(c) = "ended"
      BY Zenon, <2>1 DEF StageFacts
    <2>3. /\ Flows(t)' => Stage(c)' = "flowing"
          /\ ~Flows(t)' /\ phase'[t] \in Early => Stage(c)' = "claimed"
          /\ ~Flows(t)' /\ phase'[t] \notin Early => Stage(c)' = "ended"
      BY Zenon, <2>1 DEF StageFacts
    <2> QED BY <2>1, <2>2, <2>3
  <1> QED BY <1>1, <1>2

\* Such a step, when time stands still, is a stop of the promise.
LEMMA StopStep ==
  ASSUME UNCHANGED <<now, lost, leaseUntil>>, \A c \in Conns : MayStop(c)
  PROVE  Promise!Stop
  BY DEF Promise!Stop, Promise!Stops, MayStop

\* A step of a tunnel stops a connection or starts one that was claimed.
LEMMA TunnelRefines ==
  ASSUME Inv, StageFacts, StageFacts', NEW t \in Tunnels, TunnelNext(t)
  PROVE  Promise!PromiseNext
  <1>1. UNCHANGED <<now, lost, leaseUntil, consumedBy>>
    BY Zenon DEF TunnelNext, Admit, Serve, RejectFrame, Redeemed, RedemptionFails, Dial, Ready, ConnectFails,
           RenewTimer, Renewed, RenewalFails, Expire, CopyEnds, Cancelled, CloseAnswered, Return, storeVars
  <1>c. consumedBy' = consumedBy
    BY <1>1
  <1>t. phase \in [Tunnels -> Phases] /\ now \in Nat /\ deadline \in [Tunnels -> Nat] /\ call \in [Tunnels -> Calls]
    BY DEF Inv, Types
  <1> DEFINE Quiet == \A u \in Tunnels :
                        /\ Flows(u)' => Flows(u)
                        /\ phase'[u] \in Early => phase[u] \in Early \cup {"new", "admitted"}
  <1>q. ASSUME Quiet PROVE Promise!PromiseNext
    BY Zenon, <1>1, <1>q, OnlyStops, StopStep DEF Promise!PromiseNext
  <1>f. ASSUME Finish(t) PROVE Quiet
    BY <1>1, <1>t, <1>f DEF Finish, Flows, Early
  <1>2. ASSUME NEW g \in Gateways, Admit(t, g) PROVE Quiet
    BY <1>t, <1>2 DEF Admit, Flows, Early
  <1>3. ASSUME NEW c \in Conns, Serve(t, c) PROVE Quiet
    <2>1. phase[t] = "admitted" /\ phase' = [phase EXCEPT ![t] = "redeeming"] /\ UNCHANGED <<now, deadline>>
      BY Zenon, <1>3 DEF Serve
    <2> QED BY <1>t, <2>1 DEF Flows, Early
  <1>4. ASSUME RejectFrame(t) PROVE Quiet
    BY <1>t, <1>4 DEF RejectFrame, Flows, Early
  <1>5. ASSUME Redeemed(t) /\ ~Finish(t) PROVE Quiet
    BY <1>t, <1>5 DEF Redeemed, Flows, Early
  <1>6. ASSUME RedemptionFails(t) PROVE Quiet
    <2>1. phase' = [phase EXCEPT ![t] = "returned"] /\ UNCHANGED <<now, deadline>>
      BY Zenon, <1>6 DEF RedemptionFails, Release
    <2> QED BY <1>t, <2>1 DEF Flows, Early
  <1>7. ASSUME Dial(t) PROVE Quiet
    BY <1>t, <1>7 DEF Dial, Flows, Early
  <1>8. CASE Ready(t)
    <2>1. PICK c \in Conns : consumedBy[c] = t /\ now < leaseUntil[c]
      BY <1>t, <1>8 DEF Inv, Types, TunnelHolds, Ready
    <2>2. /\ ~Flows(t) /\ phase[t] \in Early /\ Flows(t)'
          /\ \A u \in Tunnels \ {t} : (Flows(u)' <=> Flows(u)) /\ phase'[u] = phase[u]
      BY <1>t, <1>8 DEF Ready, Flows, Early
    <2>3. Stage(c) = "claimed" /\ Stage(c)' = "flowing"
      BY Zenon, <1>c, <2>1, <2>2 DEF StageFacts
    <2>4. ASSUME NEW d \in Conns, d # c PROVE Stage(d)' = Stage(d)
      <3>1. consumedBy[d] # t
        BY <2>1, <2>4, Constants DEF Inv, LeaseHolds
      <3>2. \A u \in Tunnels : consumedBy[d] = u => (Flows(u)' <=> Flows(u)) /\ phase'[u] = phase[u]
        BY <2>2, <3>1
      <3> QED BY Zenon, <1>c, <3>2, StageKept
    <2>5. Promise!Start(c)
      BY Zenon, <1>1, <2>1, <2>3, <2>4 DEF Promise!Start
    <2> QED BY Zenon, <2>1, <2>5 DEF Promise!PromiseNext
  <1>9. ASSUME RenewTimer(t) PROVE Quiet
    <2>1. UNCHANGED <<phase, now, deadline>>
      BY Zenon, <1>9 DEF RenewTimer
    <2> QED BY <2>1 DEF Flows
  <1>10. ASSUME Renewed(t) /\ ~Finish(t) PROVE Quiet
    <2>1. /\ phase[t] = "relaying" /\ now < deadline[t] /\ UNCHANGED <<phase, now>>
          /\ deadline' = [deadline EXCEPT ![t] = GrantEnd(t)]
      BY Zenon, <1>10 DEF Renewed, Extends
    <2> QED BY <1>t, <2>1 DEF Flows
  <1>11. ASSUME CloseAnswered(t) PROVE Quiet
    BY <1>t, <1>11 DEF CloseAnswered, Release, Flows, Early
  <1>12. ASSUME Return(t) PROVE Quiet
    BY <1>t, <1>12 DEF Return, Flows, Early
  <1>13. ConnectFails(t) \/ RenewalFails(t) \/ Expire(t) \/ CopyEnds(t) \/ Cancelled(t) => Finish(t)
    BY Zenon DEF ConnectFails, RenewalFails, Expire, CopyEnds, Cancelled
  <1> HIDE DEF Quiet
  <1> QED BY Zenon, <1>q, <1>f, <1>2, <1>3, <1>4, <1>5, <1>6, <1>7, <1>8, <1>9, <1>10, <1>11, <1>12, <1>13
          DEF TunnelNext

\* An answer of the store claims a connection, extends its grant, or refuses.
LEMMA AnswerRefines ==
  ASSUME Inv, StageFacts, StageFacts', NEW t \in Tunnels,
         RedeemNativeGatewayTicket(t) \/ RenewNativeGatewayGrant(t)
  PROVE  Promise!PromiseNext
  <1>1. UNCHANGED <<now, lost, phase, deadline>>
    BY DEF RedeemNativeGatewayTicket, RenewNativeGatewayGrant, tunnelVars
  <1>2. \A u \in Tunnels : (Flows(u)' <=> Flows(u)) /\ phase'[u] = phase[u]
    BY <1>1 DEF Flows
  <1>3. PICK c \in Conns : c = ticket[t]
    BY DEF Inv, TunnelHolds, RedeemNativeGatewayTicket, RenewNativeGatewayGrant
  <1>4. ASSUME Access(c)
        PROVE  /\ LeaseEnd(c) \in now + 1 .. now + Window
               /\ leaseUntil[c] <= LeaseEnd(c)
               /\ lost[c] = 0
    <2>1. /\ Expiry[c] \in Nat /\ leaseUntil[c] \in Nat /\ Window \in Nat \ {0} /\ now \in Nat
          /\ leaseUntil[c] <= Expiry[c] /\ leaseUntil[c] <= now + Window
      BY Constants DEF Inv, Types, LeaseHolds
    <2>2. now < Expiry[c] /\ lost[c] = 0
      BY Zenon, <1>4 DEF Access
    <2> QED BY <2>1, <2>2 DEF LeaseEnd, Earlier
  <1>5. ASSUME UNCHANGED <<consumedBy, leaseUntil>> PROVE Promise!PromiseNext
    <2>1. \A d \in Conns : Stage(d)' = Stage(d)
      BY <1>2, <1>5, StageKept
    <2>2. Promise!Stop
      BY <1>1, <1>5, <2>1, StopStep DEF MayStop
    <2> QED BY Zenon, <2>2 DEF Promise!PromiseNext
  <1>6. CASE RedeemNativeGatewayTicket(t) /\ Redeemable(c, gw[t])
    <2>1. /\ Access(c) /\ consumedBy[c] = None
          /\ consumedBy' = [consumedBy EXCEPT ![c] = t]
          /\ leaseUntil' = [leaseUntil EXCEPT ![c] = LeaseEnd(c)]
      BY Zenon, <1>3, <1>6 DEF RedeemNativeGatewayTicket, Redeemable
    <2>2. /\ consumedBy'[c] = t
          /\ \A d \in Conns \ {c} : consumedBy'[d] = consumedBy[d]
      BY <2>1 DEF Inv, Types
    <2>3. ~Flows(t)
      BY <1>3, <2>1, Constants DEF Flows, Inv, TunnelHolds
    <2>4. Stage(c) = "unused"
      BY Zenon, <2>1 DEF StageFacts
    <2>5. Stage(c)' \in {"claimed", "ended"}
      <3>1. ~Flows(t)'
        BY <1>2, <2>3
      <3>2. /\ ~Flows(t)' /\ phase'[t] \in Early => Stage(c)' = "claimed"
            /\ ~Flows(t)' /\ phase'[t] \notin Early => Stage(c)' = "ended"
        BY Zenon, <2>2 DEF StageFacts
      <3> QED BY <3>1, <3>2
    <2>6. \A d \in Conns : d # c => Stage(d)' = Stage(d)
      BY <1>2, <2>2, StageKept
    <2>7. Promise!Claim(c, LeaseEnd(c), Stage(c)')
      BY Zenon, <1>1, <1>4, <2>1, <2>4, <2>6 DEF Promise!Claim
    <2> QED BY <1>4, <2>1, <2>5, <2>7 DEF Promise!PromiseNext
  <1>7. CASE RenewNativeGatewayGrant(t) /\ Renewable(c)
    <2>1. /\ Access(c) /\ now < leaseUntil[c] /\ consumedBy' = consumedBy
          /\ leaseUntil' = [leaseUntil EXCEPT ![c] = LeaseEnd(c)]
      BY Zenon, <1>3, <1>7 DEF RenewNativeGatewayGrant, Renewable
    <2>2. \A d \in Conns : Stage(d)' = Stage(d)
      BY <1>2, <2>1, StageKept
    <2>3. consumedBy[c] = t
      BY <1>3, <1>7 DEF RenewNativeGatewayGrant, Inv, TunnelHolds
    <2>4. Stage(c) # "unused"
      <3>1. /\ Flows(t) => Stage(c) = "flowing"
            /\ ~Flows(t) /\ phase[t] \in Early => Stage(c) = "claimed"
            /\ ~Flows(t) /\ phase[t] \notin Early => Stage(c) = "ended"
        BY Zenon, <2>3 DEF StageFacts
      <3> QED BY <3>1
    <2>5. Promise!Extend(c, LeaseEnd(c))
      BY <1>1, <1>4, <2>1, <2>2, <2>4 DEF Promise!Extend
    <2> QED BY <1>4, <2>1, <2>5 DEF Promise!PromiseNext
  <1>8. \/ RedeemNativeGatewayTicket(t) /\ Redeemable(c, gw[t])
        \/ RenewNativeGatewayGrant(t) /\ Renewable(c)
        \/ UNCHANGED <<consumedBy, leaseUntil>>
    BY Zenon, <1>3 DEF RedeemNativeGatewayTicket, RenewNativeGatewayGrant
  <1> QED BY Zenon, <1>5, <1>6, <1>7, <1>8

\* Authority is lost as the promise says, or nothing it speaks of changes.
LEMMA AuthorityRefines ==
  ASSUME Inv, StageFacts, StageFacts', AuthorityChanges
  PROVE  Promise!PromiseNext
  <1>1. UNCHANGED <<now, leaseUntil, consumedBy, phase, deadline>>
    BY DEF AuthorityChanges, tunnelVars
  <1>2. \A c \in Conns : Stage(c)' = Stage(c)
    <2>1. \A t \in Tunnels : (Flows(t)' <=> Flows(t)) /\ phase'[t] = phase[t]
      BY <1>1 DEF Flows
    <2> QED BY <1>1, <2>1, StageKept
  <1>3. lost \in [Conns -> Nat]
    BY DEF Inv, Types
  <1>4. lost' = lost \/ \E C \in SUBSET Conns : lost' = Noted(C)
    <2>1. ASSUME NEW c \in Conns, LoseConnection(c) PROVE \E C \in SUBSET Conns : lost' = Noted(C)
      BY <2>1 DEF LoseConnection
    <2>2. ASSUME PutPolicy PROVE \E C \in SUBSET Conns : lost' = Noted(C)
      BY <2>2 DEF PutPolicy
    <2> QED BY Zenon, <2>1, <2>2 DEF AuthorityChanges, HoldDesktop, ApplyPolicy
  <1>5. Promise!Lose
    BY <1>1, <1>2, <1>3, <1>4 DEF Promise!Lose, Noted
  <1> QED BY Zenon, <1>5 DEF Promise!PromiseNext

\* Draining only ends tunnels, and a restart ends all of a gateway's.
LEMMA GatewayRefines ==
  ASSUME Inv, StageFacts, StageFacts', GatewayNext
  PROVE  Promise!PromiseNext
  <1>1. UNCHANGED <<now, lost, leaseUntil, consumedBy>>
    BY DEF GatewayNext, Drain, Join, Restart, storeVars
  <1>2. \A t \in Tunnels :
          /\ Flows(t)' => Flows(t)
          /\ phase'[t] \in Early => phase[t] \in Early \cup {"new", "admitted"}
    <2>1. ASSUME NEW g \in Gateways, Drain(g) \/ Join(g) PROVE UNCHANGED <<phase, deadline>>
      BY <2>1 DEF Drain, Join, tunnelVars
    <2>2. ASSUME NEW g \in Gateways, Restart(g), NEW t \in Tunnels
          PROVE  phase'[t] \in {"new", "done"} \/ (phase'[t] = phase[t] /\ deadline'[t] = deadline[t])
      BY <2>2 DEF Restart, Live
    <2> QED BY <1>1, <2>1, <2>2 DEF GatewayNext, Flows, Early
  <1> QED BY Zenon, <1>1, <1>2, OnlyStops, StopStep DEF Promise!PromiseNext

\* When time passes, a tunnel still flows only if its lease is still ahead.
LEMMA TickRefines ==
  ASSUME Inv, StageFacts, StageFacts', Tick
  PROVE  Promise!PromiseNext
  <1>1. /\ now' = now + 1
        /\ UNCHANGED <<lost, leaseUntil, consumedBy, ticket, phase, deadline>>
    BY DEF Tick, storeVars, tunnelVars
  <1>2. \A t \in Tunnels : Flows(t)' => Flows(t)
    BY <1>1 DEF Flows, Inv, Types
  <1>3. \A c \in Conns : MayStop(c)
    BY <1>1, <1>2, OnlyStops
  <1>4. ASSUME NEW c \in Conns, Stage(c)' = "flowing" PROVE now' < leaseUntil[c]
    <2>1. consumedBy[c] # None
      <3>1. consumedBy'[c] = None => Stage(c)' = "unused"
        BY Zenon DEF StageFacts
      <3> QED BY <1>1, <1>4, <3>1
    <2>2. PICK t \in Tunnels : consumedBy[c] = t /\ ticket[t] = c
      BY <2>1 DEF Inv, Types, LeaseHolds
    <2>3. consumedBy'[c] = t
      BY <1>1, <2>2
    <2>4. Flows(t)'
      <3>1. /\ ~Flows(t)' /\ phase'[t] \in Early => Stage(c)' = "claimed"
            /\ ~Flows(t)' /\ phase'[t] \notin Early => Stage(c)' = "ended"
        BY Zenon, <2>3 DEF StageFacts
      <3> QED BY <1>4, <3>1
    <2> QED BY <1>1, <2>2, <2>4 DEF Flows, Inv, Types, TunnelHolds
  <1>5. Promise!PassTime
    BY <1>1, <1>3, <1>4 DEF Promise!PassTime, Promise!Stops, MayStop
  <1> QED BY Zenon, <1>5 DEF Promise!PromiseNext

\* Tickets, calls and relays implement the promise: every initial state maps to
\* one of the promise's, and every step to a step of it or to none.
THEOREM GatewayKeepsPromise == Spec => KeepsPromise
  <1>1. Init => Promise!PromiseInit
    <2> SUFFICES ASSUME Init PROVE Promise!PromiseInit
      OBVIOUS
    <2>1. StageFacts
      BY InitInv, StageIs
    <2>2. \A c \in Conns : Stage(c) = "unused"
      BY <2>1 DEF Init, StageFacts
    <2> QED BY <2>2 DEF Init, Promise!PromiseInit
  <1>2. Inv' => StageFacts'
    BY StageIs, PTL
  <1>3. ASSUME Inv, Inv', [Next]_vars PROVE [Promise!PromiseNext]_(Promise!promiseVars)
    <2>1. StageFacts /\ StageFacts'
      BY <1>2, <1>3, StageIs
    <2>2. ASSUME NEW c \in Conns,
                 CloseNativeGatewayGrant(c) \/ \E g \in Gateways : CreateNativeGatewayTicket(c, g)
          PROVE  UNCHANGED <<now, lost, leaseUntil, consumedBy, phase, deadline>>
      BY <2>2 DEF CloseNativeGatewayGrant, CreateNativeGatewayTicket, tunnelVars
    <2>3. ASSUME UNCHANGED <<now, lost, leaseUntil, consumedBy, phase, deadline>>
          PROVE  UNCHANGED Promise!promiseVars
      <3>1. \A t \in Tunnels : (Flows(t)' <=> Flows(t)) /\ phase'[t] = phase[t]
        BY <2>3 DEF Flows
      <3>2. \A c \in Conns : Stage(c)' = Stage(c)
        BY <1>3, <2>1, <2>3, <3>1, StageKept
      <3> QED BY <2>3, <3>2 DEF Promise!promiseVars
    <2>4. ASSUME UNCHANGED vars PROVE UNCHANGED <<now, lost, leaseUntil, consumedBy, phase, deadline>>
      BY <2>4 DEF vars, storeVars, tunnelVars
    <2>5. ASSUME \E t \in Tunnels : RedeemNativeGatewayTicket(t) \/ RenewNativeGatewayGrant(t)
          PROVE  Promise!PromiseNext
      BY Zenon, <1>3, <2>1, <2>5, AnswerRefines
    <2>6. ASSUME \E t \in Tunnels : TunnelNext(t) PROVE Promise!PromiseNext
      BY Zenon, <1>3, <2>1, <2>6, TunnelRefines
    <2>7. ASSUME AuthorityChanges \/ GatewayNext \/ Tick PROVE Promise!PromiseNext
      BY Zenon, <1>3, <2>1, <2>7, AuthorityRefines, GatewayRefines, TickRefines
    <2> QED BY Zenon, <1>3, <2>2, <2>3, <2>4, <2>5, <2>6, <2>7 DEF Next, StoreNext
  <1> QED BY <1>1, <1>3, LeasesBound, PTL DEF Spec, KeepsPromise, Promise!PromiseSpec

------------------------------------------------------------------------------
(* Slots and workers.                                                      *)

InRelay == {"redeeming", "dialing", "dialed", "relaying", "closing"}

\* The handlers of a gateway that have not returned, and those in its relay.
Busy(g) == {t \in Tunnels : gw[t] = g /\ Live(t)}
Relayed(g) == {t \in Tunnels : gw[t] = g /\ phase[t] \in InRelay}

\* The counters of a gateway count its handlers, which fit its slots, and after
\* a drain that was joined there are none.
CountsHold(g) ==
    /\ IsFiniteSet(Busy(g))
    /\ workers[g] = Cardinality(Busy(g)) /\ workers[g] <= MaxConnections
    /\ slots[g] = Cardinality(Relayed(g))
    /\ joined[g] => draining[g] /\ workers[g] = 0

CountTypes ==
    /\ gw \in [Tunnels -> Gateways \cup {None}]
    /\ workers \in [Gateways -> Nat] /\ slots \in [Gateways -> Nat]
    /\ draining \in [Gateways -> BOOLEAN] /\ joined \in [Gateways -> BOOLEAN]
    /\ \A t \in Tunnels : Live(t) => gw[t] \in Gateways

CountInv == CountTypes /\ \A g \in Gateways : CountsHold(g)

\* The relay's handlers are among the gateway's.
LEMMA RelayedIsBusy ==
  ASSUME CountInv, NEW g \in Gateways
  PROVE  /\ IsFiniteSet(Busy(g)) /\ IsFiniteSet(Relayed(g))
         /\ Cardinality(Busy(g)) \in Nat /\ Cardinality(Relayed(g)) \in Nat
         /\ Relayed(g) \subseteq Busy(g)
  <1>1. IsFiniteSet(Busy(g))
    BY Zenon DEF CountInv, CountsHold
  <1>2. Relayed(g) \subseteq Busy(g)
    BY DEF Relayed, Busy, InRelay, Live
  <1>3. IsFiniteSet(Relayed(g))
    BY Zenon, <1>1, <1>2, FS_Subset
  <1> QED BY Zenon, <1>1, <1>2, <1>3, FS_CardinalityType

\* What a change of one tunnel's phase does to the two sets.
LEMMA SetsMove ==
  ASSUME Inv, NEW t \in Tunnels, NEW p, phase' = [phase EXCEPT ![t] = p], gw' = gw, NEW g
  PROVE  /\ gw[t] # g => Busy(g)' = Busy(g) /\ Relayed(g)' = Relayed(g)
         /\ (Live(t) <=> p \notin {"new", "done"}) => Busy(g)' = Busy(g)
         /\ (phase[t] \in InRelay <=> p \in InRelay) => Relayed(g)' = Relayed(g)
         /\ gw[t] = g /\ p = "done" => Busy(g)' = Busy(g) \ {t}
         /\ gw[t] = g /\ p \in InRelay => Relayed(g)' = Relayed(g) \cup {t}
         /\ gw[t] = g /\ p \notin InRelay => Relayed(g)' = Relayed(g) \ {t}
  <1>1. phase'[t] = p /\ \A u \in Tunnels : u # t => phase'[u] = phase[u]
    BY Zenon DEF Inv, Types
  <1>2. \A u \in Tunnels : u # t => (u \in Busy(g)' <=> u \in Busy(g)) /\ (u \in Relayed(g)' <=> u \in Relayed(g))
    BY Zenon, <1>1 DEF Busy, Relayed, Live
  <1>3. /\ t \in Busy(g)' <=> gw[t] = g /\ p \notin {"new", "done"}
        /\ t \in Busy(g) <=> gw[t] = g /\ Live(t)
        /\ t \in Relayed(g)' <=> gw[t] = g /\ p \in InRelay
        /\ t \in Relayed(g) <=> gw[t] = g /\ phase[t] \in InRelay
    BY Zenon, <1>1 DEF Busy, Relayed, Live
  <1>4. /\ Busy(g)' \subseteq Tunnels /\ Busy(g) \subseteq Tunnels
        /\ Relayed(g)' \subseteq Tunnels /\ Relayed(g) \subseteq Tunnels
    BY Zenon DEF Busy, Relayed
  <1>5. (t \in Busy(g)' <=> t \in Busy(g)) => Busy(g)' = Busy(g)
    BY <1>2, <1>4
  <1>6. (t \in Relayed(g)' <=> t \in Relayed(g)) => Relayed(g)' = Relayed(g)
    BY <1>2, <1>4
  <1>7. t \notin Busy(g)' => Busy(g)' = Busy(g) \ {t}
    BY Zenon, <1>2, <1>4
  <1>8. t \in Relayed(g)' => Relayed(g)' = Relayed(g) \cup {t}
    BY Zenon, <1>2, <1>4
  <1>9. t \notin Relayed(g)' => Relayed(g)' = Relayed(g) \ {t}
    BY Zenon, <1>2, <1>4
  <1> QED BY Zenon, <1>3, <1>5, <1>6, <1>7, <1>8, <1>9

\* A gateway none of whose handlers comes or goes.
LEMMA CountsFrame ==
  ASSUME NEW g \in Gateways, CountsHold(g), Busy(g)' = Busy(g), Relayed(g)' = Relayed(g),
         workers'[g] = workers[g], slots'[g] = slots[g],
         draining'[g] = draining[g], joined'[g] = joined[g]
  PROVE  CountsHold(g)'
  BY Zenon DEF CountsHold

\* A positive count can be lowered by one.
LEMMA OneLess ==
  \A n, m \in Nat : n > 0 /\ n <= m => n - 1 \in Nat /\ n - 1 <= m
  BY SMT

\* A socket is admitted while there is a worker to spare and no drain.
LEMMA AdmitCounts ==
  ASSUME Inv, CountInv, NEW t \in Tunnels, NEW g \in Gateways, Admit(t, g)
  PROVE  CountInv'
  <1>0. /\ CountTypes /\ phase \in [Tunnels -> Phases] /\ gw \in [Tunnels -> Gateways \cup {None}]
        /\ workers \in [Gateways -> Nat] /\ MaxConnections \in Nat
    BY Zenon, GatewayAssumption DEF Inv, Types, CountInv, CountTypes
  <1>1. /\ phase[t] = "new" /\ ~draining[g] /\ workers[g] < MaxConnections
        /\ phase' = [phase EXCEPT ![t] = "admitted"] /\ gw' = [gw EXCEPT ![t] = g]
        /\ workers' = [workers EXCEPT ![g] = @ + 1]
        /\ UNCHANGED <<slots, draining, joined>>
    BY Zenon DEF Admit
  <1>2. /\ phase'[t] = "admitted" /\ gw'[t] = g /\ workers'[g] = workers[g] + 1
        /\ \A u \in Tunnels : u # t => phase'[u] = phase[u] /\ gw'[u] = gw[u]
        /\ \A h \in Gateways : h # g => workers'[h] = workers[h]
    BY Zenon, <1>0, <1>1
  <1>3. "admitted" \notin InRelay /\ "new" \notin InRelay /\ ~Live(t)
    BY <1>1 DEF InRelay, Live
  <1>4. ASSUME NEW h \in Gateways
        PROVE  /\ Relayed(h)' = Relayed(h)
               /\ h # g => Busy(h)' = Busy(h)
               /\ h = g => Busy(h)' = Busy(h) \cup {t} /\ t \notin Busy(h)
    <2>1. \A u \in Tunnels : u \in Relayed(h)' <=> u \in Relayed(h)
      BY Zenon, <1>1, <1>2, <1>3 DEF Relayed
    <2>2. Relayed(h)' \subseteq Tunnels /\ Relayed(h) \subseteq Tunnels
      BY Zenon DEF Relayed
    <2>3. \A u \in Tunnels : u # t => (u \in Busy(h)' <=> u \in Busy(h))
      BY Zenon, <1>2 DEF Busy, Live
    <2>4. (t \in Busy(h)' <=> h = g) /\ t \notin Busy(h)
      BY <1>2, <1>3 DEF Busy, Live
    <2>5. Busy(h)' \subseteq Tunnels /\ Busy(h) \subseteq Tunnels
      BY Zenon DEF Busy
    <2>6. Relayed(h)' = Relayed(h)
      BY Zenon, <2>1, <2>2
    <2>7. h # g => Busy(h)' = Busy(h)
      BY <2>3, <2>4, <2>5
    <2>8. h = g => Busy(h)' = Busy(h) \cup {t}
      BY Zenon, <2>3, <2>4, <2>5
    <2> QED BY Zenon, <2>4, <2>6, <2>7, <2>8
  <1>5. CountsHold(g)'
    <2>1. CountsHold(g) /\ IsFiniteSet(Busy(g))
      BY Zenon DEF CountInv, CountsHold
    <2>2. IsFiniteSet(Busy(g)') /\ Cardinality(Busy(g)') = Cardinality(Busy(g)) + 1
      BY <1>4, <2>1, FS_AddElement
    <2>3. workers'[g] <= MaxConnections
      BY <1>0, <1>1, <1>2
    <2> QED BY Zenon, <1>1, <1>2, <1>4, <2>1, <2>2, <2>3 DEF CountsHold
  <1>6. ASSUME NEW h \in Gateways, h # g PROVE CountsHold(h)'
    BY Zenon, <1>1, <1>2, <1>4, <1>6, CountsFrame DEF CountInv
  <1>7. CountTypes'
    <2>1. workers' \in [Gateways -> Nat]
      BY <1>0, <1>1
    <2>2. gw' \in [Tunnels -> Gateways \cup {None}]
      BY Zenon, <1>0, <1>1
    <2>3. \A u \in Tunnels : Live(u)' => gw'[u] \in Gateways
      BY Zenon, <1>0, <1>2 DEF CountTypes, Live
    <2> QED BY Zenon, <1>0, <1>1, <2>1, <2>2, <2>3 DEF CountTypes
  <1> QED BY Zenon, <1>5, <1>6, <1>7 DEF CountInv

\* A handler moves on: within the relay or outside it, into the relay, out of
\* it, or to its end.
LEMMA PhaseCounts ==
  ASSUME Inv, CountInv, NEW t \in Tunnels, NEW p, Live(t),
         phase' = [phase EXCEPT ![t] = p], UNCHANGED <<gw, draining, joined>>,
         \/ /\ p \notin {"new", "done"} /\ (phase[t] \in InRelay <=> p \in InRelay)
            /\ UNCHANGED <<workers, slots>>
         \/ /\ p \in InRelay /\ phase[t] \notin InRelay
            /\ slots' = [slots EXCEPT ![gw[t]] = @ + 1] /\ workers' = workers
         \/ /\ p = "returned" /\ phase[t] \in InRelay
            /\ slots' = [slots EXCEPT ![gw[t]] = @ - 1] /\ workers' = workers
         \/ /\ p = "done" /\ phase[t] = "returned"
            /\ workers' = [workers EXCEPT ![gw[t]] = @ - 1] /\ slots' = slots
  PROVE  CountInv'
  <1>0. /\ CountTypes /\ workers \in [Gateways -> Nat] /\ slots \in [Gateways -> Nat] /\ gw[t] \in Gateways
        /\ phase \in [Tunnels -> Phases]
    BY Zenon DEF CountInv, CountTypes, Inv, Types
  <1>g. PICK g \in Gateways : g = gw[t]
    BY Zenon, <1>0
  <1>c. /\ CountsHold(g) /\ IsFiniteSet(Busy(g)) /\ IsFiniteSet(Relayed(g)) /\ t \in Busy(g)
        /\ Cardinality(Busy(g)) \in Nat /\ Cardinality(Relayed(g)) \in Nat
        /\ workers[g] = Cardinality(Busy(g)) /\ slots[g] = Cardinality(Relayed(g)) /\ MaxConnections \in Nat
        /\ workers[g] <= MaxConnections /\ (joined[g] => draining[g] /\ workers[g] = 0)
    BY Zenon, <1>g, RelayedIsBusy, GatewayAssumption DEF CountInv, CountsHold, Busy
  <1>n. Cardinality(Busy(g)) > 0
    BY SMTT(40), <1>c, FS_EmptySet
  <1>j. ~joined[g]
    BY SMTT(40), <1>c, <1>n
  <1>l. /\ "returned" \notin InRelay /\ "done" \notin InRelay /\ "returned" \notin {"new", "done"}
        /\ p \in InRelay => p \notin {"new", "done"}
    BY DEF InRelay
  <1>m. /\ \A h \in Gateways : h # g => Busy(h)' = Busy(h) /\ Relayed(h)' = Relayed(h)
        /\ p \notin {"new", "done"} => Busy(g)' = Busy(g)
        /\ (phase[t] \in InRelay <=> p \in InRelay) => Relayed(g)' = Relayed(g)
        /\ p = "done" => Busy(g)' = Busy(g) \ {t}
        /\ p \in InRelay => Relayed(g)' = Relayed(g) \cup {t}
        /\ p \notin InRelay => Relayed(g)' = Relayed(g) \ {t}
    BY Zenon, <1>g, SetsMove
  <1>r. t \in Relayed(g) <=> phase[t] \in InRelay
    BY Zenon, <1>g DEF Relayed
  <1>o. ASSUME NEW h \in Gateways, h # g PROVE CountsHold(h)'
    <2>1. workers'[h] = workers[h] /\ slots'[h] = slots[h]
      BY Zenon, <1>0, <1>g, <1>o
    <2> QED BY Zenon, <1>m, <1>o, <2>1, CountsFrame DEF CountInv
  <1>k. \A u \in Tunnels : Live(u)' => gw'[u] \in Gateways
    BY Zenon, <1>0 DEF CountTypes, Live
  <1>1. CASE /\ p \notin {"new", "done"} /\ (phase[t] \in InRelay <=> p \in InRelay)
             /\ UNCHANGED <<workers, slots>>
    <2>1. CountsHold(g)'
      BY Zenon, <1>1, <1>c, <1>m, CountsFrame
    <2> QED BY Zenon, <1>0, <1>1, <1>k, <1>o, <2>1 DEF CountInv, CountTypes
  <1>2. CASE /\ p \in InRelay /\ phase[t] \notin InRelay
             /\ slots' = [slots EXCEPT ![gw[t]] = @ + 1] /\ workers' = workers
    <2>1. Relayed(g)' = Relayed(g) \cup {t} /\ Busy(g)' = Busy(g) /\ t \notin Relayed(g)
      BY Zenon, <1>2, <1>l, <1>m, <1>r
    <2>2. slots' \in [Gateways -> Nat] /\ slots'[g] = slots[g] + 1
      BY <1>0, <1>2, <1>g
    <2>3. Cardinality(Relayed(g)') = Cardinality(Relayed(g)) + 1
      <3>1. Cardinality(Relayed(g) \cup {t}) = IF t \in Relayed(g) THEN Cardinality(Relayed(g)) ELSE Cardinality(Relayed(g)) + 1
        BY Zenon, <1>c, FS_AddElement
      <3> QED BY Zenon, <2>1, <3>1
    <2>4. CountsHold(g)'
      BY Zenon, <1>2, <1>c, <2>1, <2>2, <2>3 DEF CountsHold
    <2> QED BY Zenon, <1>0, <1>2, <1>k, <1>o, <2>2, <2>4 DEF CountInv, CountTypes
  <1>3. CASE /\ p = "returned" /\ phase[t] \in InRelay
             /\ slots' = [slots EXCEPT ![gw[t]] = @ - 1] /\ workers' = workers
    <2>1. Relayed(g)' = Relayed(g) \ {t} /\ Busy(g)' = Busy(g) /\ t \in Relayed(g)
      BY Zenon, <1>3, <1>l, <1>m, <1>r
    <2>2. Cardinality(Relayed(g)') = Cardinality(Relayed(g)) - 1 /\ Cardinality(Relayed(g)) # 0
      <3>1. Cardinality(Relayed(g) \ {t}) = IF t \in Relayed(g) THEN Cardinality(Relayed(g)) - 1 ELSE Cardinality(Relayed(g))
        BY Zenon, <1>c, FS_RemoveElement
      <3>2. Cardinality(Relayed(g)) # 0
        BY Zenon, <1>c, <2>1, FS_EmptySet
      <3> QED BY Zenon, <2>1, <3>1, <3>2
    <2>3. slots' \in [Gateways -> Nat] /\ slots'[g] = slots[g] - 1
      BY SMTT(40), <1>0, <1>3, <1>c, <1>g, <2>2
    <2>4. CountsHold(g)'
      BY Zenon, <1>3, <1>c, <2>1, <2>2, <2>3 DEF CountsHold
    <2> QED BY Zenon, <1>0, <1>3, <1>k, <1>o, <2>3, <2>4 DEF CountInv, CountTypes
  <1>4. CASE /\ p = "done" /\ phase[t] = "returned"
             /\ workers' = [workers EXCEPT ![gw[t]] = @ - 1] /\ slots' = slots
    <2>1. Busy(g)' = Busy(g) \ {t} /\ Relayed(g)' = Relayed(g)
      BY Zenon, <1>4, <1>l, <1>m
    <2>2. Cardinality(Busy(g)') = Cardinality(Busy(g)) - 1 /\ IsFiniteSet(Busy(g)')
      BY <1>c, <2>1, FS_RemoveElement
    <2>3. workers' \in [Gateways -> Nat] /\ workers'[g] = workers[g] - 1 /\ workers'[g] <= MaxConnections
      <3>1. workers[g] - 1 \in Nat /\ workers[g] - 1 <= MaxConnections
        BY Zenon, <1>c, <1>n, OneLess
      <3> QED BY Zenon, <1>0, <1>4, <1>g, <3>1
    <2>4. CountsHold(g)'
      BY Zenon, <1>4, <1>c, <1>j, <2>1, <2>2, <2>3 DEF CountsHold
    <2> QED BY Zenon, <1>0, <1>4, <1>k, <1>o, <2>3, <2>4 DEF CountInv, CountTypes
  <1> QED BY Zenon, <1>1, <1>2, <1>3, <1>4

\* Every path of a tunnel counts what it takes and gives back.
LEMMA TunnelCounts ==
  ASSUME Inv, CountInv, NEW t \in Tunnels, TunnelNext(t)
  PROVE  CountInv'
  <1>0. /\ \A q \in InRelay \cup {"admitted", "returned"} : phase[t] = q => Live(t)
        /\ "admitted" \notin InRelay /\ "returned" \notin InRelay
        /\ {"redeeming", "dialing", "dialed", "relaying", "closing"} = InRelay
        /\ \A q \in InRelay : q \notin {"new", "done"}
    BY DEF InRelay, Live
  <1>1. ASSUME NEW c \in Conns, Serve(t, c) PROVE CountInv'
    <2>1. /\ phase[t] = "admitted" /\ phase' = [phase EXCEPT ![t] = "redeeming"]
          /\ slots' = [slots EXCEPT ![gw[t]] = @ + 1] /\ UNCHANGED <<workers, gw, draining, joined>>
      BY Zenon, <1>1 DEF Serve
    <2> QED BY Zenon, <1>0, <2>1, PhaseCounts
  <1>2. CASE RejectFrame(t)
    <2>1. /\ phase[t] = "admitted" /\ phase' = [phase EXCEPT ![t] = "returned"]
          /\ UNCHANGED <<workers, slots, gw, draining, joined>>
      BY Zenon, <1>2 DEF RejectFrame, serviceVars
    <2>2. "returned" \notin {"new", "done"}
      OBVIOUS
    <2> QED BY Zenon, <1>0, <2>1, <2>2, PhaseCounts
  <1>3. ASSUME NEW p \in InRelay, phase[t] \in InRelay, phase' = [phase EXCEPT ![t] = p],
               UNCHANGED <<workers, slots, gw, draining, joined>>
        PROVE  CountInv'
    BY Zenon, <1>0, <1>3, PhaseCounts
  <1>4. ASSUME Finish(t), phase[t] \in InRelay, UNCHANGED serviceVars, UNCHANGED gw PROVE CountInv'
    BY Zenon, <1>0, <1>3, <1>4 DEF Finish, serviceVars
  <1>5. CASE Redeemed(t)
    BY Zenon, <1>0, <1>3, <1>4, <1>5 DEF Redeemed, serviceVars
  <1>6. CASE Dial(t) \/ Ready(t)
    BY Zenon, <1>0, <1>3, <1>6 DEF Dial, Ready, serviceVars
  <1>7. CASE RenewTimer(t)
    <2>1. /\ phase[t] = "relaying" /\ phase' = [phase EXCEPT ![t] = "relaying"]
          /\ UNCHANGED <<workers, slots, gw, draining, joined>>
      BY Zenon, <1>7 DEF RenewTimer, serviceVars, Inv, Types
    <2> QED BY Zenon, <1>0, <1>3, <2>1
  <1>8. CASE Renewed(t)
    <2>1. CASE phase[t] = "relaying" /\ phase' = phase /\ UNCHANGED <<workers, slots, gw, draining, joined>>
      <3>1. phase' = [phase EXCEPT ![t] = "relaying"]
        BY Zenon, <2>1 DEF Inv, Types
      <3> QED BY Zenon, <1>0, <1>3, <2>1, <3>1
    <2> QED BY Zenon, <1>0, <1>4, <1>8, <2>1 DEF Renewed, serviceVars
  <1>9. CASE ConnectFails(t) \/ RenewalFails(t) \/ Expire(t) \/ CopyEnds(t) \/ Cancelled(t)
    BY Zenon, <1>0, <1>4, <1>9 DEF ConnectFails, RenewalFails, Expire, CopyEnds, Cancelled
  <1>10. CASE RedemptionFails(t) \/ CloseAnswered(t)
    <2>1. /\ phase[t] \in InRelay /\ phase' = [phase EXCEPT ![t] = "returned"]
          /\ slots' = [slots EXCEPT ![gw[t]] = @ - 1] /\ UNCHANGED <<workers, gw, draining, joined>>
      BY Zenon, <1>0, <1>10 DEF RedemptionFails, CloseAnswered, Release
    <2> QED BY Zenon, <1>0, <2>1, PhaseCounts
  <1>11. CASE Return(t)
    <2>1. /\ phase[t] = "returned" /\ phase' = [phase EXCEPT ![t] = "done"]
          /\ workers' = [workers EXCEPT ![gw[t]] = @ - 1] /\ UNCHANGED <<slots, gw, draining, joined>>
      BY Zenon, <1>11 DEF Return
    <2> QED BY Zenon, <1>0, <2>1, PhaseCounts
  <1> QED BY Zenon, <1>1, <1>2, <1>5, <1>6, <1>7, <1>8, <1>9, <1>10, <1>11, AdmitCounts DEF TunnelNext

\* A step that leaves handlers and counters alone.
LEMMA SameCounts ==
  ASSUME CountInv, UNCHANGED <<phase, gw, workers, slots, draining, joined>>
  PROVE  CountInv'
  BY Zenon DEF CountInv, CountTypes, CountsHold, Busy, Relayed, Live

\* Drain, join and restart.  A new process starts with empty counters, and
\* every socket of the old one is gone.
LEMMA GatewayCounts ==
  ASSUME Inv, CountInv, GatewayNext
  PROVE  CountInv'
  <1>0. /\ CountTypes /\ workers \in [Gateways -> Nat] /\ slots \in [Gateways -> Nat]
        /\ draining \in [Gateways -> BOOLEAN] /\ joined \in [Gateways -> BOOLEAN]
        /\ phase \in [Tunnels -> Phases] /\ MaxConnections \in Nat
    BY Zenon, GatewayAssumption DEF CountInv, CountTypes, Inv, Types
  <1>1. ASSUME NEW g \in Gateways, Drain(g) \/ Join(g) PROVE CountInv'
    <2>1. UNCHANGED <<phase, gw, workers, slots>>
      BY Zenon, <1>1 DEF Drain, Join, tunnelVars
    <2>2. draining' \in [Gateways -> BOOLEAN] /\ joined' \in [Gateways -> BOOLEAN]
      BY Zenon, <1>0, <1>1 DEF Drain, Join
    <2>3. ASSUME NEW h \in Gateways PROVE joined'[h] => draining'[h] /\ workers[h] = 0
      <3>1. joined[h] => draining[h] /\ workers[h] = 0
        BY Zenon DEF CountInv, CountsHold
      <3>2. CASE Drain(g)
        <4>1. joined' = joined /\ (draining[h] => draining'[h])
          BY Zenon, <1>0, <3>2 DEF Drain
        <4> QED BY Zenon, <3>1, <4>1
      <3>3. CASE Join(g)
        <4>1. draining' = draining /\ draining[g] /\ workers[g] = 0 /\ (h # g => joined'[h] = joined[h])
          BY Zenon, <1>0, <3>3 DEF Join
        <4> QED BY Zenon, <3>1, <4>1
      <3> QED BY Zenon, <1>1, <3>2, <3>3
    <2>4. ASSUME NEW h \in Gateways PROVE CountsHold(h)'
      <3>1. Busy(h)' = Busy(h) /\ Relayed(h)' = Relayed(h)
        BY Zenon, <2>1 DEF Busy, Relayed, Live
      <3> QED BY Zenon, <2>1, <2>3, <3>1 DEF CountInv, CountsHold
    <2>5. CountTypes'
      BY Zenon, <1>0, <2>1, <2>2 DEF CountTypes, Live
    <2> QED BY Zenon, <2>4, <2>5 DEF CountInv
  <1>2. ASSUME NEW g \in Gateways, Restart(g) PROVE CountInv'
    <2>1. /\ phase' = [t \in Tunnels |-> IF gw[t] = g /\ Live(t) THEN "done" ELSE phase[t]]
          /\ workers' = [workers EXCEPT ![g] = 0] /\ slots' = [slots EXCEPT ![g] = 0]
          /\ draining' = [draining EXCEPT ![g] = FALSE] /\ joined' = [joined EXCEPT ![g] = FALSE]
          /\ gw' = gw
      BY Zenon, <1>2 DEF Restart
    <2>2. ASSUME NEW t \in Tunnels
          PROVE  /\ gw[t] = g => ~Live(t)' /\ phase'[t] \notin InRelay
                 /\ gw[t] # g => phase'[t] = phase[t]
      BY <2>1 DEF Live, InRelay
    <2>3. Busy(g)' = {} /\ Relayed(g)' = {}
      BY Zenon, <2>1, <2>2 DEF Busy, Relayed
    <2>4. ASSUME NEW h \in Gateways, h # g PROVE Busy(h)' = Busy(h) /\ Relayed(h)' = Relayed(h)
      <3>1. \A u \in Tunnels : (u \in Busy(h)' <=> u \in Busy(h)) /\ (u \in Relayed(h)' <=> u \in Relayed(h))
        BY Zenon, <2>1, <2>2, <2>4 DEF Busy, Relayed, Live
      <3>2. /\ Busy(h)' \subseteq Tunnels /\ Busy(h) \subseteq Tunnels
            /\ Relayed(h)' \subseteq Tunnels /\ Relayed(h) \subseteq Tunnels
        BY Zenon DEF Busy, Relayed
      <3> QED BY Zenon, <3>1, <3>2
    <2>5. CountsHold(g)'
      <3>1. workers'[g] = 0 /\ slots'[g] = 0 /\ joined'[g] = FALSE
        BY Zenon, <1>0, <2>1
      <3>2. 0 <= MaxConnections
        BY <1>0
      <3> QED BY Zenon, <2>3, <3>1, <3>2, FS_EmptySet DEF CountsHold
    <2>6. ASSUME NEW h \in Gateways, h # g PROVE CountsHold(h)'
      <3>1. /\ workers'[h] = workers[h] /\ slots'[h] = slots[h]
            /\ draining'[h] = draining[h] /\ joined'[h] = joined[h]
        BY Zenon, <1>0, <2>1, <2>6
      <3> QED BY Zenon, <2>4, <2>6, <3>1, CountsFrame DEF CountInv
    <2>7. CountTypes'
      <3>1. workers' \in [Gateways -> Nat] /\ slots' \in [Gateways -> Nat]
        BY <1>0, <2>1
      <3>2. \A u \in Tunnels : Live(u)' => gw'[u] \in Gateways
        BY Zenon, <1>0, <2>1, <2>2 DEF CountTypes, Live
      <3> QED BY Zenon, <1>0, <2>1, <3>1, <3>2 DEF CountTypes
    <2> QED BY Zenon, <2>5, <2>6, <2>7 DEF CountInv
  <1> QED BY Zenon, <1>1, <1>2 DEF GatewayNext

\* The counters of workers and slots count the handlers, on every path and
\* across restarts.
THEOREM CountersCount == Spec => []CountInv
  <1>1. Init => CountInv
    <2> SUFFICES ASSUME Init PROVE CountInv
      OBVIOUS
    <2>1. /\ \A t \in Tunnels : phase[t] = "new" /\ gw[t] = None
          /\ \A g \in Gateways : workers[g] = 0 /\ slots[g] = 0 /\ joined[g] = FALSE
      BY DEF Init
    <2>2. \A g \in Gateways : Busy(g) = {} /\ Relayed(g) = {}
      BY <2>1 DEF Busy, Relayed, Live, InRelay
    <2>3. CountTypes
      BY <2>1 DEF Init, CountTypes, Live
    <2>4. 0 <= MaxConnections
      BY GatewayAssumption
    <2> QED BY Zenon, <2>1, <2>2, <2>3, <2>4, FS_EmptySet DEF CountInv, CountsHold
  <1>2. ASSUME Inv, CountInv, [Next]_vars PROVE CountInv'
    <2>1. CASE StoreNext
      BY Zenon, <1>2, <2>1, SameCounts DEF StoreNext, CloseNativeGatewayGrant, CreateNativeGatewayTicket,
         RedeemNativeGatewayTicket, RenewNativeGatewayGrant, AuthorityChanges, tunnelVars, serviceVars
    <2>2. CASE Tick
      BY Zenon, <1>2, <2>2, SameCounts DEF Tick, tunnelVars, serviceVars
    <2>3. CASE UNCHANGED vars
      BY Zenon, <1>2, <2>3, SameCounts DEF vars, tunnelVars, serviceVars
    <2> QED BY Zenon, <1>2, <2>1, <2>2, <2>3, TunnelCounts, GatewayCounts DEF Next
  <1> QED BY <1>1, <1>2, LeasesBound, PTL DEF Spec

\* An admitted socket always finds a slot in the relay, and once Close has
\* joined the workers of a gateway it has no handler left.
THEOREM CountsAgreeAlways == Spec => []CountsAgree
  <1>1. CountInv => CountsAgree
    <2> SUFFICES ASSUME CountInv PROVE CountsAgree
      OBVIOUS
    <2>1. ASSUME NEW t \in Tunnels, phase[t] = "admitted" PROVE slots[gw[t]] < MaxConnections
      <3>1. Live(t) /\ phase[t] \notin InRelay
        BY <2>1 DEF Live, InRelay
      <3>2. PICK g \in Gateways : g = gw[t]
        BY Zenon, <3>1 DEF CountInv, CountTypes
      <3>3. t \in Busy(g) /\ t \notin Relayed(g)
        BY Zenon, <3>1, <3>2 DEF Busy, Relayed
      <3>4. /\ IsFiniteSet(Busy(g)) /\ Relayed(g) \in SUBSET Busy(g)
            /\ Cardinality(Busy(g)) \in Nat /\ Cardinality(Relayed(g)) \in Nat
        BY Zenon, RelayedIsBusy
      <3>5. Cardinality(Relayed(g)) <= Cardinality(Busy(g)) /\ Cardinality(Relayed(g)) # Cardinality(Busy(g))
        BY Zenon, <3>3, <3>4, FS_Subset
      <3>6. slots[g] = Cardinality(Relayed(g)) /\ Cardinality(Busy(g)) <= MaxConnections /\ MaxConnections \in Nat
        BY Zenon, GatewayAssumption DEF CountInv, CountsHold
      <3> QED BY <3>2, <3>4, <3>5, <3>6
    <2>2. ASSUME NEW t \in Tunnels, NEW g \in Gateways, joined[g], gw[t] = g PROVE ~Live(t)
      <3>1. IsFiniteSet(Busy(g)) /\ Cardinality(Busy(g)) = 0
        BY Zenon, <2>2 DEF CountInv, CountsHold
      <3>2. Busy(g) = {}
        BY Zenon, <3>1, FS_EmptySet
      <3> QED BY Zenon, <2>2, <3>2 DEF Busy
    <2> QED BY Zenon, <2>1, <2>2 DEF CountsAgree
  <1> QED BY <1>1, CountersCount, PTL

------------------------------------------------------------------------------
(* Types.                                                                  *)

\* The types that neither the leases nor the counters rest on.
RestTypes ==
    /\ held \in BOOLEAN
    /\ ticketGw \in [Conns -> Gateways \cup {None}]
    /\ ticketExp \in [Conns -> Nat]
    /\ ticketClosed \in [Conns -> BOOLEAN]
    /\ closeReqs \subseteq Conns
    /\ renewAt \in [Tunnels -> Nat]

\* The moment of a renewal is half-way to the deadline.
LEMMA HalfWay ==
  /\ Unarmed \in Nat
  /\ \A n, d \in Nat : n < d => n + (d - n) \div 2 \in Nat
  BY GatewayAssumption DEF Unarmed

LEMMA TicketTypes ==
  ASSUME Inv, RestTypes, StoreNext
  PROVE  RestTypes'
  <1>1. ASSUME NEW c \in Conns, CloseNativeGatewayGrant(c) PROVE RestTypes'
    BY Zenon, <1>1 DEF CloseNativeGatewayGrant, RestTypes, tunnelVars
  <1>2. ASSUME NEW c \in Conns, NEW g \in Gateways, CreateNativeGatewayTicket(c, g) PROVE RestTypes'
    <2>1. Earlier(Expiry[c], now + TicketLife) \in Nat
      BY GatewayAssumption DEF Earlier, Inv, Types
    <2> QED BY Zenon, <1>2, <2>1 DEF CreateNativeGatewayTicket, RestTypes, tunnelVars
  <1>3. ASSUME NEW t \in Tunnels, RedeemNativeGatewayTicket(t) \/ RenewNativeGatewayGrant(t) PROVE RestTypes'
    BY Zenon, <1>3 DEF RedeemNativeGatewayTicket, RenewNativeGatewayGrant, RestTypes, tunnelVars
  <1>4. CASE AuthorityChanges
    <2>1. held' \in BOOLEAN
      BY Zenon, <1>4 DEF AuthorityChanges, HoldDesktop, PutPolicy, ApplyPolicy, LoseConnection, RestTypes
    <2> QED BY Zenon, <1>4, <2>1 DEF AuthorityChanges, RestTypes, tunnelVars
  <1> QED BY Zenon, <1>1, <1>2, <1>3, <1>4 DEF StoreNext

LEMMA TunnelTypes ==
  ASSUME Inv, RestTypes, NEW t \in Tunnels, TunnelNext(t)
  PROVE  RestTypes'
  <1>0. /\ now \in Nat /\ deadline[t] \in Nat /\ closeReqs \subseteq Conns /\ renewAt \in [Tunnels -> Nat]
        /\ call[t].st # "none" => ticket[t] \in Conns
        /\ phase[t] \in {"dialing", "dialed", "relaying"} => ticket[t] \in Conns
    BY Zenon DEF Inv, Types, TunnelHolds, RestTypes
  <1>1. ASSUME UNCHANGED storeVars, closeReqs' \subseteq Conns, renewAt' \in [Tunnels -> Nat] PROVE RestTypes'
    BY Zenon, <1>1 DEF storeVars, RestTypes
  <1>2. ASSUME UNCHANGED <<storeVars, closeReqs, renewAt>> PROVE RestTypes'
    BY Zenon, <1>0, <1>1, <1>2
  <1>3. ASSUME Finish(t), ticket[t] \in Conns, UNCHANGED storeVars PROVE RestTypes'
    BY Zenon, <1>0, <1>1, <1>3, HalfWay DEF Finish
  <1>4. CASE \/ \E g \in Gateways : Admit(t, g)
             \/ \E c \in Conns : Serve(t, c)
             \/ RejectFrame(t) \/ RedemptionFails(t) \/ Dial(t) \/ CloseAnswered(t) \/ Return(t)
    BY Zenon, <1>2, <1>4 DEF Admit, Serve, RejectFrame, RedemptionFails, Dial, CloseAnswered, Return
  <1>5. CASE Redeemed(t)
    BY Zenon, <1>0, <1>2, <1>3, <1>5 DEF Redeemed
  <1>6. CASE Ready(t)
    <2>1. now + (deadline[t] - now) \div 2 \in Nat
      BY Zenon, <1>0, <1>6, HalfWay DEF Ready
    <2> QED BY Zenon, <1>0, <1>1, <1>6, <2>1 DEF Ready
  <1>7. CASE RenewTimer(t)
    BY Zenon, <1>0, <1>1, <1>7, HalfWay DEF RenewTimer
  <1>8. CASE Renewed(t)
    <2>1. GrantEnd(t) \in Nat
      BY DEF Inv, Types, Calls, GrantEnd
    <2>2. now < GrantEnd(t) => now + (GrantEnd(t) - now) \div 2 \in Nat
      BY Zenon, <1>0, <2>1, HalfWay
    <2> QED BY Zenon, <1>0, <1>1, <1>3, <1>8, <2>2 DEF Renewed, Extends
  <1>9. CASE ConnectFails(t) \/ RenewalFails(t) \/ Expire(t) \/ CopyEnds(t) \/ Cancelled(t)
    BY Zenon, <1>0, <1>3, <1>9 DEF ConnectFails, RenewalFails, Expire, CopyEnds, Cancelled
  <1> QED BY Zenon, <1>4, <1>5, <1>6, <1>7, <1>8, <1>9 DEF TunnelNext

\* Rows, tunnels, calls and counters keep their types.
THEOREM TypeCorrect == Spec => []TypeOK
  <1>1. Init => RestTypes
    <2> SUFFICES ASSUME Init PROVE RestTypes
      OBVIOUS
    <2>1. /\ held = FALSE /\ ticketGw = [c \in Conns |-> None] /\ ticketExp = [c \in Conns |-> 0]
          /\ ticketClosed = [c \in Conns |-> FALSE] /\ closeReqs = {}
          /\ renewAt = [t \in Tunnels |-> Unarmed]
      BY Zenon DEF Init
    <2>2. held \in BOOLEAN /\ ticketClosed \in [Conns -> BOOLEAN]
      BY Zenon, <2>1
    <2>3. ticketGw \in [Conns -> Gateways \cup {None}] /\ closeReqs \subseteq Conns
      BY Zenon, <2>1
    <2>4. ticketExp \in [Conns -> Nat] /\ renewAt \in [Tunnels -> Nat]
      BY <2>1, HalfWay
    <2> QED BY Zenon, <2>2, <2>3, <2>4 DEF RestTypes
  <1>2. ASSUME Inv, RestTypes, [Next]_vars PROVE RestTypes'
    <2>1. CASE StoreNext
      BY Zenon, <1>2, <2>1, TicketTypes
    <2>2. ASSUME NEW t \in Tunnels, TunnelNext(t) PROVE RestTypes'
      BY Zenon, <1>2, <2>2, TunnelTypes
    <2>3. ASSUME NEW g \in Gateways, Drain(g) \/ Join(g) \/ Restart(g) PROVE RestTypes'
      BY Zenon, <1>2, <2>3, HalfWay DEF Drain, Join, Restart, storeVars, tunnelVars, RestTypes
    <2>4. CASE Tick
      BY Zenon, <1>2, <2>4 DEF Tick, storeVars, tunnelVars, RestTypes
    <2>5. CASE UNCHANGED vars
      BY Zenon, <1>2, <2>5 DEF vars, storeVars, tunnelVars, RestTypes
    <2> QED BY Zenon, <1>2, <2>1, <2>2, <2>3, <2>4, <2>5 DEF Next, GatewayNext
  <1>3. Inv /\ CountInv /\ RestTypes => TypeOK
    BY Zenon DEF Inv, Types, CountInv, CountTypes, RestTypes, TypeOK
  <1> QED BY <1>1, <1>2, <1>3, LeasesBound, CountersCount, PTL DEF Spec
==============================================================================
