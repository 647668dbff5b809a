--------------------------- MODULE MCDesktopControl ---------------------------
(* DesktopControl on small instances: see the .cfg files. *)
EXTENDS DesktopInvariant, TLC

CONSTANTS u1, u2, c1, c2, a1, a2, l1, l2, w1, w2

\* No formula distinguishes the ids of one kind.
Symmetry ==
    UNION {Permutations(S) : S \in {Users, Conns, Agents, Leases, Workers} \ {{}}}

\* Bound: the desktop is taken twice, by people or by a person and an Agent.
\* Without an Agent a worker finds nothing to do and is left out.
People == {u \in Users : u \in access \cup session \/ bind[u].st # "none" \/ acct[u].rev > 0}
Machines == {a \in Agents : a \in allowed \/ \E l \in Leases : lease[l].agent = a}
TwoTenants ==
    /\ Cardinality(People \cup Machines) <= 2
    /\ Cardinality({c \in Conns : issuedTo[c] # None} \cup Machines) <= 2
    /\ Machines = {} => \A w \in Workers : sync[w].pc = "idle"

\* Commands a fence has overtaken, and receipts the store's version has
\* overtaken, can never be used again: states that differ only in them are
\* explored once.
NativePendingView == [u \in Users |-> {q \in nSent[u] : q.rev >= nFence[u].rev}]
NativeSeenView == [u \in Users |-> {q \in nSeen[u] : q.rev = acct[u].rev}]
AgentPendingView == [a \in Agents |-> {q \in aSent[a] :
    IF q.op = "stop" THEN AgentPlan(aFence[a], q, {})
    ELSE q.epoch > aFence[a].epoch \/ (q.epoch = aFence[a].epoch /\ q.login > aFence[a].login)}]
AgentSeenView == [a \in Agents |-> {q \in aSeen[a] : q.epoch = asess[a].epoch}]
AuthPendingView == {q \in authSent : q.epoch >= auth.epoch}
AuthSeenView == {q \in authSeen : q.epoch \in {sync[w].epoch : w \in Workers} \cup {crEpoch}}

View == <<access, session, expired, nativeDB, nFence, nOS, nBusy, NativePendingView,
          NativeSeenView, idSeen, allowed, leaseExpired, leaseDB, aExists, aFence, aOS, aBusy,
          AgentPendingView, auth, AuthPendingView, AgentSeenView, AuthSeenView, sync>>
==============================================================================
