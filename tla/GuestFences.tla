----------------------------- MODULE GuestFences -----------------------------
(***************************************************************************)
(* The ordering rules a Guest applies before it changes an OS account or   *)
(* its input authority.  They are pure functions of the durable record the *)
(* Guest holds and of the request in hand: the planners of the crate       *)
(* guest-lifecycle and the transition test of the authority publisher.     *)
(*                                                                         *)
(* A deadline is a function of the connection or lease it belongs to, so a *)
(* request's deadline is compared by comparing ids, and "has passed" is    *)
(* membership in a set of expired ids.  An absent record is a record with  *)
(* version 0 and phase "none".                                             *)
(***************************************************************************)
EXTENDS Integers

(***************************************************************************)
(* Native accounts: a human's OS account.  fence = [phase, rev, conn].     *)
(***************************************************************************)
NativeOps == {"issue", "retire", "revoke"}

NativePhases == {"none", "issuing", "issued", "retiring", "retired", "revoked"}

\* Phase::Issued | Phase::Retired within its deadline.
Retained(fence, expired) ==
    /\ fence.phase \in {"issued", "retired"}
    /\ fence.conn \notin expired

\* Variant: an issue is not ordered after a revocation that overtook it.
NativePlanUnordered(fence, req, expired) ==
    /\ req.op # "revoke" => req.conn \notin expired
    /\ \/ req.op = "issue" /\ fence.phase \in {"none", "revoked"}
       \/ /\ req.op = "retire" /\ req.conn = fence.conn
          /\ Retained(fence, expired)
       \/ req.op = "revoke" /\ req.rev >= fence.rev

\* Does the planner accept the request after the fence it finds on disk?
NativePlan(fence, req, expired) ==
    /\ req.op # "revoke" => req.conn \notin expired
    /\ req.rev >= fence.rev
    /\ \/ /\ req.op = "issue"
          /\ req.rev = fence.rev + 1
          /\ req.conn # fence.conn
          /\ \/ fence.phase \in {"none", "revoked"}
             \/ fence.phase = "retired" /\ Retained(fence, expired)
       \/ /\ req.op = "retire"
          /\ req.conn = fence.conn
          /\ Retained(fence, expired)
          /\ \/ fence.phase = "issued" /\ req.rev = fence.rev + 1
             \/ fence.phase = "retired" /\ req.rev = fence.rev
       \/ /\ req.op = "revoke"
          /\ req.rev = fence.rev => req.conn = fence.conn /\ fence.phase = "revoked"

\* An exact repetition of a retirement returns its receipt and writes nothing.
ObserveOnly(fence, req) == req.op = "retire" /\ fence.phase = "retired"

\* The running desktop survives a retirement and an issue that follows one.
PreserveDesktop(fence, req) ==
    \/ req.op = "retire"
    \/ req.op = "issue" /\ fence.phase = "retired"

NativePending(req) ==
    [phase |-> CASE req.op = "issue"  -> "issuing"
                 [] req.op = "retire" -> "retiring"
                 [] OTHER             -> "revoked",
     rev |-> req.rev, conn |-> req.conn]

NativeCompleted(req) ==
    [phase |-> CASE req.op = "issue"  -> "issued"
                 [] req.op = "retire" -> "retired"
                 [] OTHER             -> "revoked",
     rev |-> req.rev, conn |-> req.conn]

\* Fence::revoked: same version, terminal phase.  Both planners share it.
Revoked(fence) == [fence EXCEPT !.phase = "revoked"]

(***************************************************************************)
(* Agent accounts: an Agent's OS account.                                  *)
(* fence = [phase, epoch, login, lease]; versions are ordered by control   *)
(* epoch, then by login generation.  Linux opens and seals in one command, *)
(* so "open" and "sealing" do not occur between commands.                  *)
(***************************************************************************)
AgentOps == {"login", "stop"}

AgentPhases == {"none", "opening", "sealed", "revoked"}

LoginLive(fence, leaseExpired) ==
    /\ fence.phase = "sealed"
    /\ fence.lease \notin leaseExpired

\* Variant: epochs are ordered, login generations within one are not.
AgentPlanByEpoch(fence, req, leaseExpired) ==
    /\ req.op = "login" => req.lease \notin leaseExpired
    /\ req.epoch >= fence.epoch

AgentPlan(fence, req, leaseExpired) ==
    /\ req.op = "login" => req.lease \notin leaseExpired
    /\ req.epoch >= fence.epoch
    /\ req.epoch = fence.epoch =>
          /\ req.lease = fence.lease
          /\ req.login >= fence.login
          /\ req.op = "login" =>
                req.login > fence.login /\ LoginLive(fence, leaseExpired)

AgentPending(req) ==
    [phase |-> IF req.op = "login" THEN "opening" ELSE "revoked",
     epoch |-> req.epoch, login |-> req.login, lease |-> req.lease]

AgentCompleted(req) ==
    [phase |-> IF req.op = "login" THEN "sealed" ELSE "revoked",
     epoch |-> req.epoch, login |-> req.login, lease |-> req.lease]

(***************************************************************************)
(* Input authority: the one snapshot per desktop that Helpers obey.        *)
(* snapshot = [st, epoch, lease, agent, login].                            *)
(***************************************************************************)
AuthorityTransition(old, req) ==
    /\ req.epoch >= old.epoch
    /\ req.epoch = old.epoch /\ req.st = "active" =>
          /\ old.st # "revoked"
          /\ old.lease = req.lease
          /\ old.agent = req.agent

\* The snapshot may only be bound to a sealed login of exactly this lease.
MatchesAuthority(fence, snapshot, leaseExpired) ==
    /\ LoginLive(fence, leaseExpired)
    /\ fence.lease = snapshot.lease
    /\ fence.epoch = snapshot.epoch
==============================================================================
