------------------------------- MODULE Access -------------------------------
(***************************************************************************)
(* Who may use which desktop, and how a change of that reaches the         *)
(* connections and leases already handed out.                              *)
(*                                                                         *)
(* Every transaction that can take access away, and every one that issues  *)
(* a connection or a lease, holds one advisory lock (beginAccessChange), so *)
(* each is a single step. The few writes without the lock are single       *)
(* statements. What remains to interleave is the time between a handler's  *)
(* early access check and the insert that ends its preparation.            *)
(*                                                                         *)
(* The guest bindings the same commits disable are in NativeAccounts, the  *)
(* sessions and codes of an account in SignIn, the clone jobs in Cloning.  *)
(***************************************************************************)
EXTENDS Naturals, FiniteSets

CONSTANTS Users, Agents, LocalGroups, OidcGroups, Desktops, None

ASSUME SubjectsAreDistinct ==
  /\ None \notin Users \cup Agents
  /\ Users \cap Agents = {}
  /\ LocalGroups \cap OidcGroups = {}

Groups == LocalGroups \cup OidcGroups

VARIABLES
  disabled,    \* users whose account is disabled
  agents,      \* agent_principals: "none", "enabled" or "disabled"
  groups,      \* identity_groups: "none", "enabled" or "disabled"
  members,     \* identity_group_memberships
  claims,      \* history: the groups the provider named at the last sign-in
  known, present, quarantined,  \* managed_desktops: rows, and two of their flags
  mode, owner, \* managed_desktops: access_mode and owner_user_id
  clone,       \* the clone job targeting the desktop, if any: "unsettled", "succeeded",
               \* or "reset" after it had succeeded
  userGrants, groupGrants, agentGrants,  \* the three assignment tables
  preparing,   \* the subject whose handler holds the desktop lock, or None
  conn, holder,  \* desktop_connection_sessions: at most one open per desktop, and its user
  lease        \* the agent holding the active lease of the desktop, or None

vars == <<disabled, agents, groups, members, claims, known, present, quarantined, mode, owner,
          clone, userGrants, groupGrants, agentGrants, preparing, conn, holder, lease>>

people == <<disabled, groups, members, claims>>
inventoried == <<known, present, quarantined>>
ownership == <<mode, owner>>
desktops == <<inventoried, ownership>>
grants == <<userGrants, groupGrants, agentGrants>>
connections == <<conn, holder>>
issued == <<connections, lease>>

Init ==
  /\ disabled = {} /\ members = {}
  /\ agents = [a \in Agents |-> "none"]
  /\ groups = [g \in Groups |-> "none"]
  /\ claims = [u \in Users |-> {}]
  /\ known = {} /\ present = {} /\ quarantined = {}
  /\ mode = [d \in Desktops |-> "personal"]
  /\ owner = [d \in Desktops |-> None]
  /\ clone = [d \in Desktops |-> "none"]
  /\ userGrants = {} /\ groupGrants = {} /\ agentGrants = {}
  /\ preparing = [d \in Desktops |-> None]
  /\ conn = [d \in Desktops |-> "none"]
  /\ holder = [d \in Desktops |-> None]
  /\ lease = [d \in Desktops |-> None]

-----------------------------------------------------------------------------
(* Effective access                                                        *)

Listed(d) == d \in (known \cap present) \ quarantined

\* desktop_clone_ready: a clone is closed until its job has succeeded.
Fenced(d) == clone[d] \in {"unsettled", "reset"}

GrantedByGroup(u, d) ==
  \E g \in Groups : <<g, d>> \in groupGrants /\ groups[g] = "enabled" /\ <<g, u>> \in members

UserGranted(u, d) ==
  /\ u \in Users \ disabled /\ Listed(d)
  /\ \/ mode[d] = "personal" /\ owner[d] = u
     \/ mode[d] = "shared" /\ (<<u, d>> \in userGrants \/ GrantedByGroup(u, d))

AgentGranted(a, d) ==
  a \in Agents /\ Listed(d) /\ <<a, d>> \in agentGrants /\ agents[a] = "enabled"

UserCanAccessDesktop(u, d) == UserGranted(u, d) /\ ~Fenced(d)
AgentCanAccessDesktop(a, d) == AgentGranted(a, d) /\ ~Fenced(d)

\* The view effective_user_desktop_access, and its counterpart for agents.
UserAccess == {p \in Users \X Desktops : UserCanAccessDesktop(p[1], p[2])}
AgentAccess == {p \in Agents \X Desktops : AgentCanAccessDesktop(p[1], p[2])}

\* Every open connection and lease that lost its last grant goes with the
\* change that took it.
CommitAccessChange ==
  /\ conn' = [d \in Desktops |->
       IF conn[d] = "active" /\ <<holder[d], d>> \notin UserAccess' THEN "revoking" ELSE conn[d]]
  /\ UNCHANGED holder
  /\ lease' = [d \in Desktops |-> IF <<lease[d], d>> \in AgentAccess' THEN lease[d] ELSE None]

-----------------------------------------------------------------------------
(* Accounts and agents                                                     *)

SetUserDisabled(u, off) ==
  /\ disabled' = IF off THEN disabled \cup {u} ELSE disabled \ {u}
  /\ UNCHANGED <<agents, groups, members, claims, desktops, clone, grants, preparing>>
  /\ CommitAccessChange

\* createAgentPrincipal; an id that exists is refused.
CreateAgentPrincipal(a) ==
  /\ agents[a] = "none"
  /\ agents' = [agents EXCEPT ![a] = "enabled"]
  /\ UNCHANGED <<people, desktops, clone, grants, preparing, issued>>

\* Disabling revokes the agent's own leases; there is no sweep.
SetAgentEnabled(a, on) ==
  /\ agents[a] # "none"
  /\ agents' = [agents EXCEPT ![a] = IF on THEN "enabled" ELSE "disabled"]
  /\ lease' = [d \in Desktops |-> IF lease[d] = a /\ ~on THEN None ELSE lease[d]]
  /\ UNCHANGED <<people, desktops, clone, grants, preparing, connections>>

-----------------------------------------------------------------------------
(* Groups                                                                  *)

\* An id that exists is refused.
PutIdentityGroup(g, on) ==
  /\ groups[g] = "none"
  /\ groups' = [groups EXCEPT ![g] = IF on THEN "enabled" ELSE "disabled"]

\* createIdentityGroup accepts the sources local and scim only.
CreateIdentityGroup(g, on) ==
  /\ g \in LocalGroups
  /\ PutIdentityGroup(g, on)
  /\ UNCHANGED <<disabled, agents, members, claims, desktops, clone, grants, preparing, issued>>

SetIdentityGroupEnabled(g, on) ==
  /\ groups[g] # "none"
  /\ groups' = [groups EXCEPT ![g] = IF on THEN "enabled" ELSE "disabled"]
  /\ UNCHANGED <<disabled, agents, members, claims, desktops, clone, grants, preparing>>
  /\ CommitAccessChange

\* Without the access lock. The provider's groups are not edited by hand.
PutIdentityGroupMembership(g, u) ==
  /\ g \in LocalGroups /\ groups[g] # "none"
  /\ members' = members \cup {<<g, u>>}
  /\ UNCHANGED <<disabled, agents, groups, claims, desktops, clone, grants, preparing, issued>>

DeleteIdentityGroupMembership(g, u) ==
  /\ g \in LocalGroups
  /\ members' = members \ {<<g, u>>}
  /\ UNCHANGED <<disabled, agents, groups, claims, desktops, clone, grants, preparing>>
  /\ CommitAccessChange

\* A group seen for the first time is created; an existing one keeps its state.
UpsertedGroups(named) ==
  [g \in Groups |-> IF g \in named /\ groups[g] = "none" THEN "enabled" ELSE groups[g]]

\* (mutant) memberships the provider no longer names are kept
AddedMembers(u, named) == members \cup {<<g, u>> : g \in named}

MirroredMembers(u, named) ==
  {m \in members : m[2] # u \/ m[1] \notin OidcGroups} \cup {<<g, u>> : g \in named}

SyncOIDCGroupMemberships(u, named) ==
  /\ groups' = UpsertedGroups(named)
  /\ members' = MirroredMembers(u, named)
  /\ claims' = [claims EXCEPT ![u] = named]
  /\ UNCHANGED <<disabled, agents, desktops, clone, grants, preparing>>
  /\ CommitAccessChange

-----------------------------------------------------------------------------
(* Desktops                                                                *)

ReconcileManagedDesktops(inventory) ==
  /\ known' = known \cup inventory
  /\ present' = inventory
  /\ UNCHANGED <<quarantined, ownership>>
  /\ UNCHANGED <<people, agents, clone, grants, preparing>>
  /\ CommitAccessChange

\* A clone may only target an identifier nothing has used.
FreeTarget(d) == d \notin known /\ clone[d] = "none"

ReserveDesktopCloneJob(d) ==
  /\ FreeTarget(d)
  /\ clone' = [clone EXCEPT ![d] = "unsettled"]
  /\ UNCHANGED <<people, agents, desktops, grants, preparing, issued>>

\* A configured clone is registered, without the access lock...
UpsertManagedDesktop(d) ==
  /\ clone[d] # "none"
  /\ known' = known \cup {d}
  /\ present' = present \cup {d}
  /\ UNCHANGED <<people, agents, quarantined, ownership, clone, grants, preparing, issued>>

\* ... and released when its job succeeds.
CompleteJobTask(d) ==
  /\ Fenced(d) /\ d \in known
  /\ clone' = [clone EXCEPT ![d] = "succeeded"]
  /\ UNCHANGED <<people, agents, desktops, grants, preparing, issued>>

\* createDesktopInstance's clone call fails late: the job goes back to
\* accepted whatever became of it, in one statement without the access lock.
\* (Once for each job in the code, any number of times here.)
UpdateJobTask(d) ==
  /\ clone[d] = "succeeded"
  /\ clone' = [clone EXCEPT ![d] = "reset"]
  /\ UNCHANGED <<people, agents, desktops, grants, preparing, issued>>

\* A clone that could not be configured is kept, disabled.
QuarantineClonedDesktop(d) ==
  /\ Fenced(d)
  /\ known' = known \cup {d}
  /\ present' = IF d \in known THEN present ELSE present \cup {d}
  /\ quarantined' = quarantined \cup {d}
  /\ UNCHANGED ownership
  /\ UNCHANGED <<people, agents, clone, grants, preparing>>
  /\ CommitAccessChange

\* (mutant) the assignments of a desktop survive its becoming personal
KeptGrants(table, d) == table

\* A personal desktop has its owner and no other grant to a person.
DroppedGrants(table, d) == {p \in table : p[2] # d}

UpdateManagedDesktopIdentity(d, newMode, newOwner) ==
  /\ d \in known
  /\ newMode = "personal" <=> newOwner # None
  /\ mode' = [mode EXCEPT ![d] = newMode]
  /\ owner' = [owner EXCEPT ![d] = newOwner]
  /\ userGrants' = IF newMode = "personal" THEN DroppedGrants(userGrants, d) ELSE userGrants
  /\ groupGrants' = IF newMode = "personal" THEN DroppedGrants(groupGrants, d) ELSE groupGrants
  /\ UNCHANGED <<people, agents, inventoried, clone, agentGrants, preparing>>
  /\ CommitAccessChange

-----------------------------------------------------------------------------
(* Assignments                                                             *)

\* A personal desktop takes its first user as owner and refuses another.
PutUserAssignment(u, d) ==
  /\ IF mode[d] = "personal"
     THEN /\ owner[d] \in {None, u}
          /\ owner' = [owner EXCEPT ![d] = u]
          /\ UNCHANGED userGrants
     ELSE userGrants' = userGrants \cup {<<u, d>>} /\ UNCHANGED owner
  /\ UNCHANGED <<groupGrants, agentGrants>>

PutGroupAssignment(g, d) ==
  /\ groups[g] # "none" /\ mode[d] = "shared"
  /\ groupGrants' = groupGrants \cup {<<g, d>>}
  /\ UNCHANGED <<owner, userGrants, agentGrants>>

PutAgentAssignment(a, d) ==
  /\ agents[a] # "none"
  /\ agentGrants' = agentGrants \cup {<<a, d>>}
  /\ UNCHANGED <<owner, userGrants, groupGrants>>

PutDesktopAssignment(d) ==
  /\ d \in known
  /\ \/ \E u \in Users : PutUserAssignment(u, d)
     \/ \E g \in Groups : PutGroupAssignment(g, d)
     \/ \E a \in Agents : PutAgentAssignment(a, d)

DeleteUserAssignment(u, d) ==
  /\ d \in known
  /\ IF mode[d] = "personal"
     THEN /\ owner' = [owner EXCEPT ![d] = IF owner[d] = u THEN None ELSE owner[d]]
          /\ UNCHANGED userGrants
     ELSE userGrants' = userGrants \ {<<u, d>>} /\ UNCHANGED owner
  /\ UNCHANGED <<groupGrants, agentGrants>>

DeleteDesktopAssignment(d) ==
  \/ \E u \in Users : DeleteUserAssignment(u, d)
  \/ \E g \in Groups : /\ groupGrants' = groupGrants \ {<<g, d>>}
                       /\ UNCHANGED <<owner, userGrants, agentGrants>>
  \/ \E a \in Agents : /\ agentGrants' = agentGrants \ {<<a, d>>}
                       /\ UNCHANGED <<owner, userGrants, groupGrants>>

ChangeDesktopAssignment(d) ==
  /\ PutDesktopAssignment(d) \/ DeleteDesktopAssignment(d)
  /\ UNCHANGED <<people, agents, inventoried, mode, clone, preparing>>
  /\ CommitAccessChange

-----------------------------------------------------------------------------
(* Issuing a connection or a lease                                         *)

Prepare(s, d) ==
  /\ preparing[d] = None
  /\ preparing' = [preparing EXCEPT ![d] = s]
  /\ UNCHANGED <<people, agents, desktops, clone, grants, issued>>

\* The handler takes the desktop lock and checks access, then works on the
\* guest for minutes.
CreateNativeDesktopConnection(u, d) == UserCanAccessDesktop(u, d) /\ Prepare(u, d)

\* The handler checks access and waits for the desktop lock; one that has to
\* wait longer checks no later.
CreateAgentDesktopLease(a, d) == AgentCanAccessDesktop(a, d) /\ Prepare(a, d)

\* The handler fails, or its process does.
AbandonPreparation(d) ==
  /\ preparing[d] # None
  /\ preparing' = [preparing EXCEPT ![d] = None]
  /\ UNCHANGED <<people, agents, desktops, clone, grants, issued>>

\* (mutant) the check made before the preparation is trusted
InsertPrepared(d) ==
  /\ preparing[d] \in Users /\ conn[d] = "none"
  /\ conn' = [conn EXCEPT ![d] = "active"]
  /\ holder' = [holder EXCEPT ![d] = preparing[d]]
  /\ preparing' = [preparing EXCEPT ![d] = None]
  /\ UNCHANGED <<people, agents, desktops, clone, grants, lease>>

InsertDesktopConnectionSession(d) ==
  /\ preparing[d] \in Users /\ conn[d] = "none"
  /\ UserCanAccessDesktop(preparing[d], d)
  /\ conn' = [conn EXCEPT ![d] = "active"]
  /\ holder' = [holder EXCEPT ![d] = preparing[d]]
  /\ preparing' = [preparing EXCEPT ![d] = None]
  /\ UNCHANGED <<people, agents, desktops, clone, grants, lease>>

CreateDesktopLease(d) ==
  /\ preparing[d] \in Agents /\ lease[d] = None
  /\ AgentCanAccessDesktop(preparing[d], d)
  /\ conn[d] = "none"
  /\ lease' = [lease EXCEPT ![d] = preparing[d]]
  /\ preparing' = [preparing EXCEPT ![d] = None]
  /\ UNCHANGED <<people, agents, desktops, clone, grants, connections>>

\* Disconnect, sign-out, a password change, take-over, or expiry.
BeginRevokeDesktopConnections(d) ==
  /\ conn[d] = "active"
  /\ conn' = [conn EXCEPT ![d] = "revoking"]
  /\ UNCHANGED <<people, agents, desktops, clone, grants, preparing, holder, lease>>

\* The credential is gone from the guest.
CompleteDesktopConnectionRevocation(d) ==
  /\ conn[d] = "revoking"
  /\ conn' = [conn EXCEPT ![d] = "none"]
  /\ holder' = [holder EXCEPT ![d] = None]
  /\ UNCHANGED <<people, agents, desktops, clone, grants, preparing, lease>>

\* Released, expired, or revoked for a person.
EndLease(d) ==
  /\ lease[d] # None
  /\ lease' = [lease EXCEPT ![d] = None]
  /\ UNCHANGED <<people, agents, desktops, clone, grants, preparing, connections>>

-----------------------------------------------------------------------------
Administration ==
  \/ \E u \in Users, off \in BOOLEAN : SetUserDisabled(u, off)
  \/ \E a \in Agents : CreateAgentPrincipal(a) \/ \E on \in BOOLEAN : SetAgentEnabled(a, on)
  \/ \E g \in Groups :
       \/ \E on \in BOOLEAN : CreateIdentityGroup(g, on) \/ SetIdentityGroupEnabled(g, on)
       \/ \E u \in Users : PutIdentityGroupMembership(g, u) \/ DeleteIdentityGroupMembership(g, u)
  \/ \E d \in Desktops :
       \/ ChangeDesktopAssignment(d)
       \/ \E m \in {"personal", "shared"}, o \in Users \cup {None} :
            UpdateManagedDesktopIdentity(d, m, o)

Discovery ==
  \/ \E inventory \in SUBSET Desktops : ReconcileManagedDesktops(inventory)
  \/ \E d \in Desktops : \/ ReserveDesktopCloneJob(d) \/ UpsertManagedDesktop(d)
                         \/ CompleteJobTask(d) \/ UpdateJobTask(d) \/ QuarantineClonedDesktop(d)

Issuing ==
  \E d \in Desktops :
    \/ \E u \in Users : CreateNativeDesktopConnection(u, d)
    \/ \E a \in Agents : CreateAgentDesktopLease(a, d)
    \/ AbandonPreparation(d) \/ InsertDesktopConnectionSession(d) \/ CreateDesktopLease(d)
    \/ BeginRevokeDesktopConnections(d) \/ CompleteDesktopConnectionRevocation(d) \/ EndLease(d)

SignIns == \E u \in Users, named \in SUBSET OidcGroups : SyncOIDCGroupMemberships(u, named)

Next == Administration \/ Discovery \/ Issuing \/ SignIns

Spec == Init /\ [][Next]_vars

-----------------------------------------------------------------------------
\* Every variable holds rows of its table; a connection has its user, and a
\* preparation or a lease its subject.
TypeOK ==
  /\ disabled \subseteq Users
  /\ agents \in [Agents -> {"none", "enabled", "disabled"}]
  /\ groups \in [Groups -> {"none", "enabled", "disabled"}]
  /\ members \subseteq Groups \X Users
  /\ claims \in [Users -> SUBSET OidcGroups]
  /\ known \subseteq Desktops /\ present \subseteq Desktops /\ quarantined \subseteq Desktops
  /\ mode \in [Desktops -> {"personal", "shared"}]
  /\ owner \in [Desktops -> Users \cup {None}]
  /\ clone \in [Desktops -> {"none", "unsettled", "succeeded", "reset"}]
  /\ userGrants \subseteq Users \X Desktops
  /\ groupGrants \subseteq Groups \X Desktops
  /\ agentGrants \subseteq Agents \X Desktops
  /\ preparing \in [Desktops -> Users \cup Agents \cup {None}]
  /\ conn \in [Desktops -> {"none", "active", "revoking"}]
  /\ holder \in [Desktops -> Users \cup {None}]
  /\ lease \in [Desktops -> Agents \cup {None}]

\* The holder of an active connection or lease has every grant it needs now:
\* whichever change takes the last one away (a disabled account, group or
\* agent, a membership, an assignment, a new owner, a desktop that left the
\* inventory or was quarantined) the same commit withdraws it, and a
\* preparation that a change overtook issues nothing (commitAccessChange,
\* insertDesktopConnectionSession, CreateDesktopLease). Nobody holds a clone
\* that has never succeeded either; one whose job was set back after it had
\* is closed to newcomers only, until the next such commit (UpdateJobTask).
ActiveIsEntitled ==
  \A d \in Desktops :
    /\ conn[d] = "active" => UserGranted(holder[d], d)
    /\ lease[d] # None => AgentGranted(lease[d], d)
    /\ conn[d] = "active" \/ lease[d] # None => clone[d] # "unsettled"

\* The owner of a personal desktop is its only person: no assignment made
\* while it was shared is waiting to come back, and a shared desktop has no
\* owner left over (UpdateManagedDesktopIdentity, PutDesktopAssignment).
PersonalIsExclusive ==
  \A d \in Desktops :
    IF mode[d] = "personal"
    THEN /\ \A u \in Users : <<u, d>> \notin userGrants
         /\ \A g \in Groups : <<g, d>> \notin groupGrants
    ELSE owner[d] = None

\* A user's memberships in the provider's groups are those of their last
\* sign-in, whatever administrators did meanwhile (SyncOIDCGroupMemberships,
\* PutIdentityGroupMembership, DeleteIdentityGroupMembership).
MembershipsMirrorClaims ==
  \A u \in Users, g \in OidcGroups : <<g, u>> \in members <=> g \in claims[u]

\* Only an administrator's update opens a group that was disabled; a sign-in
\* that names it does not (SyncOIDCGroupMemberships).
DisabledGroupStays ==
  [][\A g \in Groups : groups[g] = "disabled" /\ groups'[g] = "enabled"
                         => SetIdentityGroupEnabled(g, TRUE)]_vars
=============================================================================
