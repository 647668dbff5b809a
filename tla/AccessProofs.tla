---------------------------- MODULE AccessProofs ----------------------------
(***************************************************************************)
(* What holds of Access for any number of users, agents, groups and        *)
(* desktops.                                                               *)
(***************************************************************************)
EXTENDS Access, TLAPS

\* A commit leaves connections and leases of the type they had.
LEMMA CommitTyped ==
  ASSUME TypeOK, CommitAccessChange
  PROVE  /\ conn' \in [Desktops -> {"none", "active", "revoking"}]
         /\ holder' \in [Desktops -> Users \cup {None}]
         /\ lease' \in [Desktops -> Agents \cup {None}]
BY Zenon DEF TypeOK, CommitAccessChange

\* A commit leaves only connections and leases whose holders may use the
\* desktop after it, whatever the rest of the transaction did.
LEMMA CommitSweeps ==
  ASSUME TypeOK, CommitAccessChange, NEW d \in Desktops
  PROVE  /\ conn'[d] = "active" => UserCanAccessDesktop(holder[d], d)'
         /\ lease'[d] # None => AgentCanAccessDesktop(lease[d], d)'
<1>1. ASSUME conn'[d] = "active" PROVE UserCanAccessDesktop(holder[d], d)'
  <2>1. holder'[d] = holder[d] /\ <<holder[d], d>> \in UserAccess'
    BY Zenon, <1>1 DEF CommitAccessChange, TypeOK
  <2> QED BY Zenon, <2>1 DEF UserAccess
<1>2. ASSUME lease'[d] # None PROVE AgentCanAccessDesktop(lease[d], d)'
  <2>1. lease'[d] = lease[d] /\ <<lease[d], d>> \in AgentAccess'
    BY Zenon, <1>2 DEF CommitAccessChange
  <2> QED BY Zenon, <2>1 DEF AgentAccess
<1> QED BY Zenon, <1>1, <1>2

\* Whoever may use a desktop now is entitled to it.
LEMMA CommitEntitles ==
  ASSUME TypeOK, CommitAccessChange
  PROVE  ActiveIsEntitled'
<1> SUFFICES ASSUME NEW d \in Desktops
             PROVE  /\ conn'[d] = "active" => UserGranted(holder[d], d)'
                    /\ lease'[d] # None => AgentGranted(lease[d], d)'
                    /\ conn'[d] = "active" \/ lease'[d] # None => clone'[d] # "unsettled"
    BY Zenon DEF ActiveIsEntitled
<1>1. conn'[d] = "active" => UserGranted(holder[d], d)' /\ ~Fenced(d)'
  BY Zenon, CommitSweeps DEF UserCanAccessDesktop
<1>2. lease'[d] # None => AgentGranted(lease[d], d)' /\ ~Fenced(d)'
  BY Zenon, CommitSweeps DEF AgentCanAccessDesktop
<1> QED BY Zenon, <1>1, <1>2 DEF Fenced

-----------------------------------------------------------------------------
(* Type correctness, one lemma per part of Next                             *)

\* Every administrative step keeps every row in its table.
LEMMA AdministrationTyped ==
  ASSUME TypeOK, Administration
  PROVE  TypeOK'
<1> USE DEF people, desktops, inventoried, ownership, grants, connections, issued
<1>1. ASSUME NEW u \in Users, NEW off \in BOOLEAN, SetUserDisabled(u, off)
      PROVE  TypeOK'
  BY ZenonT(40), <1>1, CommitTyped DEF TypeOK, SetUserDisabled
<1>2. ASSUME NEW a \in Agents, CreateAgentPrincipal(a)
      PROVE  TypeOK'
  BY Zenon, <1>2 DEF TypeOK, CreateAgentPrincipal
<1>3. ASSUME NEW a \in Agents, NEW on \in BOOLEAN, SetAgentEnabled(a, on)
      PROVE  TypeOK'
  BY Zenon, <1>3 DEF TypeOK, SetAgentEnabled
<1>4. ASSUME NEW g \in Groups, NEW on \in BOOLEAN, CreateIdentityGroup(g, on)
      PROVE  TypeOK'
  BY Zenon, <1>4 DEF TypeOK, CreateIdentityGroup, PutIdentityGroup
<1>5. ASSUME NEW g \in Groups, NEW on \in BOOLEAN, SetIdentityGroupEnabled(g, on)
      PROVE  TypeOK'
  BY ZenonT(40), <1>5, CommitTyped DEF TypeOK, SetIdentityGroupEnabled
<1>6. ASSUME NEW g \in Groups, NEW u \in Users, PutIdentityGroupMembership(g, u)
      PROVE  TypeOK'
  BY <1>6 DEF TypeOK, PutIdentityGroupMembership
<1>7. ASSUME NEW g \in Groups, NEW u \in Users, DeleteIdentityGroupMembership(g, u)
      PROVE  TypeOK'
  BY ZenonT(40), <1>7, CommitTyped DEF TypeOK, DeleteIdentityGroupMembership
<1>8. ASSUME NEW d \in Desktops, ChangeDesktopAssignment(d)
      PROVE  TypeOK'
  <2>1. ASSUME NEW u \in Users, PutUserAssignment(u, d)
        PROVE  TypeOK'
    BY <1>8, <2>1, CommitTyped DEF TypeOK, ChangeDesktopAssignment, PutUserAssignment
  <2>2. ASSUME NEW g \in Groups, PutGroupAssignment(g, d)
        PROVE  TypeOK'
    BY <1>8, <2>2, CommitTyped DEF TypeOK, ChangeDesktopAssignment, PutGroupAssignment
  <2>3. ASSUME NEW a \in Agents, PutAgentAssignment(a, d)
        PROVE  TypeOK'
    BY <1>8, <2>3, CommitTyped DEF TypeOK, ChangeDesktopAssignment, PutAgentAssignment
  <2>4. ASSUME NEW u \in Users, DeleteUserAssignment(u, d)
        PROVE  TypeOK'
    BY <1>8, <2>4, CommitTyped DEF TypeOK, ChangeDesktopAssignment, DeleteUserAssignment
  <2>5. ASSUME NEW g \in Groups, groupGrants' = groupGrants \ {<<g, d>>},
               UNCHANGED <<owner, userGrants, agentGrants>>
        PROVE  TypeOK'
    BY Zenon, <1>8, <2>5, CommitTyped DEF TypeOK, ChangeDesktopAssignment
  <2>6. ASSUME NEW a \in Agents, agentGrants' = agentGrants \ {<<a, d>>},
               UNCHANGED <<owner, userGrants, groupGrants>>
        PROVE  TypeOK'
    BY Zenon, <1>8, <2>6, CommitTyped DEF TypeOK, ChangeDesktopAssignment
  <2> QED BY Zenon, <1>8, <2>1, <2>2, <2>3, <2>4, <2>5, <2>6
          DEF ChangeDesktopAssignment, PutDesktopAssignment, DeleteDesktopAssignment
<1>9. ASSUME NEW d \in Desktops, NEW m \in {"personal", "shared"}, NEW o \in Users \cup {None},
             UpdateManagedDesktopIdentity(d, m, o)
      PROVE  TypeOK'
  BY ZenonT(40), <1>9, CommitTyped DEF TypeOK, UpdateManagedDesktopIdentity, DroppedGrants
<1> QED BY Zenon, <1>1, <1>2, <1>3, <1>4, <1>5, <1>6, <1>7, <1>8, <1>9 DEF Administration

\* So does a step of discovery, cloning, issuing or revoking, and a sign-in.
LEMMA OperationTyped ==
  ASSUME TypeOK, Discovery \/ Issuing \/ SignIns
  PROVE  TypeOK'
<1> USE DEF people, desktops, inventoried, ownership, grants, connections, issued
<1>1. ASSUME NEW inventory \in SUBSET Desktops, ReconcileManagedDesktops(inventory)
      PROVE  TypeOK'
  BY ZenonT(40), <1>1, CommitTyped DEF TypeOK, ReconcileManagedDesktops
<1>2. ASSUME NEW d \in Desktops, ReserveDesktopCloneJob(d) \/ CompleteJobTask(d) \/ UpdateJobTask(d)
      PROVE  TypeOK'
  BY <1>2 DEF TypeOK, ReserveDesktopCloneJob, CompleteJobTask, UpdateJobTask
<1>3. ASSUME NEW d \in Desktops, UpsertManagedDesktop(d)
      PROVE  TypeOK'
  BY Zenon, <1>3 DEF TypeOK, UpsertManagedDesktop
<1>4. ASSUME NEW d \in Desktops, QuarantineClonedDesktop(d)
      PROVE  TypeOK'
  BY ZenonT(40), <1>4, CommitTyped DEF TypeOK, QuarantineClonedDesktop
<1>5. ASSUME NEW d \in Desktops, NEW u \in Users, CreateNativeDesktopConnection(u, d)
      PROVE  TypeOK'
  BY Zenon, <1>5 DEF TypeOK, CreateNativeDesktopConnection, Prepare
<1>5a. ASSUME NEW d \in Desktops, NEW a \in Agents, CreateAgentDesktopLease(a, d)
      PROVE  TypeOK'
  BY Zenon, <1>5a DEF TypeOK, CreateAgentDesktopLease, Prepare
<1>6. ASSUME NEW d \in Desktops, AbandonPreparation(d)
      PROVE  TypeOK'
  BY Zenon, <1>6 DEF TypeOK, AbandonPreparation
<1>7. ASSUME NEW d \in Desktops, InsertDesktopConnectionSession(d)
      PROVE  TypeOK'
  BY Zenon, <1>7 DEF TypeOK, InsertDesktopConnectionSession
<1>8. ASSUME NEW d \in Desktops, CreateDesktopLease(d)
      PROVE  TypeOK'
  BY Zenon, <1>8 DEF TypeOK, CreateDesktopLease
<1>9. ASSUME NEW d \in Desktops,
             \/ BeginRevokeDesktopConnections(d)
             \/ CompleteDesktopConnectionRevocation(d)
             \/ EndLease(d)
      PROVE  TypeOK'
  BY <1>9 DEF TypeOK, BeginRevokeDesktopConnections, CompleteDesktopConnectionRevocation, EndLease
<1>10. ASSUME NEW u \in Users, NEW named \in SUBSET OidcGroups, SyncOIDCGroupMemberships(u, named)
       PROVE  TypeOK'
  BY <1>10, CommitTyped DEF TypeOK, SyncOIDCGroupMemberships, UpsertedGroups, MirroredMembers, Groups
<1> QED BY Zenon, <1>1, <1>2, <1>3, <1>4, <1>5, <1>5a, <1>6, <1>7, <1>8, <1>9, <1>10
        DEF Discovery, Issuing, SignIns

\* Every variable keeps its type.
THEOREM TypeCorrect == Spec => []TypeOK
<1>1. Init => TypeOK
  BY DEF Init, TypeOK
<1>2. TypeOK /\ [Next]_vars => TypeOK'
  <2>1. ASSUME TypeOK, UNCHANGED vars PROVE TypeOK'
    BY Zenon, <2>1 DEF TypeOK, vars
  <2> QED BY Zenon, <2>1, AdministrationTyped, OperationTyped DEF Next
<1> QED BY <1>1, <1>2, PTL DEF Spec

-----------------------------------------------------------------------------
(* Entitlement. The steps that end in a commit need nothing but the sweep;  *)
(* the others only add grants, or only issue what is entitled.              *)

Sweeping ==
  \/ \E u \in Users, off \in BOOLEAN : SetUserDisabled(u, off)
  \/ \E g \in Groups : \/ \E on \in BOOLEAN : SetIdentityGroupEnabled(g, on)
                       \/ \E u \in Users : DeleteIdentityGroupMembership(g, u)
  \/ \E d \in Desktops :
       \/ ChangeDesktopAssignment(d) \/ QuarantineClonedDesktop(d)
       \/ \E m \in {"personal", "shared"}, o \in Users \cup {None} :
            UpdateManagedDesktopIdentity(d, m, o)
  \/ \E inventory \in SUBSET Desktops : ReconcileManagedDesktops(inventory)
  \/ SignIns

\* The steps of Next are the sweeping ones and some that only grant or issue.
LEMMA StepsOfNext ==
  ASSUME Next
  PROVE  \/ Sweeping
         \/ \E a \in Agents : \/ CreateAgentPrincipal(a)
                              \/ \E on \in BOOLEAN : SetAgentEnabled(a, on)
         \/ \E g \in Groups : \/ \E on \in BOOLEAN : CreateIdentityGroup(g, on)
                              \/ \E u \in Users : PutIdentityGroupMembership(g, u)
         \/ \E d \in Desktops : \/ ReserveDesktopCloneJob(d) \/ UpsertManagedDesktop(d)
                                \/ CompleteJobTask(d) \/ UpdateJobTask(d)
         \/ Issuing
BY Zenon DEF Next, Administration, Discovery, Sweeping

\* Grants made before a step that takes none away are there after it.
LEMMA EntitlementKept ==
  ASSUME ActiveIsEntitled, UNCHANGED <<conn, holder, lease>>,
         \A u \in Users, d \in Desktops : UserGranted(u, d) => UserGranted(u, d)',
         \A a \in Agents, d \in Desktops : AgentGranted(a, d) => AgentGranted(a, d)',
         \A d \in Desktops : clone'[d] = "unsettled" => clone[d] = "unsettled"
  PROVE  ActiveIsEntitled'
<1> SUFFICES ASSUME NEW d \in Desktops
             PROVE  /\ conn[d] = "active" => UserGranted(holder[d], d)'
                    /\ lease[d] # None => AgentGranted(lease[d], d)'
                    /\ conn[d] = "active" \/ lease[d] # None => clone'[d] # "unsettled"
  BY Zenon DEF ActiveIsEntitled
<1>1. conn[d] = "active" => holder[d] \in Users /\ UserGranted(holder[d], d)
  BY Zenon DEF ActiveIsEntitled, UserGranted
<1>2. lease[d] # None => lease[d] \in Agents /\ AgentGranted(lease[d], d)
  BY Zenon DEF ActiveIsEntitled, AgentGranted
<1>3. conn[d] = "active" \/ lease[d] # None => clone[d] # "unsettled"
  BY Zenon DEF ActiveIsEntitled
<1> QED BY Zenon, <1>1, <1>2, <1>3

\* One step keeps every active connection and lease entitled.
LEMMA EntitlementStep ==
  ASSUME TypeOK, ActiveIsEntitled, [Next]_vars
  PROVE  ActiveIsEntitled'
<1> USE DEF people, desktops, inventoried, ownership, grants, connections, issued
<1>1. CASE Sweeping
  <2>1. CommitAccessChange
    BY Zenon, <1>1 DEF Sweeping, SetUserDisabled, SetIdentityGroupEnabled,
       DeleteIdentityGroupMembership, ChangeDesktopAssignment, QuarantineClonedDesktop,
       UpdateManagedDesktopIdentity, ReconcileManagedDesktops, SignIns, SyncOIDCGroupMemberships
  <2> QED BY Zenon, <2>1, CommitEntitles
<1>2. ASSUME NEW a \in Agents, CreateAgentPrincipal(a)
      PROVE  ActiveIsEntitled'
  BY ZenonT(40), <1>2, EntitlementKept DEF TypeOK, CreateAgentPrincipal, UserGranted,
     AgentGranted, GrantedByGroup, Listed
<1>3. ASSUME NEW a \in Agents, NEW on \in BOOLEAN, SetAgentEnabled(a, on)
      PROVE  ActiveIsEntitled'
  BY ZenonT(40), <1>3 DEF TypeOK, ActiveIsEntitled, SetAgentEnabled, UserGranted,
     AgentGranted, GrantedByGroup, Listed
<1>4. ASSUME NEW g \in Groups, NEW on \in BOOLEAN, CreateIdentityGroup(g, on)
      PROVE  ActiveIsEntitled'
  BY ZenonT(40), <1>4, EntitlementKept DEF TypeOK, CreateIdentityGroup, PutIdentityGroup, UserGranted,
     AgentGranted, GrantedByGroup, Listed
<1>5. ASSUME NEW g \in Groups, NEW u \in Users, PutIdentityGroupMembership(g, u)
      PROVE  ActiveIsEntitled'
  BY ZenonT(40), <1>5, EntitlementKept DEF TypeOK, PutIdentityGroupMembership, UserGranted,
     AgentGranted, GrantedByGroup, Listed
<1>6. ASSUME NEW d \in Desktops, ReserveDesktopCloneJob(d)
      PROVE  ActiveIsEntitled'
  <2>1. /\ \A u, c : UserGranted(u, c)' <=> UserGranted(u, c)
        /\ \A a, c : AgentGranted(a, c)' <=> AgentGranted(a, c)
    BY ZenonT(40), <1>6 DEF ReserveDesktopCloneJob, UserGranted, AgentGranted, GrantedByGroup, Listed
  <2>2. conn[d] # "active" /\ lease[d] = None
    BY Zenon, <1>6 DEF ReserveDesktopCloneJob, FreeTarget, ActiveIsEntitled, UserGranted, AgentGranted, Listed
  <2>3. /\ UNCHANGED <<conn, holder, lease>>
        /\ \A c \in Desktops : c # d => clone'[c] = clone[c]
    BY Zenon, <1>6 DEF TypeOK, ReserveDesktopCloneJob
  <2> QED BY ZenonT(40), <2>1, <2>2, <2>3 DEF ActiveIsEntitled
<1>7. ASSUME NEW d \in Desktops, UpsertManagedDesktop(d)
      PROVE  ActiveIsEntitled'
  BY ZenonT(40), <1>7, EntitlementKept DEF TypeOK, UpsertManagedDesktop, UserGranted,
     AgentGranted, GrantedByGroup, Listed
<1>8. ASSUME NEW d \in Desktops, CompleteJobTask(d) \/ UpdateJobTask(d)
      PROVE  ActiveIsEntitled'
  <2>1. /\ \A u, c : UserGranted(u, c)' <=> UserGranted(u, c)
        /\ \A a, c : AgentGranted(a, c)' <=> AgentGranted(a, c)
    BY ZenonT(40), <1>8 DEF CompleteJobTask, UpdateJobTask, UserGranted, AgentGranted, GrantedByGroup, Listed
  <2>2. /\ UNCHANGED <<conn, holder, lease>>
        /\ \A c \in Desktops : clone'[c] = "unsettled" => clone[c] = "unsettled"
    BY Zenon, <1>8 DEF TypeOK, CompleteJobTask, UpdateJobTask
  <2> QED BY Zenon, <2>1, <2>2, EntitlementKept
<1>9. CASE Issuing
  <2>1. /\ \A u, d : UserGranted(u, d)' <=> UserGranted(u, d)
        /\ \A a, d : AgentGranted(a, d)' <=> AgentGranted(a, d)
        /\ clone' = clone
    <3>1. UNCHANGED <<disabled, agents, groups, members, known, present, quarantined, mode, owner,
                      clone, userGrants, groupGrants, agentGrants>>
      BY Zenon, <1>9 DEF Issuing, Prepare, CreateNativeDesktopConnection, CreateAgentDesktopLease,
            AbandonPreparation, InsertDesktopConnectionSession,
         CreateDesktopLease, BeginRevokeDesktopConnections, CompleteDesktopConnectionRevocation,
         EndLease
    <3> QED BY Zenon, <3>1 DEF UserGranted, AgentGranted, GrantedByGroup, Listed
  <2>2. ASSUME NEW d \in Desktops, InsertDesktopConnectionSession(d)
        PROVE  ActiveIsEntitled'
    BY ZenonT(40), <2>1, <2>2 DEF TypeOK, ActiveIsEntitled, InsertDesktopConnectionSession,
       UserCanAccessDesktop, Fenced
  <2>3. ASSUME NEW d \in Desktops, CreateDesktopLease(d)
        PROVE  ActiveIsEntitled'
    BY ZenonT(40), <2>1, <2>3 DEF TypeOK, ActiveIsEntitled, CreateDesktopLease,
       AgentCanAccessDesktop, Fenced
  <2>4. ASSUME NEW d \in Desktops, BeginRevokeDesktopConnections(d)
        PROVE  ActiveIsEntitled'
    BY Zenon, <2>1, <2>4 DEF TypeOK, ActiveIsEntitled, BeginRevokeDesktopConnections
  <2>5. ASSUME NEW d \in Desktops, CompleteDesktopConnectionRevocation(d)
        PROVE  ActiveIsEntitled'
    BY Zenon, <2>1, <2>5 DEF TypeOK, ActiveIsEntitled, CompleteDesktopConnectionRevocation
  <2>6. ASSUME NEW d \in Desktops, EndLease(d)
        PROVE  ActiveIsEntitled'
    BY Zenon, <2>1, <2>6 DEF TypeOK, ActiveIsEntitled, EndLease
  <2>7. ASSUME UNCHANGED <<conn, holder, lease>>
        PROVE  ActiveIsEntitled'
    BY Zenon, <2>1, <2>7 DEF ActiveIsEntitled
  <2> QED BY Zenon, <1>9, <2>2, <2>3, <2>4, <2>5, <2>6, <2>7
          DEF Issuing, Prepare, CreateNativeDesktopConnection, CreateAgentDesktopLease, AbandonPreparation
<1>10. CASE UNCHANGED vars
  BY Zenon, <1>10 DEF vars, ActiveIsEntitled, UserGranted, AgentGranted, GrantedByGroup, Listed
<1> QED BY Zenon, <1>1, <1>2, <1>3, <1>4, <1>5, <1>6, <1>7, <1>8, <1>9, <1>10, StepsOfNext

\* No active connection or lease outlives the grants it was issued under, and
\* none is held on a clone that has never succeeded.
THEOREM Entitlement == Spec => []ActiveIsEntitled
<1>1. Init => ActiveIsEntitled
  BY Zenon DEF Init, ActiveIsEntitled
<1>2. TypeOK /\ ActiveIsEntitled /\ [Next]_vars => ActiveIsEntitled'
  BY Zenon, EntitlementStep
<1> QED BY <1>1, <1>2, TypeCorrect, PTL DEF Spec

-----------------------------------------------------------------------------
(* Ownership and memberships                                               *)

\* Steps other than these two leave modes, owners and people's grants alone.
LEMMA OwnershipSteps ==
  ASSUME [Next]_vars
  PROVE  \/ \E d \in Desktops :
              \/ ChangeDesktopAssignment(d)
              \/ \E m \in {"personal", "shared"}, o \in Users \cup {None} :
                   UpdateManagedDesktopIdentity(d, m, o)
         \/ UNCHANGED <<mode, owner, userGrants, groupGrants>>
<1> USE DEF people, desktops, inventoried, ownership, grants, connections, issued
<1>1. CASE Administration
  BY Zenon, <1>1 DEF Administration, SetUserDisabled, CreateAgentPrincipal, SetAgentEnabled,
     CreateIdentityGroup, SetIdentityGroupEnabled, PutIdentityGroupMembership,
     DeleteIdentityGroupMembership
<1>2. CASE Discovery
  BY Zenon, <1>2 DEF Discovery, ReconcileManagedDesktops, ReserveDesktopCloneJob,
     UpsertManagedDesktop, CompleteJobTask, UpdateJobTask, QuarantineClonedDesktop
<1>3. CASE Issuing
  BY Zenon, <1>3 DEF Issuing, Prepare, CreateNativeDesktopConnection, CreateAgentDesktopLease,
            AbandonPreparation, InsertDesktopConnectionSession,
     CreateDesktopLease, BeginRevokeDesktopConnections, CompleteDesktopConnectionRevocation, EndLease
<1>4. CASE SignIns
  BY Zenon, <1>4 DEF SignIns, SyncOIDCGroupMemberships
<1>5. CASE UNCHANGED vars
  BY Zenon, <1>5 DEF vars
<1> QED BY Zenon, <1>1, <1>2, <1>3, <1>4, <1>5 DEF Next

\* The owner of a personal desktop is the only person granted it.
THEOREM Exclusive == Spec => []PersonalIsExclusive
<1>1. Init => PersonalIsExclusive
  BY Zenon DEF Init, PersonalIsExclusive
<1>2. ASSUME TypeOK, PersonalIsExclusive, [Next]_vars
      PROVE  PersonalIsExclusive'
  <2>1. ASSUME NEW d \in Desktops, ChangeDesktopAssignment(d)
        PROVE  PersonalIsExclusive'
    <3>0. mode' = mode
      BY Zenon, <2>1 DEF ChangeDesktopAssignment
    <3>1. ASSUME NEW u \in Users, PutUserAssignment(u, d)
          PROVE  PersonalIsExclusive'
      BY <1>2, <3>0, <3>1 DEF TypeOK, PersonalIsExclusive, PutUserAssignment
    <3>2. ASSUME NEW g \in Groups, PutGroupAssignment(g, d)
          PROVE  PersonalIsExclusive'
      BY Zenon, <1>2, <3>0, <3>2 DEF TypeOK, PersonalIsExclusive, PutGroupAssignment
    <3>3. ASSUME UNCHANGED <<owner, userGrants, groupGrants>>
          PROVE  PersonalIsExclusive'
      BY Zenon, <1>2, <3>0, <3>3 DEF PersonalIsExclusive
    <3>4. ASSUME NEW u \in Users, DeleteUserAssignment(u, d)
          PROVE  PersonalIsExclusive'
      BY Zenon, <1>2, <3>0, <3>4 DEF TypeOK, PersonalIsExclusive, DeleteUserAssignment
    <3>5. ASSUME NEW g \in Groups, groupGrants' = groupGrants \ {<<g, d>>},
                 UNCHANGED <<owner, userGrants>>
          PROVE  PersonalIsExclusive'
      BY Zenon, <1>2, <3>0, <3>5 DEF PersonalIsExclusive
    <3> QED BY Zenon, <2>1, <3>1, <3>2, <3>3, <3>4, <3>5 DEF ChangeDesktopAssignment,
               PutDesktopAssignment, DeleteDesktopAssignment, PutAgentAssignment
  <2>2. ASSUME NEW d \in Desktops, NEW m \in {"personal", "shared"}, NEW o \in Users \cup {None},
               UpdateManagedDesktopIdentity(d, m, o)
        PROVE  PersonalIsExclusive'
    <3>1. CASE m = "personal"
      BY Zenon, <1>2, <2>2, <3>1 DEF TypeOK, PersonalIsExclusive, UpdateManagedDesktopIdentity, DroppedGrants
    <3>2. CASE m = "shared"
      BY Zenon, <1>2, <2>2, <3>2 DEF TypeOK, PersonalIsExclusive, UpdateManagedDesktopIdentity
    <3> QED BY Zenon, <3>1, <3>2
  <2>3. ASSUME UNCHANGED <<mode, owner, userGrants, groupGrants>>
        PROVE  PersonalIsExclusive'
    BY Zenon, <1>2, <2>3 DEF PersonalIsExclusive
  <2> QED BY Zenon, <1>2, <2>1, <2>2, <2>3, OwnershipSteps
<1> QED BY <1>1, <1>2, TypeCorrect, PTL DEF Spec

\* Steps other than these leave groups, memberships and claims alone.
LEMMA GroupSteps ==
  ASSUME [Next]_vars
  PROVE  \/ \E g \in Groups :
              \/ \E on \in BOOLEAN : CreateIdentityGroup(g, on) \/ SetIdentityGroupEnabled(g, on)
              \/ \E u \in Users : \/ PutIdentityGroupMembership(g, u)
                                  \/ DeleteIdentityGroupMembership(g, u)
         \/ \E u \in Users, named \in SUBSET OidcGroups : SyncOIDCGroupMemberships(u, named)
         \/ UNCHANGED <<groups, members, claims>>
<1> USE DEF people, desktops, inventoried, ownership, grants, connections, issued
<1>1. CASE Administration
  BY Zenon, <1>1 DEF Administration, SetUserDisabled, CreateAgentPrincipal, SetAgentEnabled,
     ChangeDesktopAssignment, UpdateManagedDesktopIdentity
<1>2. CASE Discovery
  BY Zenon, <1>2 DEF Discovery, ReconcileManagedDesktops, ReserveDesktopCloneJob,
     UpsertManagedDesktop, CompleteJobTask, UpdateJobTask, QuarantineClonedDesktop
<1>3. CASE Issuing
  BY Zenon, <1>3 DEF Issuing, Prepare, CreateNativeDesktopConnection, CreateAgentDesktopLease,
            AbandonPreparation, InsertDesktopConnectionSession,
     CreateDesktopLease, BeginRevokeDesktopConnections, CompleteDesktopConnectionRevocation, EndLease
<1>4. CASE SignIns
  BY Zenon, <1>4 DEF SignIns
<1>5. CASE UNCHANGED vars
  BY Zenon, <1>5 DEF vars
<1> QED BY Zenon, <1>1, <1>2, <1>3, <1>4, <1>5 DEF Next

\* The provider's groups hold exactly the members the provider named.
THEOREM Mirrored == Spec => []MembershipsMirrorClaims
<1>1. Init => MembershipsMirrorClaims
  BY Zenon DEF Init, MembershipsMirrorClaims
<1>2. ASSUME TypeOK, MembershipsMirrorClaims, [Next]_vars
      PROVE  MembershipsMirrorClaims'
  <2>1. ASSUME NEW g \in Groups, NEW u \in Users,
               PutIdentityGroupMembership(g, u) \/ DeleteIdentityGroupMembership(g, u)
        PROVE  MembershipsMirrorClaims'
    <3> SUFFICES ASSUME NEW v \in Users, NEW h \in OidcGroups
                 PROVE  <<h, v>> \in members' <=> h \in claims[v]
      BY Zenon, <2>1 DEF MembershipsMirrorClaims, PutIdentityGroupMembership,
         DeleteIdentityGroupMembership
    <3>1. h # g
      BY Zenon, <2>1, SubjectsAreDistinct DEF PutIdentityGroupMembership, DeleteIdentityGroupMembership
    <3>2. <<h, v>> \in members' <=> <<h, v>> \in members
      BY Zenon, <2>1, <3>1 DEF PutIdentityGroupMembership, DeleteIdentityGroupMembership
    <3> QED BY Zenon, <1>2, <3>2 DEF MembershipsMirrorClaims
  <2>2. ASSUME NEW u \in Users, NEW named \in SUBSET OidcGroups, SyncOIDCGroupMemberships(u, named)
        PROVE  MembershipsMirrorClaims'
    <3> SUFFICES ASSUME NEW v \in Users, NEW g \in OidcGroups
                 PROVE  <<g, v>> \in members' <=> g \in claims'[v]
      BY Zenon DEF MembershipsMirrorClaims
    <3>1. <<g, v>> \in members <=> g \in claims[v]
      BY Zenon, <1>2 DEF MembershipsMirrorClaims
    <3>2. <<g, v>> \in members' <=>
            (<<g, v>> \in members /\ (v # u \/ g \notin OidcGroups)) \/ (v = u /\ g \in named)
      BY <2>2 DEF SyncOIDCGroupMemberships, MirroredMembers
    <3>3. claims'[v] = IF v = u THEN named ELSE claims[v]
      BY Zenon, <1>2, <2>2 DEF TypeOK, SyncOIDCGroupMemberships
    <3> QED BY Zenon, <3>1, <3>2, <3>3
  <2>3. ASSUME UNCHANGED <<members, claims>>
        PROVE  MembershipsMirrorClaims'
    BY Zenon, <1>2, <2>3 DEF MembershipsMirrorClaims
  <2> QED BY Zenon, <1>2, <2>1, <2>2, <2>3, GroupSteps DEF CreateIdentityGroup, SetIdentityGroupEnabled
<1> QED BY <1>1, <1>2, TypeCorrect, PTL DEF Spec

\* A disabled group is opened by an administrator's update and nothing else.
THEOREM GroupStaysDisabled == Spec => DisabledGroupStays
<1> DEFINE Opens(g) == groups[g] = "disabled" /\ groups'[g] = "enabled"
<1>1. ASSUME TypeOK, [Next]_vars, NEW g \in Groups, Opens(g)
      PROVE  SetIdentityGroupEnabled(g, TRUE)
  <2>1. ASSUME NEW h \in Groups, NEW on \in BOOLEAN, SetIdentityGroupEnabled(h, on)
        PROVE  SetIdentityGroupEnabled(g, TRUE)
    <3>1. h = g /\ on = TRUE
      BY Zenon, <1>1, <2>1 DEF TypeOK, SetIdentityGroupEnabled
    <3> QED BY Zenon, <2>1, <3>1
  <2>2. ASSUME NEW h \in Groups, NEW on \in BOOLEAN, CreateIdentityGroup(h, on)
        PROVE  FALSE
    BY Zenon, <1>1, <2>2 DEF TypeOK, CreateIdentityGroup, PutIdentityGroup
  <2>3. ASSUME NEW u \in Users, NEW named \in SUBSET OidcGroups, SyncOIDCGroupMemberships(u, named)
        PROVE  FALSE
    BY Zenon, <1>1, <2>3 DEF SyncOIDCGroupMemberships, UpsertedGroups
  <2>4. ASSUME UNCHANGED groups
        PROVE  FALSE
    BY Zenon, <1>1, <2>4
  <2> QED BY Zenon, <1>1, <2>1, <2>2, <2>3, <2>4, GroupSteps
          DEF PutIdentityGroupMembership, DeleteIdentityGroupMembership
<1>2. TypeOK /\ [Next]_vars
        => [\A g \in Groups : Opens(g) => SetIdentityGroupEnabled(g, TRUE)]_vars
  BY Zenon, <1>1
<1> QED BY <1>2, TypeCorrect, PTL DEF Spec, DisabledGroupStays
=============================================================================
