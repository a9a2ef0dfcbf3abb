------------------------- MODULE TenantCallsProofs -------------------------
(***************************************************************************)
(* What the tenant API guarantees when the requests for an organization do *)
(* not overlap, however those for others interleave with them, and Redis   *)
(* does not fail; for any number of users, organizations, projects and     *)
(* requests.  What a handler has checked is then still so when it writes,  *)
(* and the handlers implement TenantCalls.                                 *)
(*                                                                         *)
(* tenancy_orphan, tenancy_slugs and tenancy_deleted_org show what         *)
(* requests that overlap do.                                               *)
(***************************************************************************)
EXTENDS TenancyProofs

-----------------------------------------------------------------------------
(* What the handlers have found out.                                       *)

Working(r, o) == ActsFor(r, o) /\ pc[r] # "bump"

\* A request at work for its organization: the role it was authorized with is
\* the one in the table, and its SELECTs would find again what they found.
Knows(r) ==
  LET c == call[r] IN
  /\ role[c.org][c.by] = actor[r]
  /\ Permits(actor[r], c)
  /\ c.op = "delete_organization" /\ pc[r] = "write" => LiveOrg(c.org)
  /\ \/ c.op = "remove_member" /\ pc[r] = "write"
     \/ c.op \in {"add_project_member", "remove_project_member"} /\ pc[r] # "lookup"
     => role[c.org][c.user] # Nil
  /\ HoldsProject(r) => OwnProject(c)
  /\ c.op = "remove_project_member" /\ pc[r] = "write" =>
       <<c.user, c.project>> \in projectMembers

\* Only handlers that change a membership invalidate.
OnlyMembersBump ==
  \A r \in Requests : pc[r] = "bump" => call[r].op # "register_organization"

KnowsIn(o) == \A r \in Requests : Working(r, o) => Knows(r)

-----------------------------------------------------------------------------
(* The rows of an organization.                                            *)

\* OrgRows(o) is all that the handlers of o look at.
LEMMA SameRows ==
  ASSUME NEW o \in Orgs, OrgRows(o)' = OrgRows(o)
  PROVE  /\ organization'[o] = organization[o]
         /\ role'[o] = role[o]
         /\ \A p \in Projects :
              project[p].org = o \/ project'[p].org = o => project'[p] = project[p]
         /\ \A m : m[2] \in Projects /\ project[m[2]].org = o =>
              (m \in projectMembers <=> m \in projectMembers')
<1> DEFINE Rows(f) == {<<p, f[p]>> : p \in {q \in Projects : f[q].org = o}}
<1>1. /\ organization'[o] = organization[o]
      /\ role'[o] = role[o]
      /\ Rows(project') = Rows(project)
      /\ {m \in projectMembers : m[2] \in ProjectsOf(o)}'
           = {m \in projectMembers : m[2] \in ProjectsOf(o)}
  BY DEF OrgRows, ProjectsOf
<1>2. ASSUME NEW f, NEW g, Rows(f) = Rows(g), NEW p \in Projects, f[p].org = o
      PROVE  g[p] = f[p]
  <2>1. <<p, f[p]>> \in Rows(g)
    BY <1>2
  <2>2. PICK q \in Projects : <<p, f[p]>> = <<q, g[q]>>
    BY <2>1
  <2> QED
    BY <2>2
<1> HIDE DEF Rows
<1>3. \A p \in Projects :
        project[p].org = o \/ project'[p].org = o => project'[p] = project[p]
  BY <1>1, <1>2
<1>4. ProjectsOf(o)' = ProjectsOf(o)
  BY <1>3 DEF ProjectsOf
<1>5. \A m : m[2] \in Projects /\ project[m[2]].org = o =>
        (m \in projectMembers <=> m \in projectMembers')
  BY <1>1, <1>4 DEF ProjectsOf
<1> QED
  BY <1>1, <1>3, <1>5

\* While they stay the same, a request that does nothing knows what it knew.
LEMMA StillKnows ==
  ASSUME TypeOK, NEW o \in Orgs, OrgRows(o)' = OrgRows(o),
         NEW r \in Requests, Working(r, o), Knows(r),
         pc'[r] = pc[r], call'[r] = call[r], actor'[r] = actor[r]
  PROVE  Knows(r)'
<1> DEFINE c == call[r]
<1>1. c.org = o /\ call'[r] = c
  BY DEF Working, ActsFor
<1>2. role'[c.org] = role[c.org] /\ organization'[c.org] = organization[c.org]
  BY <1>1, SameRows
<1>3. HoldsProject(r) => OwnProject(c)'
  <2> SUFFICES ASSUME HoldsProject(r) PROVE OwnProject(c)'
    OBVIOUS
  <2>1. OwnProject(c) /\ c.project \in Projects
    BY RunningCall, CallFields DEF Knows, HoldsProject, Working, ActsFor
  <2> QED
    BY <1>1, <2>1, SameRows DEF OwnProject, LiveProject
<1>4. HoldsProject(r)' <=> HoldsProject(r)
  BY DEF HoldsProject
<1>5. c.op = "remove_project_member" /\ pc[r] = "write" =>
        <<c.user, c.project>> \in projectMembers'
  <2> SUFFICES ASSUME c.op = "remove_project_member", pc[r] = "write"
               PROVE  <<c.user, c.project>> \in projectMembers'
    OBVIOUS
  <2>1. OwnProject(c) /\ <<c.user, c.project>> \in projectMembers
    BY DEF Knows, HoldsProject
  <2>2. c.project \in Projects
    BY RunningCall, CallFields
  <2>3. <<c.user, c.project>>[2] = c.project
    OBVIOUS
  <2> QED
    BY <1>1, <2>1, <2>2, <2>3, SameRows DEF OwnProject
<1> QED
  BY <1>1, <1>2, <1>3, <1>4, <1>5 DEF Knows, LiveOrg

\* One that its SELECT sends on knows what the SELECT has found.
LEMMA LookupKnows ==
  ASSUME TypeOK, NEW o \in Orgs, NEW r \in Requests, Working(r, o), Knows(r), Lookup(r),
         pc'[r] # "idle"
  PROVE  Knows(r)'
<1>1. PICK l \in {"project", "name", "already", "write"} :
        Goto(r, l) /\ pc[r] \notin {"idle", "write", "bump"} /\ UNCHANGED tables
  BY LookupReads DEF ReadStep, Reply, TypeOK
<1>2. /\ pc'[r] = l /\ call' = call /\ actor' = actor
      /\ UNCHANGED <<organization, role, project, projectMembers>>
      /\ call[r].op # "register_organization"
  BY <1>1 DEF Goto, TypeOK, tables, Working, ActsFor
<1> DEFINE c == call[r]
           target == role[c.org][c.user]
<1>3. role[c.org][c.by] = actor[r] /\ Permits(actor[r], c)
  BY DEF Knows
<1>4. ~Reply(r)
  BY DEF Reply, TypeOK
<1>5. CASE UpdateLookup(r) \/ AddMemberLookup(r) \/ CreateProjectLookup(r)
  BY <1>1, <1>2, <1>3, <1>5
  DEF UpdateLookup, AddMemberLookup, CreateProjectLookup, Check, At, Knows, HoldsProject
<1>6. CASE DeleteLookup(r)
  BY <1>1, <1>2, <1>3, <1>4, <1>6 DEF DeleteLookup, Check, At, Knows, HoldsProject, LiveOrg
<1>7. CASE RemoveMemberLookup(r)
  <2>1. c.op = "remove_member" /\ target # Nil
    BY <1>4, <1>7 DEF RemoveMemberLookup, Check, At
  <2> QED
    BY <1>2, <1>3, <2>1 DEF Knows, HoldsProject
<1>8. CASE UpdateProjectLookup(r) \/ DeleteProjectLookup(r)
  <2>1. c.op \in {"update_project", "delete_project"} /\ OwnProject(c)
    BY <1>4, <1>8 DEF UpdateProjectLookup, DeleteProjectLookup, Check, At
  <2> QED
    BY <1>2, <1>3, <2>1 DEF Knows, OwnProject, LiveProject
<1>9. CASE UpdateProjectName(r)
  <2>1. c.op = "update_project" /\ pc[r] = "name"
    BY <1>9 DEF UpdateProjectName, Check, At
  <2>2. OwnProject(c)
    BY <2>1 DEF Knows, HoldsProject
  <2> QED
    BY <1>2, <1>3, <2>1, <2>2 DEF Knows, OwnProject, LiveProject
<1>10. CASE AddProjectMemberLookup(r) \/ RemoveProjectMemberLookup(r)
  <2>1. /\ c.op \in {"add_project_member", "remove_project_member"}
        /\ target # Nil /\ l = "project"
    BY <1>2, <1>4, <1>10
    DEF AddProjectMemberLookup, RemoveProjectMemberLookup, Check, At, Goto, TypeOK
  <2> QED
    BY <1>2, <1>3, <2>1 DEF Knows, HoldsProject
<1>11. CASE AddProjectMemberProject(r) \/ RemoveProjectMemberProject(r)
  <2>1. /\ c.op \in {"add_project_member", "remove_project_member"}
        /\ pc[r] = "project" /\ OwnProject(c) /\ l = "already"
    BY <1>2, <1>4, <1>11
    DEF AddProjectMemberProject, RemoveProjectMemberProject, Check, At, Goto, TypeOK
  <2>2. target # Nil
    BY <2>1 DEF Knows
  <2> QED
    BY <1>2, <1>3, <2>1, <2>2 DEF Knows, OwnProject, LiveProject
<1>12. CASE AddProjectMemberAlready(r) \/ RemoveProjectMemberAlready(r)
  <2>1. /\ c.op \in {"add_project_member", "remove_project_member"}
        /\ pc[r] = "already"
        /\ c.op = "remove_project_member" => <<c.user, c.project>> \in projectMembers
    BY <1>4, <1>12 DEF AddProjectMemberAlready, RemoveProjectMemberAlready, Check, At
  <2>2. target # Nil /\ OwnProject(c)
    BY <2>1 DEF Knows, HoldsProject
  <2> QED
    BY <1>2, <1>3, <2>1, <2>2 DEF Knows, OwnProject, LiveProject
<1>13. ~RegisterLookup(r)
  BY <1>2 DEF RegisterLookup, Check, At
<1> QED
  BY <1>5, <1>6, <1>7, <1>8, <1>9, <1>10, <1>11, <1>12, <1>13 DEF Lookup

\* Nobody is about to invalidate the entry a request is authorized with.
LEMMA AuthorizedKnows ==
  ASSUME ~RedisMayFail, TypeOK, CachedRoleIsCurrent, OnlyMembersBump,
         NEW r \in Requests, NEW c \in MemberCalls, Authorize(r, c),
         Alone(c.org)', pc'[r] # "idle"
  PROVE  Knows(r)'
<1> DEFINE m == MembershipOf(c.by, c.org)
<1>1. /\ c.by \in Users /\ c.org \in Orgs /\ c.op # "register_organization"
      /\ pc[r] = "idle" /\ UNCHANGED <<organization, role, project, projectMembers>>
      /\ Permits(m, c)
      /\ pc' = [pc EXCEPT ![r] = "lookup"]
      /\ call' = [call EXCEPT ![r] = c]
      /\ actor' = [actor EXCEPT ![r] = m]
  BY AuthorizeFrame DEF tables
<1>2. pc'[r] = "lookup" /\ call'[r] = c /\ actor'[r] = m
  BY <1>1 DEF TypeOK
<1>3. ~Bumping(c.org)
  <2> SUFFICES ASSUME NEW q \in Requests, pc[q] = "bump", call[q].org = c.org
               PROVE  FALSE
    BY DEF Bumping
  <2>1. call[q].op # "register_organization"
    BY DEF OnlyMembersBump
  <2>2. ActsFor(q, c.org)' /\ ActsFor(r, c.org)' /\ q # r
    BY <1>1, <1>2, <2>1 DEF ActsFor, TypeOK
  <2> QED
    BY <2>2 DEF Alone
<1>4. m = role[c.org][c.by]
  BY <1>1, <1>3 DEF CachedRoleIsCurrent, MembershipOf
<1> QED
  BY <1>1, <1>2, <1>4 DEF Knows, HoldsProject

\* With nobody else at work for the organization, a step is one of the request
\* that is, or leaves the organization's rows alone.
LEMMA KnowsStep ==
  ASSUME ~RedisMayFail, IInv, OnlyMembersBump, NEW o \in Orgs, Alone(o), Alone(o)',
         KnowsIn(o), [Next]_vars
  PROVE  KnowsIn(o)'
<1> SUFFICES ASSUME NEW r \in Requests, Working(r, o)' PROVE Knows(r)'
  BY DEF KnowsIn
<1>t. TypeOK /\ TypeOK'
  BY TypingStep DEF IInv
<1>0. pc'[r] # "idle" /\ pc'[r] # "bump" /\ call'[r].org = o
      /\ call'[r].op # "register_organization"
  BY DEF Working, ActsFor
<1>1. ASSUME OrgRows(o)' = OrgRows(o), pc'[r] = pc[r], call'[r] = call[r], actor'[r] = actor[r]
      PROVE  Knows(r)'
  <2>1. Working(r, o) /\ Knows(r)
    BY <1>0, <1>1 DEF Working, ActsFor, KnowsIn
  <2> QED
    BY <1>1, <1>t, <2>1, StillKnows
<1>2. UNCHANGED tables => OrgRows(o)' = OrgRows(o)
  BY DEF tables, OrgRows, ProjectsOf
<1>3. CASE \/ UNCHANGED vars
           \/ \E u \in Users, p \in Orgs : SelectOrganization(u, p) \/ CacheExpires(p, u)
  BY <1>1, <1>2, <1>3 DEF vars, SelectOrganization, CacheExpires
<1>4. ASSUME NEW q \in Requests, NEW c \in RegisterCalls, BeginRegister(q, c) PROVE Knows(r)'
  <2>1. /\ UNCHANGED tables /\ actor' = actor
        /\ r # q => pc'[r] = pc[r] /\ call'[r] = call[r]
        /\ call'[q].op = "register_organization"
    BY <1>4, <1>t DEF BeginRegister, TypeOK, RegisterCalls
  <2> QED
    BY <1>0, <1>1, <1>2, <2>1
<1>5. ASSUME NEW q \in Requests, NEW c \in MemberCalls, Authorize(q, c) PROVE Knows(r)'
  <2>0. /\ UNCHANGED tables /\ pc[q] = "idle"
        /\ \/ UNCHANGED <<pc, call, actor>>
           \/ \E m : /\ pc' = [pc EXCEPT ![q] = "lookup"]
                     /\ call' = [call EXCEPT ![q] = c]
                     /\ actor' = [actor EXCEPT ![q] = m]
    BY <1>5, <1>t, AuthorizeFrame
  <2>1. UNCHANGED tables /\ (r # q => pc'[r] = pc[r] /\ call'[r] = call[r] /\ actor'[r] = actor[r])
    BY <1>t, <2>0 DEF TypeOK
  <2>2. CASE r = q
    <3>1. call'[r] = c
      BY <1>0, <1>t, <2>0, <2>2 DEF TypeOK
    <3> QED
      BY <1>0, <1>5, <2>2, <3>1, AuthorizedKnows DEF IInv
  <2> QED
    BY <1>1, <1>2, <2>1, <2>2
<1>6. ASSUME NEW q \in Requests, Handler(q) PROVE Knows(r)'
  <2>1. /\ pc[r] # "idle" /\ call'[r] = call[r] /\ actor'[r] = actor[r]
        /\ q # r => pc'[r] = pc[r]
    BY <1>0, <1>6, <1>t, HandlerCalls
  <2>2. ActsFor(r, o)
    BY <1>0, <2>1 DEF ActsFor
  <2>3. CASE q # r
    <3>1. ~ActsFor(q, o)
      BY <2>2, <2>3 DEF Alone
    <3>2. pc[q] # "idle"
      BY <1>6, HandlerFrame
    <3>3. organization[o].state # "unused"
      BY <2>2 DEF IInv, UnusedIsEmpty
    <3>4. OrgRows(o)' = OrgRows(o)
      BY <1>6, <3>1, <3>2, <3>3, WriteIsolated DEF ActsFor
    <3> QED
      BY <1>1, <2>1, <2>3, <3>4
  <2>4. CASE q = r /\ Lookup(r)
    <3>1. Working(r, o) /\ Knows(r)
      BY <2>2, <2>4, LookupReads DEF Working, ReadStep, KnowsIn
    <3> QED
      BY <1>0, <1>t, <2>4, <3>1, LookupKnows
  <2>5. CASE q = r /\ ~Lookup(r)
    <3>1. Reply(r) \/ Goto(r, "bump")
      BY <1>6, <2>5
      DEF Handler, Lookup, RequestFails, Invalidate, InvalidateFails, RegisterWrite, UpdateWrite,
          DeleteWrite, AddMemberWrite, RemoveMemberWrite, CreateProjectWrite, UpdateProjectWrite,
          DeleteProjectWrite, AddProjectMemberWrite, RemoveProjectMemberWrite
    <3> QED
      BY <1>0, <1>t, <3>1 DEF Reply, Goto, TypeOK
  <2> QED
    BY <2>3, <2>4, <2>5
<1> QED
  BY <1>3, <1>4, <1>5, <1>6 DEF Next

\* register_organization has no step after its commit.
LEMMA BumpStep ==
  ASSUME TypeOK, OnlyMembersBump, [Next]_vars
  PROVE  OnlyMembersBump'
<1> SUFFICES ASSUME NEW r \in Requests, pc'[r] = "bump"
             PROVE  call'[r].op # "register_organization"
  BY DEF OnlyMembersBump
<1>1. CASE UNCHANGED <<pc, call>>
  BY <1>1 DEF OnlyMembersBump
<1>2. ASSUME NEW q \in Requests, NEW c, pc' = [pc EXCEPT ![q] = "lookup"],
             call' = [call EXCEPT ![q] = c]
      PROVE  call'[r].op # "register_organization"
  BY <1>2 DEF OnlyMembersBump, TypeOK
<1>3. ASSUME NEW q \in Requests, Handler(q) PROVE call'[r].op # "register_organization"
  <2>1. call'[r] = call[r] /\ (q # r => pc'[r] = pc[r])
    BY <1>3, HandlerCalls
  <2>2. CASE q = r
    <3>1. ~Reply(r) /\ (Goto(r, "bump") \/ ~\E l \in Labels : Goto(r, l))
      BY <2>2 DEF Reply, Goto, TypeOK
    <3>2. DeleteWrite(r) \/ AddMemberWrite(r) \/ RemoveMemberWrite(r)
      <4>1. ~Lookup(r)
        BY <2>2, LookupReads DEF ReadStep, Reply, Goto, TypeOK
      <4> QED
        BY <1>3, <2>2, <3>1, <4>1
        DEF Handler, Lookup, RequestFails, Invalidate, InvalidateFails, RegisterWrite, UpdateWrite,
            CreateProjectWrite, UpdateProjectWrite, DeleteProjectWrite, AddProjectMemberWrite,
            RemoveProjectMemberWrite
    <3> QED
      BY <2>1, <3>2 DEF DeleteWrite, AddMemberWrite, RemoveMemberWrite, At
  <2> QED
    BY <2>1, <2>2 DEF OnlyMembersBump
<1> QED
  BY <1>1, <1>2, <1>3 DEF Next, vars, SelectOrganization, CacheExpires, BeginRegister, Authorize

-----------------------------------------------------------------------------
(* Writes are calls of TenantCalls.                                        *)

\* What DeleteWrite ... RemoveProjectMemberWrite do is what the call does.
LEMMA MemberWriteIsCall ==
  ASSUME IInv, NEW r \in Requests, Knows(r),
         \/ DeleteWrite(r) \/ AddMemberWrite(r) \/ RemoveMemberWrite(r)
         \/ CreateProjectWrite(r) \/ UpdateProjectWrite(r) \/ DeleteProjectWrite(r)
         \/ AddProjectMemberWrite(r) \/ RemoveProjectMemberWrite(r)
  PROVE  Atomic!CallIn(call[r].org) /\ call[r].org \in Orgs /\ ActsFor(r, call[r].org)
<1> DEFINE c == call[r]
           o == c.org
<1>1. /\ pc[r] = "write" /\ c.op # "register_organization"
      /\ c.op \in {"delete_organization", "add_member", "remove_member", "create_project",
                   "update_project", "delete_project", "add_project_member",
                   "remove_project_member"}
  BY DEF DeleteWrite, AddMemberWrite, RemoveMemberWrite, CreateProjectWrite, UpdateProjectWrite,
         DeleteProjectWrite, AddProjectMemberWrite, RemoveProjectMemberWrite, At
<1>2. c.by \in Users /\ o \in Orgs
  BY <1>1, RunningCall, CallFields DEF IInv
<1>3. Atomic!Manages(c.by, o) /\ role[o][c.by] = actor[r] /\ Permits(actor[r], c)
  BY DEF Knows, Permits, Managers, Atomic!Manages, Atomic!Managers
<1>4. ASSUME OwnProject(c) PROVE Atomic!Has(o, c.project)
  BY <1>4 DEF OwnProject, LiveProject, Atomic!Has
<1>5. CASE DeleteWrite(r)
  <2>1. c.op = "delete_organization"
    BY <1>5 DEF DeleteWrite, At
  <2>2. Atomic!IsOwner(c.by, o) /\ organization[o].state = "live"
    BY <1>1, <1>3, <2>1 DEF Knows, Permits, LiveOrg, Atomic!IsOwner
  <2>3. Atomic!DeleteOrganization(c.by, o)
    BY <1>5, <2>2 DEF DeleteWrite, Atomic!DeleteOrganization, ProjectsOf, Atomic!ProjectsOf
  <2> QED
    BY <1>1, <1>2, <2>3 DEF Atomic!CallIn, ActsFor
<1>6. CASE AddMemberWrite(r)
  <2>1. c.op = "add_member" /\ c.user \in Users /\ c.role \in Roles
    BY <1>2, <1>6, RunningCall, CallFields DEF IInv, AddMemberWrite, At
  <2>2. actor[r] \in Managers /\ (c.role = "owner" => actor[r] = "owner")
    BY <1>3, <2>1 DEF Permits, Managers
  <2>3. Atomic!AddMember(c.by, o, c.user, c.role)
    BY <1>3, <1>6, <2>2 DEF AddMemberWrite, Atomic!AddMember, Atomic!IsOwner, Atomic!Belongs
  <2> QED
    BY <1>1, <1>2, <2>1, <2>3 DEF Atomic!CallIn, ActsFor, Roles, Atomic!Roles
<1>7. CASE RemoveMemberWrite(r)
  <2>1. c.op = "remove_member" /\ c.user \in Users
    BY <1>2, <1>7, RunningCall, CallFields DEF IInv, RemoveMemberWrite, At
  <2>2. role[o][c.user] # Nil
    BY <1>1, <2>1 DEF Knows
  <2>3. projectMembers' = {m \in projectMembers : ~(m[1] = c.user /\ Atomic!Has(o, m[2]))}
    <3>1. \A m \in projectMembers : m = <<m[1], m[2]>> /\ m[2] \in Projects
      BY DEF IInv, TypeOK
    <3> QED
      BY <1>7, <3>1 DEF RemoveMemberWrite, ProjectsOf, LiveProject, Atomic!Has
  <2>4. Atomic!RemoveMember(c.by, o, c.user)
    BY <1>3, <1>7, <2>2, <2>3 DEF RemoveMemberWrite, Atomic!RemoveMember, Atomic!Belongs
  <2> QED
    BY <1>1, <1>2, <2>1, <2>4 DEF Atomic!CallIn, ActsFor
<1>8. CASE CreateProjectWrite(r)
  <2>1. c.op = "create_project" /\ c.name \in Names
    BY <1>2, <1>8, RunningCall, CallFields DEF IInv, CreateProjectWrite, At
  <2>2. Atomic!CreateProject(c.by, o, c.name)
    BY <1>3, <1>8
    DEF CreateProjectWrite, Atomic!CreateProject, NameFree, Atomic!NameFree, ProjectsOf,
        Atomic!ProjectsOf
  <2> QED
    BY <1>1, <1>2, <2>1, <2>2 DEF Atomic!CallIn, ActsFor
<1>9. CASE UpdateProjectWrite(r)
  <2>1. c.op = "update_project" /\ c.name \in Names /\ c.project \in Projects
    BY <1>2, <1>9, RunningCall, CallFields DEF IInv, UpdateProjectWrite, At
  <2>2. OwnProject(c)
    BY <1>1, <2>1 DEF Knows, HoldsProject
  <2>3. Atomic!UpdateProject(c.by, o, c.project, c.name)
    BY <1>3, <1>4, <1>9, <2>2
    DEF UpdateProjectWrite, Atomic!UpdateProject, NameFree, Atomic!NameFree, ProjectsOf,
        Atomic!ProjectsOf
  <2> QED
    BY <1>1, <1>2, <2>1, <2>3 DEF Atomic!CallIn, ActsFor
<1>10. CASE DeleteProjectWrite(r)
  <2>1. c.op = "delete_project" /\ c.project \in Projects
    BY <1>2, <1>10, RunningCall, CallFields DEF IInv, DeleteProjectWrite, At
  <2>2. OwnProject(c)
    BY <1>1, <2>1 DEF Knows, HoldsProject
  <2>3. Atomic!DeleteProject(c.by, o, c.project)
    BY <1>3, <1>4, <1>10, <2>2 DEF DeleteProjectWrite, Atomic!DeleteProject
  <2> QED
    BY <1>1, <1>2, <2>1, <2>3 DEF Atomic!CallIn, ActsFor
<1>11. CASE AddProjectMemberWrite(r) \/ RemoveProjectMemberWrite(r)
  <2>1. /\ c.op \in {"add_project_member", "remove_project_member"}
        /\ c.user \in Users /\ c.project \in Projects
    BY <1>2, <1>11, RunningCall, CallFields
    DEF IInv, AddProjectMemberWrite, RemoveProjectMemberWrite, At
  <2>2. OwnProject(c) /\ Atomic!Belongs(c.user, o)
    BY <1>1, <2>1 DEF Knows, HoldsProject, Atomic!Belongs
  <2>3. CASE AddProjectMemberWrite(r)
    <3>1. Atomic!AddProjectMember(c.by, o, c.project, c.user)
      BY <1>3, <1>4, <2>2, <2>3 DEF AddProjectMemberWrite, Atomic!AddProjectMember
    <3> QED
      BY <1>1, <1>2, <2>1, <3>1 DEF Atomic!CallIn, ActsFor
  <2>4. CASE RemoveProjectMemberWrite(r)
    <3>1. <<c.user, c.project>> \in projectMembers
      BY <1>1, <2>4 DEF Knows, RemoveProjectMemberWrite, At
    <3>2. Atomic!RemoveProjectMember(c.by, o, c.project, c.user)
      BY <1>3, <1>4, <2>2, <2>4, <3>1 DEF RemoveProjectMemberWrite, Atomic!RemoveProjectMember
    <3> QED
      BY <1>1, <1>2, <2>1, <3>2 DEF Atomic!CallIn, ActsFor
  <2> QED
    BY <1>11, <2>3, <2>4
<1> QED
  BY <1>5, <1>6, <1>7, <1>8, <1>9, <1>10, <1>11

\* RegisterWrite and UpdateWrite likewise, if the slug is still free.
LEMMA FoundingIsCall ==
  ASSUME IInv, NEW r \in Requests, ~SlugTaken(call[r].slug),
         RegisterWrite(r) \/ (UpdateWrite(r) /\ Knows(r))
  PROVE  Atomic!CallForNew
<1> DEFINE c == call[r]
<1>1. Atomic!SlugFree(c.slug)
  BY DEF SlugTaken, LiveOrg, Atomic!SlugFree
<1>2. CASE RegisterWrite(r)
  <2>1. c.by \in Users /\ c.slug \in Slugs
    BY <1>2, RunningCall, CallFields DEF IInv, RegisterWrite, At
  <2>2. Atomic!RegisterOrganization(c.by, c.slug)
    BY <1>1, <1>2 DEF RegisterWrite, Atomic!RegisterOrganization, Atomic!Found
  <2> QED
    BY <2>1, <2>2 DEF Atomic!CallForNew
<1>3. CASE UpdateWrite(r) /\ Knows(r)
  <2>1. c.by \in Users /\ c.slug \in Slugs /\ c.org \in Orgs
    BY <1>3, RunningCall, CallFields DEF IInv, UpdateWrite, At
  <2>2. c.op = "update_organization"
    BY <1>3 DEF UpdateWrite, At
  <2>3. Atomic!Manages(c.by, c.org)
    BY <1>3, <2>2 DEF Knows, Permits, Managers, Atomic!Manages, Atomic!Managers
  <2>4. Atomic!UpdateOrganization(c.by, c.org, c.slug)
    BY <1>1, <1>3, <2>3 DEF UpdateWrite, Atomic!UpdateOrganization, Atomic!Found
  <2> QED
    BY <2>1, <2>4 DEF Atomic!CallForNew
<1> QED
  BY <1>2, <1>3

\* A step of a handler either writes or leaves the tables alone.
LEMMA WritesOfHandlers ==
  ASSUME NEW r \in Requests, Handler(r), ~ UNCHANGED tables
  PROVE  /\ pc[r] = "write"
         /\ \/ RegisterWrite(r) \/ UpdateWrite(r)
            \/ DeleteWrite(r) \/ AddMemberWrite(r) \/ RemoveMemberWrite(r)
            \/ CreateProjectWrite(r) \/ UpdateProjectWrite(r) \/ DeleteProjectWrite(r)
            \/ AddProjectMemberWrite(r) \/ RemoveProjectMemberWrite(r)
<1>1. ~Lookup(r) /\ ~RequestFails(r) /\ ~Invalidate(r) /\ ~InvalidateFails(r)
  BY LookupReads DEF ReadStep, RequestFails, Invalidate, InvalidateFails
<1>2. \/ RegisterWrite(r) \/ UpdateWrite(r)
      \/ DeleteWrite(r) \/ AddMemberWrite(r) \/ RemoveMemberWrite(r)
      \/ CreateProjectWrite(r) \/ UpdateProjectWrite(r) \/ DeleteProjectWrite(r)
      \/ AddProjectMemberWrite(r) \/ RemoveProjectMemberWrite(r)
  BY <1>1 DEF Handler, Lookup
<1> QED
  BY <1>2
  DEF RegisterWrite, UpdateWrite, DeleteWrite, AddMemberWrite, RemoveMemberWrite,
      CreateProjectWrite, UpdateProjectWrite, DeleteProjectWrite, AddProjectMemberWrite,
      RemoveProjectMemberWrite, At

-----------------------------------------------------------------------------
(* What calls keep of an organization.                                     *)

MembersIn(o) ==
  \A m \in projectMembers :
    project[m[2]].org = o => role[o][m[1]] # Nil /\ LiveProject(m[2])

EmptyIn(o) ==
  organization[o].state = "deleted" =>
    /\ \A u \in Users : role[o][u] = Nil
    /\ \A p \in ProjectsOf(o) : ~LiveProject(p)

SoundIn(o) == MembersIn(o) /\ EmptyIn(o)

\* Each call of the organization keeps its part sound.
LEMMA CallKeepsSound ==
  ASSUME IInv, NEW o \in Orgs, SoundIn(o), Atomic!CallIn(o)
  PROVE  SoundIn(o)'
<1>t. /\ organization \in [Orgs -> [state : {"unused", "live", "deleted"}, slug : Slugs \cup {Nil}]]
      /\ role \in [Orgs -> [Users -> Roles \cup {Nil}]]
      /\ project \in [Projects -> [state : {"unused", "live", "deleted"},
                                   org : Orgs \cup {Nil}, name : Names \cup {Nil}]]
      /\ projectMembers \subseteq Users \X Projects
  BY DEF IInv, TypeOK
<1>n. \A u \in Users : role[o][u] \in Managers => role[o][u] # Nil
  BY NilAssumption DEF Managers, Roles
<1>m. ASSUME NEW u \in Users, Atomic!Manages(u, o)
      PROVE  role[o][u] # Nil /\ organization[o].state # "deleted"
  BY <1>m, <1>n DEF Atomic!Manages, Atomic!Managers, Managers, SoundIn, EmptyIn
<1>1. ASSUME NEW u \in Users, Atomic!DeleteOrganization(u, o) PROVE SoundIn(o)'
  <2>1. /\ \A v \in Users : role'[o][v] = Nil
        /\ \A p \in Projects : project[p].org = o => project'[p].state = "deleted"
        /\ \A p \in Projects : project'[p].org = project[p].org
        /\ \A m \in projectMembers' : m[2] \in Projects /\ project[m[2]].org # o
    BY <1>1, <1>t DEF Atomic!DeleteOrganization, Atomic!ProjectsOf
  <2> QED
    BY <1>n, <2>1 DEF SoundIn, MembersIn, EmptyIn, ProjectsOf, LiveProject
<1>2. ASSUME NEW u \in Users, NEW v \in Users, NEW as \in Roles, Atomic!AddMember(u, o, v, as)
      PROVE  SoundIn(o)'
  <2>1. /\ role[o][u] # Nil /\ organization[o].state # "deleted"
        /\ role[o][v] = Nil
        /\ UNCHANGED <<organization, project, projectMembers>>
    BY <1>2, <1>m DEF Atomic!AddMember, Atomic!Belongs
  <2>2. \A w \in Users : role[o][w] # Nil => role'[o][w] = role[o][w]
    BY <1>2, <1>t, <2>1 DEF Atomic!AddMember
  <2>3. MembersIn(o)'
    BY <1>t, <2>1, <2>2 DEF SoundIn, MembersIn, LiveProject
  <2> QED
    BY <2>1, <2>3 DEF SoundIn, EmptyIn
<1>3. ASSUME NEW u \in Users, NEW v \in Users, Atomic!RemoveMember(u, o, v) PROVE SoundIn(o)'
  <2>1. /\ organization[o].state # "deleted"
        /\ projectMembers' = {m \in projectMembers : ~(m[1] = v /\ Atomic!Has(o, m[2]))}
        /\ UNCHANGED <<organization, project>>
    BY <1>3, <1>m DEF Atomic!RemoveMember
  <2>2. role'[o][v] = Nil /\ \A w \in Users \ {v} : role'[o][w] = role[o][w]
    BY <1>3, <1>t DEF Atomic!RemoveMember
  <2>3. MembersIn(o)'
    BY <1>t, <2>1, <2>2 DEF SoundIn, MembersIn, LiveProject, Atomic!Has
  <2> QED
    BY <2>1, <2>3 DEF SoundIn, EmptyIn
<1>4. ASSUME NEW u \in Users, NEW n \in Names, Atomic!CreateProject(u, o, n) PROVE SoundIn(o)'
  <2>1. organization[o].state # "deleted" /\ UNCHANGED <<organization, role, projectMembers>>
    BY <1>4, <1>m DEF Atomic!CreateProject
  <2>2. PICK p \in Projects :
          /\ project[p].state = "unused"
          /\ project' = [project EXCEPT ![p] = [state |-> "live", org |-> o, name |-> n]]
    BY <1>4 DEF Atomic!CreateProject
  <2>3. \A m \in projectMembers : m[2] \in Projects /\ m[2] # p
    BY <1>t, <2>2 DEF IInv, ProjectsPlaced
  <2>4. \A m \in projectMembers : project'[m[2]] = project[m[2]]
    BY <1>t, <2>2, <2>3
  <2> QED
    BY <2>1, <2>4 DEF SoundIn, MembersIn, EmptyIn, LiveProject
<1>5. ASSUME NEW u \in Users, NEW p \in Projects,
             (\E n \in Names : Atomic!UpdateProject(u, o, p, n)) \/ Atomic!DeleteProject(u, o, p)
      PROVE  SoundIn(o)'
  <2>1. organization[o].state # "deleted" /\ UNCHANGED <<organization, role>>
    BY <1>5, <1>m DEF Atomic!UpdateProject, Atomic!DeleteProject
  <2>2. CASE \E n \in Names : Atomic!UpdateProject(u, o, p, n)
    <3>1. projectMembers' = projectMembers /\ \E n \in Names : project' = [project EXCEPT ![p].name = n]
      BY <2>2 DEF Atomic!UpdateProject
    <3>2. \A q \in Projects : project'[q].org = project[q].org /\ project'[q].state = project[q].state
      BY <1>t, <3>1
    <3> QED
      BY <1>t, <2>1, <3>1, <3>2 DEF SoundIn, MembersIn, EmptyIn, LiveProject
  <2>3. CASE Atomic!DeleteProject(u, o, p)
    <3>1. /\ projectMembers' = {m \in projectMembers : m[2] # p}
          /\ \A q \in Projects : project'[q].org = project[q].org
          /\ \A q \in Projects \ {p} : project'[q].state = project[q].state
      BY <1>t, <2>3 DEF Atomic!DeleteProject
    <3> QED
      BY <1>t, <2>1, <3>1 DEF SoundIn, MembersIn, EmptyIn, LiveProject
  <2> QED
    BY <1>5, <2>2, <2>3
<1>6. ASSUME NEW u \in Users, NEW p \in Projects, NEW v \in Users,
             Atomic!AddProjectMember(u, o, p, v) \/ Atomic!RemoveProjectMember(u, o, p, v)
      PROVE  SoundIn(o)'
  <2>1. /\ UNCHANGED <<organization, role, project>>
        /\ \A m \in projectMembers' :
             m \in projectMembers \/ (LiveProject(m[2]) /\ role[o][m[1]] # Nil)
    BY <1>6
    DEF Atomic!AddProjectMember, Atomic!RemoveProjectMember, Atomic!Has, Atomic!Belongs, LiveProject
  <2> QED
    BY <2>1 DEF SoundIn, MembersIn, EmptyIn, LiveProject, ProjectsOf
<1> QED
  BY <1>1, <1>2, <1>3, <1>4, <1>5, <1>6 DEF Atomic!CallIn, Roles, Atomic!Roles

\* SoundIn(o) is about the rows of o.
LEMMA RowsKeepSound ==
  ASSUME TypeOK, TypeOK', NEW o \in Orgs, SoundIn(o), OrgRows(o)' = OrgRows(o)
  PROVE  SoundIn(o)'
<1>1. /\ organization'[o] = organization[o]
      /\ role'[o] = role[o]
      /\ \A p \in Projects :
           project[p].org = o \/ project'[p].org = o => project'[p] = project[p]
      /\ \A m : m[2] \in Projects /\ project[m[2]].org = o =>
           (m \in projectMembers <=> m \in projectMembers')
  BY SameRows
<1>2. \A m \in projectMembers' : m[2] \in Projects
  BY DEF TypeOK
<1>3. MembersIn(o)'
  BY <1>1, <1>2 DEF SoundIn, MembersIn, LiveProject
<1> QED
  BY <1>1, <1>3 DEF SoundIn, EmptyIn, ProjectsOf, LiveProject

\* A new organization has no project.
LEMMA FoundingKeepsSound ==
  ASSUME IInv, TypeOK', NEW o \in Orgs, SoundIn(o), NEW r \in Requests,
         RegisterWrite(r) \/ UpdateWrite(r)
  PROVE  SoundIn(o)'
<1>t. /\ organization \in [Orgs -> [state : {"unused", "live", "deleted"}, slug : Slugs \cup {Nil}]]
      /\ role \in [Orgs -> [Users -> Roles \cup {Nil}]]
      /\ projectMembers \subseteq Users \X Projects
  BY DEF IInv, TypeOK
<1>1. call[r].by \in Users /\ UNCHANGED <<project, projectMembers>>
  BY RunningCall, CallFields DEF IInv, RegisterWrite, UpdateWrite, At
<1>2. PICK new \in Orgs :
        /\ organization[new].state = "unused"
        /\ organization' = [organization EXCEPT ![new] = [state |-> "live", slug |-> call[r].slug]]
        /\ role' = role \/ role' = [role EXCEPT ![new][call[r].by] = "owner"]
  BY DEF RegisterWrite, UpdateWrite
<1>3. CASE o # new
  <2>1. organization'[o] = organization[o] /\ role'[o] = role[o]
    BY <1>2, <1>3, <1>t
  <2> QED
    BY <1>1, <2>1 DEF SoundIn, MembersIn, EmptyIn, ProjectsOf, LiveProject
<1>4. CASE o = new
  <2>1. \A u \in Users : role[o][u] = Nil
    BY <1>2, <1>4 DEF IInv, UnusedIsEmpty
  <2>2. organization'[o].state = "live"
    BY <1>2, <1>4, <1>t
  <2>3. \A m \in projectMembers : project[m[2]].org # o
    BY <1>t, <2>1 DEF SoundIn, MembersIn
  <2> QED
    BY <1>1, <2>2, <2>3 DEF SoundIn, MembersIn, EmptyIn
<1> QED
  BY <1>3, <1>4

\* Any step does: it leaves the rows of o alone, creates an organization, or
\* is a call of the one request of o.
LEMMA SoundStep ==
  ASSUME IInv, NEW o \in Orgs, Alone(o), KnowsIn(o), SoundIn(o), [Next]_vars
  PROVE  SoundIn(o)'
<1>t. TypeOK /\ TypeOK'
  BY TypingStep DEF IInv
<1> SUFFICES ASSUME OrgRows(o)' # OrgRows(o) PROVE SoundIn(o)'
  BY <1>t, RowsKeepSound
<1>1. PICK r \in Requests : Handler(r)
  BY OnlyHandlersWrite
<1>2. ~ UNCHANGED tables
  BY DEF tables, OrgRows, ProjectsOf
<1>3. CASE RegisterWrite(r) \/ UpdateWrite(r)
  BY <1>3, <1>t, FoundingKeepsSound
<1>4. CASE ~RegisterWrite(r) /\ ~UpdateWrite(r)
  <2>1. /\ pc[r] = "write"
        /\ \/ DeleteWrite(r) \/ AddMemberWrite(r) \/ RemoveMemberWrite(r)
           \/ CreateProjectWrite(r) \/ UpdateProjectWrite(r) \/ DeleteProjectWrite(r)
           \/ AddProjectMemberWrite(r) \/ RemoveProjectMemberWrite(r)
    BY <1>1, <1>2, <1>4, WritesOfHandlers
  <2>2. ActsFor(r, o)
    BY <1>1, <1>4, <2>1, WriteIsolated DEF ActsFor
  <2>3. Knows(r)
    BY <2>1, <2>2 DEF KnowsIn, Working
  <2>4. Atomic!CallIn(o)
    BY <2>1, <2>2, <2>3, MemberWriteIsCall DEF ActsFor
  <2> QED
    BY <2>4, CallKeepsSound
<1> QED
  BY <1>3, <1>4

-----------------------------------------------------------------------------
(* Slugs.                                                                  *)

\* Nobody takes the slug that a request has found free.
SlugsKnown ==
  \A r \in Requests :
    /\ pc[r] = "write"
    /\ call[r].op \in {"register_organization", "update_organization"}
    => ~SlugTaken(call[r].slug)

\* A request with this slug is alone with it from its SELECT to its write.
LEMMA SlugsStep ==
  ASSUME TypeOK, SlugsApart, SlugsKnown, SlugsUnique, [Next]_vars
  PROVE  SlugsKnown' /\ SlugsUnique'
<1>t. organization \in [Orgs -> [state : {"unused", "live", "deleted"}, slug : Slugs \cup {Nil}]]
  BY DEF TypeOK
\* What remains to be shown of a step that creates no organization.
<1>1. ASSUME \A o \in Orgs : LiveOrg(o)' => LiveOrg(o) /\ organization'[o] = organization[o],
             NEW q \in Requests,
             \A r \in Requests \ {q} : pc'[r] = pc[r] /\ call'[r] = call[r],
             /\ pc'[q] = "write"
             /\ call'[q].op \in {"register_organization", "update_organization"}
             => ~SlugTaken(call'[q].slug)
      PROVE  SlugsKnown' /\ SlugsUnique'
  <2>1. \A s : SlugTaken(s)' => SlugTaken(s)
    BY <1>1 DEF SlugTaken
  <2>2. SlugsKnown'
    BY <1>1, <2>1 DEF SlugsKnown
  <2>3. SlugsUnique'
    BY <1>1 DEF SlugsUnique
  <2> QED
    BY <2>2, <2>3
<1>2. CASE UNCHANGED <<organization, pc, call>>
  BY <1>2 DEF SlugsKnown, SlugsUnique, SlugTaken, LiveOrg
<1>3. ASSUME NEW q \in Requests, NEW c, pc' = [pc EXCEPT ![q] = "lookup"],
             call' = [call EXCEPT ![q] = c], organization' = organization
      PROVE  SlugsKnown' /\ SlugsUnique'
  <2>1. pc'[q] = "lookup" /\ \A r \in Requests \ {q} : pc'[r] = pc[r] /\ call'[r] = call[r]
    BY <1>3 DEF TypeOK
  <2> QED
    BY <1>1, <1>3, <2>1 DEF LiveOrg
<1>4. ASSUME NEW q \in Requests, Handler(q) PROVE SlugsKnown' /\ SlugsUnique'
  <2>1. /\ \A r \in Requests \ {q} : pc'[r] = pc[r] /\ call'[r] = call[r]
        /\ pc'[q] # "idle" => pc[q] # "idle" /\ call'[q] = call[q]
    BY <1>4, HandlerCalls
  <2>2. CASE UNCHANGED tables
    <3>1. ASSUME pc'[q] = "write", call'[q].op \in {"register_organization", "update_organization"}
          PROVE  ~SlugTaken(call'[q].slug)
      <4>1. Reply(q) \/ Goto(q, "bump") \/ Lookup(q)
        BY <1>4
        DEF Handler, Lookup, RequestFails, Invalidate, InvalidateFails, RegisterWrite, UpdateWrite,
            DeleteWrite, AddMemberWrite, RemoveMemberWrite, CreateProjectWrite, UpdateProjectWrite,
            DeleteProjectWrite, AddProjectMemberWrite, RemoveProjectMemberWrite
      <4>2. ~Reply(q) /\ ~Goto(q, "bump")
        BY <3>1 DEF Reply, Goto, TypeOK
      <4>3. /\ call'[q] = call[q]
            /\ call[q].op \in {"register_organization", "update_organization"}
        BY <2>1, <3>1
      <4>4. RegisterLookup(q) \/ UpdateLookup(q)
        BY <4>1, <4>2, <4>3
        DEF Lookup, Check, At, DeleteLookup, AddMemberLookup, RemoveMemberLookup,
            CreateProjectLookup, UpdateProjectLookup, UpdateProjectName,
            DeleteProjectLookup, AddProjectMemberLookup, AddProjectMemberProject,
            AddProjectMemberAlready, RemoveProjectMemberLookup, RemoveProjectMemberProject,
            RemoveProjectMemberAlready
      <4>5. organization' = organization
        BY <2>2 DEF tables
      <4> QED
        BY <4>2, <4>3, <4>4, <4>5 DEF RegisterLookup, UpdateLookup, Check, SlugTaken, LiveOrg
    <3> QED
      BY <1>1, <2>1, <2>2, <3>1 DEF tables, LiveOrg
  <2>3. CASE RegisterWrite(q) \/ UpdateWrite(q)
    <3>1. /\ pc[q] = "write" /\ pc'[q] = "idle"
          /\ call[q].op \in {"register_organization", "update_organization"}
      BY <2>3 DEF RegisterWrite, UpdateWrite, At, Reply, TypeOK
    <3>2. ~SlugTaken(call[q].slug) /\ call[q].slug \in Slugs
      BY <3>1, RunningCall, CallFields DEF SlugsKnown
    <3>3. PICK new \in Orgs : organization' =
            [organization EXCEPT ![new] = [state |-> "live", slug |-> call[q].slug]]
      BY <2>3 DEF RegisterWrite, UpdateWrite
    <3>4. /\ organization'[new].slug = call[q].slug
          /\ \A o \in Orgs \ {new} : organization'[o] = organization[o]
      BY <1>t, <3>3
    <3>5. SlugsUnique'
      BY <3>2, <3>4 DEF SlugsUnique, SlugTaken, LiveOrg
    <3>6. SlugsKnown'
      <4> SUFFICES ASSUME NEW r \in Requests, pc'[r] = "write",
                          call'[r].op \in {"register_organization", "update_organization"},
                          SlugTaken(call[r].slug)'
                   PROVE  FALSE
        BY DEF SlugsKnown
      <4>1. r # q /\ pc[r] = "write" /\ call'[r] = call[r] /\ ~SlugTaken(call[r].slug)
        BY <2>1, <3>1 DEF SlugsKnown
      <4>2. call[r].slug = call[q].slug
        BY <3>4, <4>1 DEF SlugTaken, LiveOrg
      <4>3. Claims(r, call[q].slug) /\ Claims(q, call[q].slug)
        BY <3>1, <4>1, <4>2 DEF Claims
      <4> QED
        BY <3>2, <4>1, <4>3 DEF SlugsApart
    <3> QED
      BY <3>5, <3>6
  <2>4. CASE ~ UNCHANGED tables /\ ~RegisterWrite(q) /\ ~UpdateWrite(q)
    <3>1. \/ DeleteWrite(q) \/ AddMemberWrite(q) \/ RemoveMemberWrite(q)
          \/ CreateProjectWrite(q) \/ UpdateProjectWrite(q) \/ DeleteProjectWrite(q)
          \/ AddProjectMemberWrite(q) \/ RemoveProjectMemberWrite(q)
      BY <1>4, <2>4, WritesOfHandlers
    <3>2. /\ Reply(q) \/ Goto(q, "bump")
          /\ organization' = organization \/ DeleteWrite(q)
      BY <3>1
      DEF DeleteWrite, AddMemberWrite, RemoveMemberWrite, CreateProjectWrite, UpdateProjectWrite,
          DeleteProjectWrite, AddProjectMemberWrite, RemoveProjectMemberWrite
    <3>3. pc'[q] # "write"
      BY <3>2 DEF Reply, Goto, TypeOK
    <3>4. \A o \in Orgs : LiveOrg(o)' => LiveOrg(o) /\ organization'[o] = organization[o]
      BY <1>t, <3>2 DEF DeleteWrite, LiveOrg
    <3> QED
      BY <1>1, <2>1, <3>3, <3>4
  <2> QED
    BY <2>2, <2>3, <2>4
<1> QED
  BY <1>2, <1>3, <1>4
  DEF Next, vars, tables, SelectOrganization, CacheExpires, BeginRegister, Authorize

-----------------------------------------------------------------------------
(* Results.                                                                *)

\* No request, no organization: nothing to know and nothing unsound.
LEMMA Beginning ==
  ASSUME Init
  PROVE  /\ OnlyMembersBump /\ SlugsKnown /\ SlugsUnique
         /\ \A o \in Orgs : KnowsIn(o) /\ SoundIn(o)
<1>1. /\ \A r \in Requests : pc[r] = "idle"
      /\ \A o \in Orgs : organization[o].state = "unused" /\ \A u \in Users : role[o][u] = Nil
      /\ projectMembers = {}
  BY DEF Init, NoOrg
<1>2. OnlyMembersBump /\ SlugsKnown /\ SlugsUnique
  BY <1>1 DEF OnlyMembersBump, SlugsKnown, SlugsUnique, LiveOrg
<1>3. ASSUME NEW o \in Orgs PROVE KnowsIn(o) /\ SoundIn(o)
  BY <1>1, <1>3 DEF KnowsIn, Working, ActsFor, SoundIn, MembersIn, EmptyIn
<1> QED
  BY <1>2, <1>3

\* Whatever the requests do.
LEMMA AlwaysBumps == Spec => []OnlyMembersBump
<1>1. Init => OnlyMembersBump
  BY Beginning
<1>2. TypeOK /\ OnlyMembersBump /\ [Next]_vars => OnlyMembersBump'
  BY BumpStep
<1> QED
  BY <1>1, <1>2, Typing, PTL DEF Spec

\* One tenant whose requests do not overlap is sound, however its neighbours
\* overlap theirs: whoever is in one of its projects is a member of the
\* organization, the project is not a deleted one, and when the organization is
\* deleted nothing of it is left.
THEOREM ATenantOfItsOwn ==
  ASSUME ~RedisMayFail, NEW o \in Orgs
  PROVE  Spec /\ []Alone(o) => []SoundIn(o)
<1> DEFINE J == KnowsIn(o) /\ SoundIn(o)
<1>1. Init => J
  BY Beginning
<1>2. IInv /\ OnlyMembersBump /\ J /\ Alone(o) /\ Alone(o)' /\ [Next]_vars => J'
  BY KnowsStep, SoundStep
<1>3. J => SoundIn(o)
  OBVIOUS
<1> HIDE DEF J
<1> QED
  BY <1>1, <1>2, <1>3, Inductive, AlwaysBumps, PTL DEF Spec

\* All tenants together.
TenantsInv == \A o \in Orgs : KnowsIn(o) /\ SoundIn(o)

\* The invariant holds in every behaviour with one request per organization.
LEMMA AlwaysTenants ==
  ASSUME ~RedisMayFail
  PROVE  Spec /\ []OrgsApart => []TenantsInv
<1>1. Init => TenantsInv
  BY Beginning DEF TenantsInv
<1>2. IInv /\ OnlyMembersBump /\ TenantsInv /\ OrgsApart /\ OrgsApart' /\ [Next]_vars => TenantsInv'
  BY KnowsStep, SoundStep DEF TenantsInv, OrgsApart
<1> QED
  BY <1>1, <1>2, Inductive, AlwaysBumps, PTL DEF Spec

\* ProjectMembersBelong, with one request per organization: whom
\* add_project_member found in the organization is in it when it adds her, and
\* remove_member takes her out of every project.
THEOREM NobodyIsLeftBehind ==
  ASSUME ~RedisMayFail
  PROVE  Spec /\ []OrgsApart => []ProjectMembersBelong
<1>1. TenantsInv /\ IInv => ProjectMembersBelong
  <2> SUFFICES ASSUME TenantsInv, IInv, NEW m \in projectMembers
               PROVE  role[project[m[2]].org][m[1]] # Nil
    BY DEF ProjectMembersBelong
  <2>1. project[m[2]].org \in Orgs
    BY DEF IInv, TypeOK, ProjectsPlaced
  <2> QED
    BY <2>1 DEF TenantsInv, SoundIn, MembersIn
<1> QED
  BY <1>1, AlwaysTenants, Inductive, PTL

\* DeletedIsEmpty, with one request per organization: nothing is created
\* below an organization or a project after its deletion.
THEOREM DeletionIsComplete ==
  ASSUME ~RedisMayFail
  PROVE  Spec /\ []OrgsApart => []DeletedIsEmpty
<1>1. TenantsInv /\ IInv => DeletedIsEmpty
  <2> SUFFICES ASSUME TenantsInv, IInv PROVE DeletedIsEmpty
    OBVIOUS
  <2>1. ASSUME NEW m \in projectMembers PROVE LiveProject(m[2])
    <3>1. project[m[2]].org \in Orgs
      BY DEF IInv, TypeOK, ProjectsPlaced
    <3> QED
      BY <3>1 DEF TenantsInv, SoundIn, MembersIn
  <2> QED
    BY <2>1 DEF TenantsInv, SoundIn, EmptyIn, DeletedIsEmpty
<1> QED
  BY <1>1, AlwaysTenants, Inductive, PTL

\* DeletedOrgIsRefused, with one request per organization: a deletion leaves no
\* member behind who could be authorized, and until the cache is invalidated the
\* request that deletes is still at work.
THEOREM DeletedMeansRefused ==
  ASSUME ~RedisMayFail
  PROVE  Spec /\ []OrgsApart => DeletedOrgIsRefused
<1> DEFINE Refused ==
      \A r \in Requests :
        pc[r] = "idle" /\ pc'[r] = "lookup" /\ call'[r].op # "register_organization" =>
          LiveOrg(call'[r].org) \/ Bumping(call'[r].org)
<1>1. IInv /\ TenantsInv /\ [Next]_vars => [Refused]_vars
  <2> SUFFICES ASSUME IInv, TenantsInv, [Next]_vars, NEW r \in Requests,
                      pc[r] = "idle", pc'[r] = "lookup", call'[r].op # "register_organization"
               PROVE  LiveOrg(call'[r].org) \/ Bumping(call'[r].org)
    OBVIOUS
  <2>t. TypeOK
    BY DEF IInv
  <2>1. ASSUME NEW q \in Requests, NEW c \in RegisterCalls, BeginRegister(q, c) PROVE FALSE
    BY <2>1, <2>t DEF BeginRegister, RegisterCalls, TypeOK
  <2>2. ASSUME NEW q \in Requests, Handler(q) PROVE FALSE
    BY <2>2, <2>t, HandlerCalls, HandlerFrame
  <2>3. ASSUME NEW q \in Requests, NEW c \in MemberCalls, Authorize(q, c)
        PROVE  LiveOrg(call'[r].org) \/ Bumping(call'[r].org)
    <3> DEFINE m == MembershipOf(c.by, c.org)
    <3>0. /\ c.by \in Users /\ c.org \in Orgs
          /\ \/ UNCHANGED <<pc, call, actor>>
             \/ /\ Permits(m, c)
                /\ pc' = [pc EXCEPT ![q] = "lookup"]
                /\ call' = [call EXCEPT ![q] = c]
      BY <2>3, <2>t, AuthorizeFrame
    <3> HIDE DEF m
    <3>1. call'[r] = c /\ Permits(m, c)
      BY <2>t, <3>0 DEF TypeOK
    <3>2. m # Nil
      BY <3>1, PermitsManagers
    <3>3. CASE role[c.org][c.by] = m
      <4>1. organization[c.org].state \notin {"unused", "deleted"}
        BY <3>0, <3>2, <3>3 DEF IInv, UnusedIsEmpty, TenantsInv, SoundIn, EmptyIn
      <4> QED
        BY <2>t, <3>0, <3>1, <4>1 DEF TypeOK, LiveOrg
    <3>4. CASE role[c.org][c.by] # m
      <4>1. cached[c.org][c.by] \notin {Nil, role[c.org][c.by]}
        BY <3>2, <3>4 DEF MembershipOf, m
      <4> QED
        BY <3>0, <3>1, <4>1 DEF IInv, CachedRoleIsCurrent
    <3> QED
      BY <3>3, <3>4
  <2> QED
    BY <2>1, <2>2, <2>3 DEF Next, vars, SelectOrganization, CacheExpires
<1> QED
  BY <1>1, Inductive, AlwaysTenants, PTL DEF Spec, DeletedOrgIsRefused

\* Nobody else claims the slug between a request's SELECT and its write.
LEMMA AlwaysSlugs == Spec /\ []SlugsApart => [](SlugsKnown /\ SlugsUnique)
<1>1. Init => SlugsKnown /\ SlugsUnique
  BY Beginning
<1>2. TypeOK /\ SlugsApart /\ SlugsKnown /\ SlugsUnique /\ [Next]_vars => SlugsKnown' /\ SlugsUnique'
  BY SlugsStep
<1> QED
  BY <1>1, <1>2, Typing, PTL DEF Spec

\* SlugsUnique, with one request per slug, whatever Redis does and however
\* the requests of an organization overlap: the SELECT of
\* register_organization and update_organization is enough then.
THEOREM SlugsStayUnique == Spec /\ []SlugsApart => []SlugsUnique
  BY AlwaysSlugs, PTL

\* Every step is a call of TenantCalls or leaves the tables alone.
LEMMA StepIsCall ==
  ASSUME IInv, TenantsInv, SlugsKnown, [Next]_vars
  PROVE  [Atomic!Next]_(Atomic!tables)
<1> SUFFICES ASSUME ~ UNCHANGED tables PROVE Atomic!Next
  BY DEF tables, Atomic!tables
<1>1. PICK r \in Requests : Handler(r)
  BY DEF Next, vars, SelectOrganization, CacheExpires, BeginRegister, Authorize
<1>2. /\ pc[r] = "write"
      /\ \/ RegisterWrite(r) \/ UpdateWrite(r)
         \/ DeleteWrite(r) \/ AddMemberWrite(r) \/ RemoveMemberWrite(r)
         \/ CreateProjectWrite(r) \/ UpdateProjectWrite(r) \/ DeleteProjectWrite(r)
         \/ AddProjectMemberWrite(r) \/ RemoveProjectMemberWrite(r)
  BY <1>1, WritesOfHandlers
<1>3. call[r].op # "register_organization" => Knows(r)
  <2> SUFFICES ASSUME call[r].op # "register_organization" PROVE Knows(r)
    OBVIOUS
  <2>1. call[r].org \in Orgs
    BY <1>2, RunningCall, CallFields DEF IInv
  <2> QED
    BY <1>2, <2>1 DEF TenantsInv, KnowsIn, Working, ActsFor
<1>4. CASE RegisterWrite(r) \/ UpdateWrite(r)
  <2>1. /\ RegisterWrite(r) => call[r].op = "register_organization"
        /\ UpdateWrite(r) => call[r].op = "update_organization"
    BY DEF RegisterWrite, UpdateWrite, At
  <2>2. ~SlugTaken(call[r].slug)
    BY <1>2, <1>4, <2>1 DEF SlugsKnown
  <2> QED
    BY <1>3, <1>4, <2>1, <2>2, FoundingIsCall DEF Atomic!Next
<1>5. CASE ~RegisterWrite(r) /\ ~UpdateWrite(r)
  <2>1. call[r].op # "register_organization"
    BY <1>2, <1>5
    DEF DeleteWrite, AddMemberWrite, RemoveMemberWrite, CreateProjectWrite, UpdateProjectWrite,
        DeleteProjectWrite, AddProjectMemberWrite, RemoveProjectMemberWrite, At
  <2> QED
    BY <1>2, <1>3, <1>5, <2>1, MemberWriteIsCall DEF Atomic!Next
<1> QED
  BY <1>4, <1>5

\* CallsAreAtomic for every instance: requests for different organizations
\* and slugs, however many and however interleaved, are each one step that is
\* authorized by the role the caller has in the table at that moment.
THEOREM CallsHappenAtOnce ==
  ASSUME ~RedisMayFail
  PROVE  Spec /\ []Apart => CallsAreAtomic
<1>1. Init => Atomic!Init
  BY DEF Init, NoOrg, NoProject, Atomic!Init
<1>2. IInv /\ TenantsInv /\ SlugsKnown /\ [Next]_vars => [Atomic!Next]_(Atomic!tables)
  BY StepIsCall
<1>3. Apart => OrgsApart /\ SlugsApart
  BY DEF Apart
<1> QED
  BY <1>1, <1>2, <1>3, Inductive, AlwaysTenants, AlwaysSlugs, PTL
  DEF Spec, CallsAreAtomic, Atomic!Spec
=============================================================================
