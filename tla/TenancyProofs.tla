--------------------------- MODULE TenancyProofs ---------------------------
(***************************************************************************)
(* Proofs about Tenancy: typing, the membership cache, tenant isolation,   *)
(* project names, the finality of a deletion and where owners come from,   *)
(* for any number of users, organizations, projects and concurrent         *)
(* requests.                                                               *)
(***************************************************************************)
EXTENDS Tenancy, TLAPS

-----------------------------------------------------------------------------
(* Helpers.                                                                *)

\* The steps that read: a SELECT and its reply.
Lookup(r) ==
  \/ RegisterLookup(r)             \/ UpdateLookup(r)
  \/ DeleteLookup(r)               \/ AddMemberLookup(r)
  \/ RemoveMemberLookup(r)         \/ CreateProjectLookup(r)
  \/ UpdateProjectLookup(r)        \/ UpdateProjectName(r)
  \/ DeleteProjectLookup(r)
  \/ AddProjectMemberLookup(r)     \/ AddProjectMemberProject(r)
  \/ AddProjectMemberAlready(r)    \/ RemoveProjectMemberLookup(r)
  \/ RemoveProjectMemberProject(r) \/ RemoveProjectMemberAlready(r)

\* What all of them have in common.
ReadStep(r) ==
  /\ pc[r] \notin {"idle", "write", "bump"}
  /\ \/ \E l \in {"project", "name", "already", "write"} : Goto(r, l)
     \/ Reply(r)
  /\ UNCHANGED <<tables, granted, cached>>

\* Every call has the fields its handler reads, of the right type.
LEMMA CallFields ==
  ASSUME NEW c \in Calls
  PROVE  /\ c.by \in Users
         /\ c.op = "register_organization" => c.slug \in Slugs
         /\ c.op # "register_organization" => c \in MemberCalls /\ c.org \in Orgs
         /\ c.op = "update_organization" => c.slug \in Slugs
         /\ c.op = "add_member" => c.user \in Users /\ c.role \in Roles
         /\ c.op = "remove_member" => c.user \in Users
         /\ c.op = "create_project" => c.name \in Names
         /\ c.op = "update_project" => c.project \in Projects /\ c.name \in Names
         /\ c.op = "delete_project" => c.project \in Projects
         /\ c.op = "add_project_member" => c.user \in Users /\ c.project \in Projects
         /\ c.op = "remove_project_member" => c.user \in Users /\ c.project \in Projects
  BY DEF Calls, MemberCalls, RegisterCalls, UpdateCalls, DeleteCalls, AddCalls,
         RemoveCalls, CreateCalls, RenameCalls, DropCalls, AssignCalls

\* The steps that read change nothing but the request itself.
LEMMA LookupReads ==
  ASSUME NEW r \in Requests, Lookup(r)
  PROVE  ReadStep(r)
<1>1. CASE RegisterLookup(r)
  BY <1>1 DEF RegisterLookup, Check, At, ReadStep
<1>2. CASE UpdateLookup(r)
  BY <1>2 DEF UpdateLookup, Check, At, ReadStep
<1>3. CASE DeleteLookup(r)
  BY <1>3 DEF DeleteLookup, Check, At, ReadStep
<1>4. CASE AddMemberLookup(r)
  BY <1>4 DEF AddMemberLookup, Check, At, ReadStep
<1>5. CASE RemoveMemberLookup(r)
  BY <1>5 DEF RemoveMemberLookup, Check, At, ReadStep
<1>6. CASE CreateProjectLookup(r)
  BY <1>6 DEF CreateProjectLookup, Check, At, ReadStep
<1>7. CASE UpdateProjectLookup(r)
  BY <1>7 DEF UpdateProjectLookup, Check, At, ReadStep
<1>8. CASE UpdateProjectName(r)
  BY <1>8 DEF UpdateProjectName, Check, At, ReadStep
<1>9. CASE DeleteProjectLookup(r)
  BY <1>9 DEF DeleteProjectLookup, Check, At, ReadStep
<1>10. CASE AddProjectMemberLookup(r)
  BY <1>10 DEF AddProjectMemberLookup, Check, At, ReadStep
<1>11. CASE AddProjectMemberProject(r)
  BY <1>11 DEF AddProjectMemberProject, Check, At, ReadStep
<1>12. CASE AddProjectMemberAlready(r)
  BY <1>12 DEF AddProjectMemberAlready, Check, At, ReadStep
<1>13. CASE RemoveProjectMemberLookup(r)
  BY <1>13 DEF RemoveProjectMemberLookup, Check, At, ReadStep
<1>14. CASE RemoveProjectMemberProject(r)
  BY <1>14 DEF RemoveProjectMemberProject, Check, At, ReadStep
<1>15. CASE RemoveProjectMemberAlready(r)
  BY <1>15 DEF RemoveProjectMemberAlready, Check, At, ReadStep
<1>16. QED
  BY <1>1, <1>2, <1>3, <1>4, <1>5, <1>6, <1>7, <1>8, <1>9, <1>10, <1>11,
     <1>12, <1>13, <1>14, <1>15 DEF Lookup

-----------------------------------------------------------------------------
(* Typing.                                                                 *)

\* A request that runs has a call, typed by what it asks for.
LEMMA RunningCall ==
  ASSUME TypeOK, NEW r \in Requests, pc[r] # "idle"
  PROVE  call[r] \in Calls
  BY DEF TypeOK

\* Ending a request keeps the part of TypeOK about requests.
LEMMA ReplyTyped ==
  ASSUME TypeOK, NEW r \in Requests, Reply(r)
  PROVE  /\ pc' \in [Requests -> Labels]
         /\ call' \in [Requests -> Calls \cup {Nil}]
         /\ actor' \in [Requests -> Roles \cup {Nil}]
         /\ \A q \in Requests : pc'[q] = "idle" <=> call'[q] = Nil
  BY DEF TypeOK, Reply, Labels

\* So does moving a request that runs to another label.
LEMMA GotoTyped ==
  ASSUME TypeOK, NEW r \in Requests, pc[r] # "idle",
         NEW l \in Labels \ {"idle"}, Goto(r, l)
  PROVE  /\ pc' \in [Requests -> Labels]
         /\ call' \in [Requests -> Calls \cup {Nil}]
         /\ actor' \in [Requests -> Roles \cup {Nil}]
         /\ \A q \in Requests : pc'[q] = "idle" <=> call'[q] = Nil
  BY DEF TypeOK, Goto

\* A request that starts running with a call.
LEMMA BeginTyped ==
  ASSUME TypeOK, NEW r \in Requests, NEW c \in Calls,
         pc' = [pc EXCEPT ![r] = "lookup"], call' = [call EXCEPT ![r] = c]
  PROVE  /\ pc' \in [Requests -> Labels]
         /\ call' \in [Requests -> Calls \cup {Nil}]
         /\ \A q \in Requests : pc'[q] = "idle" <=> call'[q] = Nil
  BY NilIsNoCall DEF TypeOK, Labels

\* Each step keeps the tables, the cache and the requests well typed.
LEMMA TypingStep ==
  ASSUME TypeOK, [Next]_vars
  PROVE  TypeOK'
<1>1. ASSUME NEW u \in Users, NEW o \in Orgs, SelectOrganization(u, o)
      PROVE  TypeOK'
  BY <1>1 DEF TypeOK, SelectOrganization, tables
<1>2. ASSUME NEW u \in Users, NEW o \in Orgs, CacheExpires(o, u)
      PROVE  TypeOK'
  BY <1>2 DEF TypeOK, CacheExpires, tables
<1>3. ASSUME NEW r \in Requests, NEW c \in RegisterCalls, BeginRegister(r, c)
      PROVE  TypeOK'
  <2>1. c \in Calls
    BY DEF Calls
  <2>2. QED
    BY <1>3, <2>1, BeginTyped DEF TypeOK, BeginRegister, tables
<1>4. ASSUME NEW r \in Requests, NEW c \in MemberCalls, Authorize(r, c)
      PROVE  TypeOK'
  <2> DEFINE m == MembershipOf(c.by, c.org)
  <2>1. c \in Calls /\ c.by \in Users /\ c.org \in Orgs
    BY DEF Calls, MemberCalls, UpdateCalls, DeleteCalls, AddCalls,
           RemoveCalls, CreateCalls, RenameCalls, DropCalls, AssignCalls
  <2>2. m \in Roles \cup {Nil}
    BY <2>1 DEF TypeOK, MembershipOf
  <2>3. cached' \in [Orgs -> [Users -> Roles \cup {Nil}]]
    BY <1>4, <2>1, <2>2 DEF TypeOK, Authorize
  <2>4. CASE Permits(m, c)
    <3>1. /\ pc' = [pc EXCEPT ![r] = "lookup"]
          /\ call' = [call EXCEPT ![r] = c]
          /\ actor' = [actor EXCEPT ![r] = m]
          /\ UNCHANGED <<tables, granted>>
      BY <1>4, <2>4 DEF Authorize
    <3>2. actor' \in [Requests -> Roles \cup {Nil}]
      BY <2>2, <3>1 DEF TypeOK
    <3> HIDE DEF m
    <3>3. QED
      BY <2>1, <2>3, <3>1, <3>2, BeginTyped DEF TypeOK, tables
  <2>5. CASE ~Permits(m, c)
    BY <1>4, <2>3, <2>5 DEF TypeOK, Authorize, tables
  <2>6. QED
    BY <2>4, <2>5
<1>5. ASSUME NEW r \in Requests, Lookup(r)
      PROVE  TypeOK'
  <2>1. ReadStep(r)
    BY <1>5, LookupReads
  <2>2. CASE Reply(r)
    BY <2>1, <2>2, ReplyTyped DEF ReadStep, TypeOK, tables
  <2>3. ASSUME NEW l \in {"project", "name", "already", "write"}, Goto(r, l)
        PROVE  TypeOK'
    BY <2>1, <2>3, GotoTyped DEF ReadStep, TypeOK, tables, Labels
  <2>4. QED
    BY <2>1, <2>2, <2>3 DEF ReadStep
<1>6. ASSUME NEW r \in Requests, RequestFails(r) \/ InvalidateFails(r)
      PROVE  TypeOK'
  BY <1>6, ReplyTyped DEF RequestFails, InvalidateFails, TypeOK, tables
<1>7. ASSUME NEW r \in Requests, Invalidate(r)
      PROVE  TypeOK'
  <2>1. cached' \in [Orgs -> [Users -> Roles \cup {Nil}]]
    BY <1>7 DEF Invalidate, TypeOK
  <2>2. QED
    BY <1>7, <2>1, ReplyTyped DEF Invalidate, TypeOK, tables
<1>8. ASSUME NEW r \in Requests, RegisterWrite(r)
      PROVE  TypeOK'
  <2>1. call[r].by \in Users /\ call[r].slug \in Slugs
    BY <1>8, RunningCall, CallFields DEF RegisterWrite, At
  <2>2. organization' \in [Orgs -> [state : {"unused", "live", "deleted"},
                                   slug : Slugs \cup {Nil}]]
    BY <1>8, <2>1 DEF RegisterWrite, TypeOK
  <2>3. role' \in [Orgs -> [Users -> Roles \cup {Nil}]]
    BY <1>8, <2>1 DEF RegisterWrite, TypeOK, Roles
  <2>4. QED
    BY <1>8, <2>2, <2>3, ReplyTyped DEF RegisterWrite, TypeOK
<1>9. ASSUME NEW r \in Requests, UpdateWrite(r)
      PROVE  TypeOK'
  <2>1. call[r].slug \in Slugs
    BY <1>9, RunningCall, CallFields DEF UpdateWrite, At
  <2>2. organization' \in [Orgs -> [state : {"unused", "live", "deleted"},
                                   slug : Slugs \cup {Nil}]]
    BY <1>9, <2>1 DEF UpdateWrite, TypeOK
  <2>3. QED
    BY <1>9, <2>2, ReplyTyped DEF UpdateWrite, TypeOK
<1>10. ASSUME NEW r \in Requests, DeleteWrite(r)
       PROVE  TypeOK'
  <2> DEFINE o == call[r].org
  <2>0. o \in Orgs
    BY <1>10, RunningCall, CallFields DEF DeleteWrite, At
  <2>1. organization' \in [Orgs -> [state : {"unused", "live", "deleted"},
                                   slug : Slugs \cup {Nil}]]
    <3>1. organization' = [organization EXCEPT ![o].state = "deleted"]
      BY <1>10 DEF DeleteWrite
    <3>2. organization \in [Orgs -> [state : {"unused", "live", "deleted"},
                                    slug : Slugs \cup {Nil}]]
      BY DEF TypeOK
    <3>3. [organization[o] EXCEPT !.state = "deleted"]
            \in [state : {"unused", "live", "deleted"}, slug : Slugs \cup {Nil}]
      BY <2>0, <3>2
    <3>4. QED
      BY <3>1, <3>2, <3>3
  <2>2. role' \in [Orgs -> [Users -> Roles \cup {Nil}]]
    BY <1>10 DEF DeleteWrite, TypeOK
  <2>3. project' \in [Projects -> [state : {"unused", "live", "deleted"},
                                  org : Orgs \cup {Nil},
                                  name : Names \cup {Nil}]]
    <3>1. project' = [p \in Projects |->
                        IF p \in ProjectsOf(o)
                          THEN [project[p] EXCEPT !.state = "deleted"]
                          ELSE project[p]]
      BY <1>10 DEF DeleteWrite
    <3>2. ASSUME NEW p \in Projects
          PROVE  /\ project[p] \in [state : {"unused", "live", "deleted"},
                                   org : Orgs \cup {Nil},
                                   name : Names \cup {Nil}]
                 /\ [project[p] EXCEPT !.state = "deleted"]
                      \in [state : {"unused", "live", "deleted"},
                          org : Orgs \cup {Nil}, name : Names \cup {Nil}]
      BY DEF TypeOK
    <3>3. QED
      BY <3>1, <3>2
  <2>4. projectMembers' \subseteq Users \X Projects
    BY <1>10 DEF DeleteWrite, TypeOK
  <2>5. QED
    BY <1>10, <2>1, <2>2, <2>3, <2>4, GotoTyped
    DEF DeleteWrite, At, TypeOK, Labels
<1>11. ASSUME NEW r \in Requests, AddMemberWrite(r)
       PROVE  TypeOK'
  <2>1. call[r].role \in Roles
    BY <1>11, RunningCall, CallFields DEF AddMemberWrite, At
  <2>2. role' \in [Orgs -> [Users -> Roles \cup {Nil}]]
    BY <1>11, <2>1 DEF AddMemberWrite, TypeOK
  <2>3. QED
    BY <1>11, <2>2, GotoTyped DEF AddMemberWrite, At, TypeOK, Labels
<1>12. ASSUME NEW r \in Requests, RemoveMemberWrite(r)
       PROVE  TypeOK'
  <2>1. role' \in [Orgs -> [Users -> Roles \cup {Nil}]]
    BY <1>12 DEF RemoveMemberWrite, TypeOK
  <2>2. projectMembers' \subseteq Users \X Projects
    BY <1>12 DEF RemoveMemberWrite, TypeOK
  <2>3. QED
    BY <1>12, <2>1, <2>2, GotoTyped DEF RemoveMemberWrite, At, TypeOK, Labels
<1>13. ASSUME NEW r \in Requests, CreateProjectWrite(r)
       PROVE  TypeOK'
  <2>1. call[r].org \in Orgs /\ call[r].name \in Names
    BY <1>13, RunningCall, CallFields DEF CreateProjectWrite, At
  <2>2. project' \in [Projects -> [state : {"unused", "live", "deleted"},
                                  org : Orgs \cup {Nil},
                                  name : Names \cup {Nil}]]
    BY <1>13, <2>1 DEF CreateProjectWrite, TypeOK
  <2>3. QED
    BY <1>13, <2>2, ReplyTyped DEF CreateProjectWrite, TypeOK
<1>14. ASSUME NEW r \in Requests, UpdateProjectWrite(r)
       PROVE  TypeOK'
  <2>1. call[r].name \in Names
    BY <1>14, RunningCall, CallFields DEF UpdateProjectWrite, At
  <2>2. project' \in [Projects -> [state : {"unused", "live", "deleted"},
                                  org : Orgs \cup {Nil},
                                  name : Names \cup {Nil}]]
    BY <1>14, <2>1 DEF UpdateProjectWrite, TypeOK
  <2>3. QED
    BY <1>14, <2>2, ReplyTyped DEF UpdateProjectWrite, TypeOK
<1>15. ASSUME NEW r \in Requests, DeleteProjectWrite(r)
       PROVE  TypeOK'
  <2>1. project' \in [Projects -> [state : {"unused", "live", "deleted"},
                                  org : Orgs \cup {Nil},
                                  name : Names \cup {Nil}]]
    BY <1>15 DEF DeleteProjectWrite, TypeOK
  <2>2. QED
    BY <1>15, <2>1, ReplyTyped DEF DeleteProjectWrite, TypeOK
<1>16. ASSUME NEW r \in Requests, AddProjectMemberWrite(r)
       PROVE  TypeOK'
  <2>1. call[r].user \in Users /\ call[r].project \in Projects
    BY <1>16, RunningCall, CallFields DEF AddProjectMemberWrite, At
  <2>2. projectMembers' \subseteq Users \X Projects
    BY <1>16, <2>1 DEF AddProjectMemberWrite, TypeOK
  <2>3. QED
    BY <1>16, <2>2, ReplyTyped DEF AddProjectMemberWrite, TypeOK
<1>17. ASSUME NEW r \in Requests, RemoveProjectMemberWrite(r)
       PROVE  TypeOK'
  BY <1>17, ReplyTyped DEF RemoveProjectMemberWrite, TypeOK
<1>18. CASE UNCHANGED vars
  BY <1>18 DEF TypeOK, vars, tables
<1>19. QED
  BY <1>1, <1>2, <1>3, <1>4, <1>5, <1>6, <1>7, <1>8, <1>9, <1>10, <1>11,
     <1>12, <1>13, <1>14, <1>15, <1>16, <1>17, <1>18
  DEF Next, Handler, Lookup

\* Every reachable state is well typed: no interleaving of handlers, cache
\* expiry and failures leaves the tables, Redis or a request malformed.
THEOREM Typing == Spec => []TypeOK
<1>1. Init => TypeOK
  BY DEF Init, TypeOK, NoOrg, NoProject, Labels
<1>2. TypeOK /\ [Next]_vars => TypeOK'
  BY TypingStep
<1>3. QED
  BY <1>1, <1>2, PTL DEF Spec

-----------------------------------------------------------------------------
(* The inductive invariant.                                                *)

\* A request past authorization presented a token of the organization and was
\* found to have a role that its handler permits.
Authorized ==
  \A r \in Requests :
    pc[r] # "idle" /\ call[r].op # "register_organization" =>
      <<call[r].by, call[r].org>> \in granted /\ Permits(actor[r], call[r])

\* An id no organization has been created under yet: no member, no entry in
\* the cache and so nobody who could act for it.
UnusedIsEmpty ==
  \A o \in Orgs : organization[o].state = "unused" =>
    /\ \A u \in Users : role[o][u] = Nil /\ cached[o][u] = Nil
    /\ \A r \in Requests : ~ActsFor(r, o)

\* The request has found its project in its own organization.
HoldsProject(r) ==
  \/ pc[r] \in {"name", "write"} /\ call[r].op = "update_project"
  \/ pc[r] = "write" /\ call[r].op = "delete_project"
  \/ /\ pc[r] \in {"already", "write"}
     /\ call[r].op \in {"add_project_member", "remove_project_member"}

\* A project never changes its organization, so what the handlers' SELECT
\* found still holds at their write.
ProjectsPlaced ==
  /\ \A p \in Projects : project[p].state = "unused" <=> project[p].org = Nil
  /\ \A m \in projectMembers : project[m[2]].org # Nil
  /\ \A r \in Requests :
       HoldsProject(r) => project[call[r].project].org = call[r].org

IInv ==
  /\ TypeOK
  /\ Authorized
  /\ UnusedIsEmpty
  /\ ProjectsPlaced
  /\ CachedRoleIsCurrent
  /\ ProjectNamesUnique

\* A handler's step ends the request or moves it on; it issues no token.
LEMMA HandlerFrame ==
  ASSUME NEW r \in Requests, Handler(r)
  PROVE  /\ pc[r] # "idle"
         /\ granted' = granted
         /\ Reply(r) \/ \E l \in Labels \ {"idle"} : Goto(r, l)
<1>1. CASE Lookup(r)
  BY <1>1, LookupReads DEF ReadStep, Labels
<1>2. CASE RequestFails(r) \/ InvalidateFails(r) \/ Invalidate(r)
  BY <1>2 DEF RequestFails, InvalidateFails, Invalidate
<1>3. CASE RegisterWrite(r) \/ UpdateWrite(r) \/ DeleteWrite(r)
  BY <1>3 DEF RegisterWrite, UpdateWrite, DeleteWrite, At, Labels
<1>4. CASE AddMemberWrite(r) \/ RemoveMemberWrite(r)
  BY <1>4 DEF AddMemberWrite, RemoveMemberWrite, At, Labels
<1>5. CASE \/ CreateProjectWrite(r) \/ UpdateProjectWrite(r)
           \/ DeleteProjectWrite(r)
  BY <1>5 DEF CreateProjectWrite, UpdateProjectWrite, DeleteProjectWrite, At
<1>6. CASE AddProjectMemberWrite(r) \/ RemoveProjectMemberWrite(r)
  BY <1>6 DEF AddProjectMemberWrite, RemoveProjectMemberWrite, At
<1>7. QED
  BY <1>1, <1>2, <1>3, <1>4, <1>5, <1>6 DEF Handler, Lookup

\* The requests other than r, and what r asks for while it runs, stay.
LEMMA HandlerCalls ==
  ASSUME TypeOK, NEW r \in Requests, Handler(r)
  PROVE  \A q \in Requests :
           /\ q # r => pc'[q] = pc[q] /\ call'[q] = call[q] /\ actor'[q] = actor[q]
           /\ pc'[q] # "idle" =>
                pc[q] # "idle" /\ call'[q] = call[q] /\ actor'[q] = actor[q]
<1>1. CASE Reply(r)
  BY <1>1 DEF Reply, TypeOK
<1>2. ASSUME NEW l \in Labels, Goto(r, l), pc[r] # "idle"
      PROVE  \A q \in Requests :
               /\ q # r => pc'[q] = pc[q] /\ call'[q] = call[q] /\ actor'[q] = actor[q]
               /\ pc'[q] # "idle" =>
                    pc[q] # "idle" /\ call'[q] = call[q] /\ actor'[q] = actor[q]
  BY <1>2 DEF Goto, TypeOK
<1>3. QED
  BY <1>1, <1>2, HandlerFrame

\* What an accepted and a refused authorization have in common.
LEMMA AuthorizeFrame ==
  ASSUME TypeOK, NEW r \in Requests, NEW c \in MemberCalls, Authorize(r, c)
  PROVE  /\ c.by \in Users /\ c.org \in Orgs
         /\ c.op # "register_organization"
         /\ pc[r] = "idle"
         /\ UNCHANGED <<tables, granted>>
         /\ cached' = [cached EXCEPT ![c.org][c.by] = MembershipOf(c.by, c.org)]
         /\ \/ UNCHANGED <<pc, call, actor>>
            \/ /\ <<c.by, c.org>> \in granted
               /\ Permits(MembershipOf(c.by, c.org), c)
               /\ pc' = [pc EXCEPT ![r] = "lookup"]
               /\ call' = [call EXCEPT ![r] = c]
               /\ actor' = [actor EXCEPT ![r] = MembershipOf(c.by, c.org)]
<1>1. c.by \in Users /\ c.org \in Orgs /\ c.op # "register_organization"
  BY DEF MemberCalls, UpdateCalls, DeleteCalls, AddCalls,
         RemoveCalls, CreateCalls, RenameCalls, DropCalls, AssignCalls
<1>2. QED
  BY <1>1 DEF Authorize

\* A permitted role is a manager's; NULL is none.
LEMMA PermitsManagers ==
  ASSUME NEW c \in MemberCalls, NEW m, Permits(m, c)
  PROVE  m \in Managers /\ m # Nil
<1>1. m \in Managers
  BY DEF Permits, Managers
<1>2. QED
  BY <1>1, NilAssumption DEF Managers, Roles

\* Tokens are never withdrawn and a running request keeps call and role.
LEMMA AuthorizedStep ==
  ASSUME TypeOK, Authorized, [Next]_vars
  PROVE  Authorized'
<1>1. ASSUME NEW u \in Users, NEW o \in Orgs,
             SelectOrganization(u, o) \/ CacheExpires(o, u)
      PROVE  Authorized'
  BY <1>1 DEF SelectOrganization, CacheExpires, Authorized
<1>2. ASSUME NEW r \in Requests, NEW c \in RegisterCalls, BeginRegister(r, c)
      PROVE  Authorized'
  <2>1. c.op = "register_organization"
    BY DEF RegisterCalls
  <2>2. QED
    BY <1>2, <2>1 DEF BeginRegister, Authorized, TypeOK
<1>3. ASSUME NEW r \in Requests, NEW c \in MemberCalls, Authorize(r, c)
      PROVE  Authorized'
  <2>1. CASE UNCHANGED <<pc, call, actor>>
    BY <1>3, <2>1, AuthorizeFrame DEF Authorized
  <2>2. CASE ~UNCHANGED <<pc, call, actor>>
    <3>1. /\ <<c.by, c.org>> \in granted
          /\ Permits(MembershipOf(c.by, c.org), c)
          /\ pc' = [pc EXCEPT ![r] = "lookup"]
          /\ call' = [call EXCEPT ![r] = c]
          /\ actor' = [actor EXCEPT ![r] = MembershipOf(c.by, c.org)]
          /\ granted' = granted
      BY <1>3, <2>2, AuthorizeFrame
    <3>2. QED
      BY <3>1 DEF Authorized, TypeOK
  <2>3. QED
    BY <2>1, <2>2
<1>4. ASSUME NEW r \in Requests, Handler(r)
      PROVE  Authorized'
  BY <1>4, HandlerFrame, HandlerCalls DEF Authorized
<1>5. CASE UNCHANGED vars
  BY <1>5 DEF Authorized, vars
<1>6. QED
  BY <1>1, <1>2, <1>3, <1>4, <1>5 DEF Next

\* An id comes into use with its first owner; nobody could be authorized
\* for it before.
LEMMA UnusedStep ==
  ASSUME TypeOK, UnusedIsEmpty, [Next]_vars
  PROVE  UnusedIsEmpty'
<1>1. ASSUME NEW u \in Users, NEW o \in Orgs,
             SelectOrganization(u, o) \/ CacheExpires(o, u)
      PROVE  UnusedIsEmpty'
  <2>1. UNCHANGED <<organization, role, pc, call>>
    BY <1>1 DEF SelectOrganization, CacheExpires, tables
  <2>2. cached' = cached \/ cached' = [cached EXCEPT ![o][u] = Nil]
    BY <1>1 DEF SelectOrganization, CacheExpires
  <2>3. \A p \in Orgs, v \in Users : cached[p][v] = Nil => cached'[p][v] = Nil
    <3>1. cached \in [Orgs -> [Users -> Roles \cup {Nil}]]
      BY DEF TypeOK
    <3>2. CASE cached' = [cached EXCEPT ![o][u] = Nil]
      BY <3>1, <3>2
    <3>3. QED
      BY <2>2, <3>2
  <2>4. QED
    BY <2>1, <2>3 DEF UnusedIsEmpty, ActsFor
<1>2. ASSUME NEW r \in Requests, NEW c \in RegisterCalls, BeginRegister(r, c)
      PROVE  UnusedIsEmpty'
  <2>1. c.op = "register_organization"
    BY DEF RegisterCalls
  <2>2. QED
    BY <1>2, <2>1 DEF BeginRegister, UnusedIsEmpty, ActsFor, tables, TypeOK
<1>3. ASSUME NEW r \in Requests, NEW c \in MemberCalls, Authorize(r, c)
      PROVE  UnusedIsEmpty'
  <2> SUFFICES ASSUME NEW o \in Orgs, organization'[o].state = "unused"
               PROVE  /\ \A u \in Users : role'[o][u] = Nil /\ cached'[o][u] = Nil
                      /\ \A q \in Requests : ~ActsFor(q, o)'
    BY DEF UnusedIsEmpty
  <2>1. /\ \A u \in Users : role[o][u] = Nil /\ cached[o][u] = Nil
        /\ \A q \in Requests : ~ActsFor(q, o)
        /\ role' = role
    BY <1>3, AuthorizeFrame DEF UnusedIsEmpty, tables
  <2> DEFINE m == MembershipOf(c.by, c.org)
  <2>2. c.by \in Users /\ c.org \in Orgs
    BY <1>3, AuthorizeFrame
  <2>3. c.org = o => m = Nil
    BY <2>1, <2>2 DEF MembershipOf
  <2>4. cached' = [cached EXCEPT ![c.org][c.by] = m]
    BY <1>3, AuthorizeFrame
  <2>5. \/ UNCHANGED <<pc, call>>
        \/ /\ m # Nil
           /\ pc' = [pc EXCEPT ![r] = "lookup"]
           /\ call' = [call EXCEPT ![r] = c]
    BY <1>3, AuthorizeFrame, PermitsManagers
  <2> HIDE DEF m
  <2>6. \A u \in Users : cached'[o][u] = Nil
    BY <2>1, <2>2, <2>3, <2>4 DEF TypeOK
  <2>7. \A q \in Requests : ~ActsFor(q, o)'
    BY <2>1, <2>3, <2>5 DEF ActsFor, TypeOK
  <2>8. QED
    BY <2>1, <2>6, <2>7
<1>4. ASSUME NEW r \in Requests, Handler(r)
      PROVE  UnusedIsEmpty'
  <2> SUFFICES ASSUME NEW o \in Orgs, organization'[o].state = "unused"
               PROVE  /\ \A u \in Users : role'[o][u] = Nil /\ cached'[o][u] = Nil
                      /\ \A q \in Requests : ~ActsFor(q, o)'
    BY DEF UnusedIsEmpty
  <2>1. organization[o].state = "unused" /\ role'[o] = role[o]
    <3>1. CASE RegisterWrite(r) \/ UpdateWrite(r)
      BY <1>4, <3>1 DEF RegisterWrite, UpdateWrite, TypeOK
    <3>2. CASE DeleteWrite(r)
      BY <1>4, <3>2 DEF DeleteWrite, TypeOK
    <3>3. CASE AddMemberWrite(r) \/ RemoveMemberWrite(r)
      <4>1. organization[o].state = "unused"
        BY <3>3 DEF AddMemberWrite, RemoveMemberWrite
      <4>2. ActsFor(r, call[r].org)
        BY <3>3 DEF AddMemberWrite, RemoveMemberWrite, At, ActsFor
      <4>3. call[r].org # o
        BY <4>1, <4>2 DEF UnusedIsEmpty
      <4>4. QED
        BY <3>3, <4>1, <4>3 DEF AddMemberWrite, RemoveMemberWrite, TypeOK
    <3>4. CASE UNCHANGED <<organization, role>>
      BY <3>4
    <3>5. QED
      BY <1>4, <3>1, <3>2, <3>3, <3>4, LookupReads
      DEF Handler, Lookup, ReadStep, tables, RequestFails, Invalidate,
          InvalidateFails, CreateProjectWrite, UpdateProjectWrite,
          DeleteProjectWrite, AddProjectMemberWrite, RemoveProjectMemberWrite
  <2>2. \A u \in Users : cached'[o][u] = Nil
    <3>1. CASE Invalidate(r)
      BY <2>1, <3>1 DEF Invalidate, UnusedIsEmpty, TypeOK
    <3>2. CASE cached' = cached
      BY <2>1, <3>2 DEF UnusedIsEmpty
    <3>3. QED
      BY <1>4, <3>1, <3>2, LookupReads
      DEF Handler, Lookup, ReadStep, RequestFails, InvalidateFails,
          RegisterWrite, UpdateWrite, DeleteWrite, AddMemberWrite,
          RemoveMemberWrite, CreateProjectWrite, UpdateProjectWrite,
          DeleteProjectWrite, AddProjectMemberWrite, RemoveProjectMemberWrite
  <2>3. \A q \in Requests : ~ActsFor(q, o)'
    BY <1>4, <2>1, HandlerCalls DEF UnusedIsEmpty, ActsFor
  <2>4. QED
    BY <2>1, <2>2, <2>3 DEF UnusedIsEmpty
<1>5. CASE UNCHANGED vars
  BY <1>5 DEF UnusedIsEmpty, ActsFor, vars, tables
<1>6. QED
  BY <1>1, <1>2, <1>3, <1>4, <1>5 DEF Next

\* Steps that leave the projects alone keep ProjectsPlaced if no request
\* gets hold of a project that way.
LEMMA PlacedFrame ==
  ASSUME ProjectsPlaced, project' = project, projectMembers' \subseteq projectMembers,
         \A q \in Requests : HoldsProject(q)' => HoldsProject(q) /\ call'[q] = call[q]
  PROVE  ProjectsPlaced'
  BY DEF ProjectsPlaced

\* A write ends its request or leaves it at "bump": none holds a project that
\* did not before.
LEMMA HoldsFrame ==
  ASSUME TypeOK, NEW r \in Requests, Handler(r), Reply(r) \/ Goto(r, "bump")
  PROVE  \A q \in Requests : HoldsProject(q)' => HoldsProject(q) /\ call'[q] = call[q]
<1>1. pc'[r] \in {"idle", "bump"}
  BY DEF Reply, Goto, TypeOK
<1>2. \A q \in Requests \ {r} : pc'[q] = pc[q] /\ call'[q] = call[q]
  BY HandlerCalls
<1>3. QED
  BY <1>1, <1>2 DEF HoldsProject

\* A request that holds its project goes on with it only by its own SELECT.
LEMMA LookupHolds ==
  ASSUME TypeOK, ProjectsPlaced, NEW r \in Requests, Lookup(r)
  PROVE  \A q \in Requests :
           HoldsProject(q)' =>
             /\ call'[q] = call[q]
             /\ project[call[q].project].org = call[q].org
<1> SUFFICES ASSUME NEW q \in Requests, HoldsProject(q)'
             PROVE  /\ call'[q] = call[q]
                    /\ project[call[q].project].org = call[q].org
  OBVIOUS
<1>1. Handler(r)
  BY DEF Handler, Lookup
<1>2. call'[q] = call[q] /\ pc[q] # "idle"
  BY <1>1, HandlerCalls DEF HoldsProject
<1>3. CASE HoldsProject(q)
  BY <1>2, <1>3 DEF ProjectsPlaced
<1>4. CASE ~HoldsProject(q)
  <2>1. q = r
    BY <1>1, <1>4, HandlerCalls DEF HoldsProject
  <2>2. CASE \/ UpdateProjectLookup(r) \/ DeleteProjectLookup(r)
             \/ AddProjectMemberProject(r) \/ RemoveProjectMemberProject(r)
    <3>1. OwnProject(call[r]) \/ Reply(r)
      BY <2>2 DEF UpdateProjectLookup, DeleteProjectLookup, Check,
                  AddProjectMemberProject, RemoveProjectMemberProject
    <3>2. ~Reply(r)
      BY <2>1 DEF Reply, HoldsProject, TypeOK
    <3>3. QED
      BY <1>2, <2>1, <3>1, <3>2 DEF OwnProject
  <2>3. CASE \/ UpdateProjectName(r) \/ AddProjectMemberAlready(r)
             \/ RemoveProjectMemberAlready(r)
    BY <1>4, <2>1, <2>3
    DEF UpdateProjectName, AddProjectMemberAlready, RemoveProjectMemberAlready,
        Check, At, HoldsProject
  <2>4. CASE AddProjectMemberLookup(r) \/ RemoveProjectMemberLookup(r)
    BY <1>2, <2>1, <2>4
    DEF AddProjectMemberLookup, RemoveProjectMemberLookup, Check, At, Goto,
        Reply, HoldsProject, TypeOK
  <2>5. CASE \/ RegisterLookup(r) \/ UpdateLookup(r) \/ DeleteLookup(r)
             \/ AddMemberLookup(r) \/ RemoveMemberLookup(r)
             \/ CreateProjectLookup(r)
    BY <1>2, <2>1, <2>5
    DEF RegisterLookup, UpdateLookup, DeleteLookup, AddMemberLookup, Check, At,
        RemoveMemberLookup, CreateProjectLookup, HoldsProject
  <2>6. QED
    BY <2>2, <2>3, <2>4, <2>5 DEF Lookup
<1>5. QED
  BY <1>3, <1>4

\* Projects keep their organization, and a handler holds a project only
\* after the SELECT that found it in its own organization.
LEMMA PlacedStep ==
  ASSUME TypeOK, ProjectsPlaced, [Next]_vars
  PROVE  ProjectsPlaced'
<1>1. ASSUME NEW u \in Users, NEW o \in Orgs,
             SelectOrganization(u, o) \/ CacheExpires(o, u)
      PROVE  ProjectsPlaced'
  BY <1>1 DEF SelectOrganization, CacheExpires, ProjectsPlaced, HoldsProject,
              tables
<1>2. ASSUME NEW r \in Requests, NEW c \in RegisterCalls, BeginRegister(r, c)
      PROVE  ProjectsPlaced'
  <2>1. UNCHANGED <<project, projectMembers>>
    BY <1>2 DEF BeginRegister, tables
  <2>2. \A q \in Requests : HoldsProject(q)' => HoldsProject(q) /\ call'[q] = call[q]
    BY <1>2 DEF BeginRegister, HoldsProject, TypeOK
  <2>3. QED
    BY <2>1, <2>2, PlacedFrame
<1>3. ASSUME NEW r \in Requests, NEW c \in MemberCalls, Authorize(r, c)
      PROVE  ProjectsPlaced'
  <2>1. UNCHANGED <<project, projectMembers>>
    BY <1>3, AuthorizeFrame DEF tables
  <2>2. \/ UNCHANGED <<pc, call>>
        \/ /\ pc' = [pc EXCEPT ![r] = "lookup"]
           /\ call' = [call EXCEPT ![r] = c]
    BY <1>3, AuthorizeFrame
  <2>3. \A q \in Requests : HoldsProject(q)' => HoldsProject(q) /\ call'[q] = call[q]
    BY <2>2 DEF HoldsProject, TypeOK
  <2>4. QED
    BY <2>1, <2>3, PlacedFrame
<1>4. ASSUME NEW r \in Requests, Lookup(r)
      PROVE  ProjectsPlaced'
  <2>1. UNCHANGED <<project, projectMembers>>
    BY <1>4, LookupReads DEF ReadStep, tables
  <2>2. QED
    BY <1>4, <2>1, LookupHolds DEF ProjectsPlaced
<1>5. ASSUME NEW r \in Requests, Handler(r), ~Lookup(r)
      PROVE  ProjectsPlaced'
  <2>1. Reply(r) \/ Goto(r, "bump")
    BY <1>5 DEF Handler, Lookup, RequestFails, Invalidate,
       InvalidateFails, RegisterWrite, UpdateWrite, DeleteWrite, AddMemberWrite,
       RemoveMemberWrite, CreateProjectWrite, UpdateProjectWrite,
       DeleteProjectWrite, AddProjectMemberWrite, RemoveProjectMemberWrite
  <2>2. \A q \in Requests : HoldsProject(q)' => HoldsProject(q) /\ call'[q] = call[q]
    BY <1>5, <2>1, HoldsFrame
  <2>3. CASE CreateProjectWrite(r)
    <3>1. call[r].org \in Orgs /\ call[r].org # Nil
      BY <2>3, RunningCall, CallFields, NilAssumption DEF CreateProjectWrite, At
    <3>2. PICK p \in Projects :
            /\ project[p].state = "unused"
            /\ project' = [project EXCEPT ![p] =
                 [state |-> "live", org |-> call[r].org, name |-> call[r].name]]
      BY <2>3 DEF CreateProjectWrite
    <3>3. /\ project'[p].state = "live" /\ project'[p].org = call[r].org
          /\ \A q \in Projects \ {p} : project'[q] = project[q]
          /\ project[p].org = Nil
      BY <3>2 DEF TypeOK, ProjectsPlaced
    <3>4. projectMembers' = projectMembers
      BY <2>3 DEF CreateProjectWrite
    <3>5. \A m \in projectMembers : m[2] \in Projects
      BY DEF TypeOK
    <3>6. \A q \in Requests : HoldsProject(q) => call[q].project \in Projects
                                                 /\ call[q].org \in Orgs
      BY RunningCall, CallFields DEF HoldsProject
    <3>7. QED
      BY <2>2, <3>1, <3>3, <3>4, <3>5, <3>6, NilAssumption DEF ProjectsPlaced
  <2>4. CASE /\ \A p \in Projects :
                  /\ project'[p].org = project[p].org
                  /\ project'[p].state = "unused" <=> project[p].state = "unused"
             /\ \A m \in projectMembers' : m[2] \in Projects
                                           /\ project[m[2]].org # Nil
    <3>1. \A q \in Requests : HoldsProject(q) => call[q].project \in Projects
      BY RunningCall, CallFields DEF HoldsProject
    <3>2. QED
      BY <2>2, <2>4, <3>1 DEF ProjectsPlaced
  <2>5. \A m \in projectMembers : m[2] \in Projects /\ project[m[2]].org # Nil
    BY DEF TypeOK, ProjectsPlaced
  <2>6. CASE DeleteWrite(r)
    <3> DEFINE o == call[r].org
    <3>1. o \in Orgs /\ o # Nil
      BY <2>6, RunningCall, CallFields, NilAssumption DEF DeleteWrite, At
    <3>2. /\ project' = [p \in Projects |->
                           IF p \in ProjectsOf(o)
                             THEN [project[p] EXCEPT !.state = "deleted"]
                             ELSE project[p]]
          /\ projectMembers' \subseteq projectMembers
      BY <2>6 DEF DeleteWrite
    <3>3. ASSUME NEW p \in Projects
          PROVE  /\ project'[p].org = project[p].org
                 /\ project'[p].state = "unused" <=> project[p].state = "unused"
      BY <3>1, <3>2 DEF TypeOK, ProjectsOf, ProjectsPlaced
    <3>4. QED
      BY <2>4, <2>5, <3>2, <3>3
  <2>7. CASE UpdateProjectWrite(r) \/ DeleteProjectWrite(r)
    <3> DEFINE p == call[r].project
    <3>1. p \in Projects /\ project[p].org # Nil /\ project[p].state # "unused"
      <4>1. HoldsProject(r)
        BY <2>7 DEF UpdateProjectWrite, DeleteProjectWrite, At, HoldsProject
      <4>2. call[r].org # Nil /\ p \in Projects
        BY <2>7, RunningCall, CallFields, NilAssumption
        DEF UpdateProjectWrite, DeleteProjectWrite, At
      <4>3. QED
        BY <4>1, <4>2 DEF ProjectsPlaced
    <3>2. \/ project' = [project EXCEPT ![p].name = call[r].name]
          \/ project' = [project EXCEPT ![p].state = "deleted"]
      BY <2>7 DEF UpdateProjectWrite, DeleteProjectWrite
    <3>3. ASSUME NEW q \in Projects
          PROVE  /\ project'[q].org = project[q].org
                 /\ project'[q].state = "unused" <=> project[q].state = "unused"
      BY <3>1, <3>2 DEF TypeOK
    <3>4. projectMembers' \subseteq projectMembers
      BY <2>7 DEF UpdateProjectWrite, DeleteProjectWrite
    <3>5. QED
      BY <2>4, <2>5, <3>3, <3>4
  <2>8. CASE AddProjectMemberWrite(r)
    <3>1. call[r].project \in Projects /\ call[r].org # Nil
      BY <2>8, RunningCall, CallFields, NilAssumption
      DEF AddProjectMemberWrite, At
    <3>2. project[call[r].project].org # Nil
      BY <2>8, <3>1 DEF AddProjectMemberWrite, At, HoldsProject, ProjectsPlaced
    <3>3. QED
      BY <2>4, <2>5, <2>8, <3>1, <3>2 DEF AddProjectMemberWrite
  <2>9. CASE project' = project /\ projectMembers' \subseteq projectMembers
    BY <2>2, <2>9, PlacedFrame
  <2>10. QED
    BY <1>5, <2>3, <2>6, <2>7, <2>8, <2>9
    DEF Handler, Lookup, RequestFails, Invalidate, InvalidateFails, tables,
        RegisterWrite, UpdateWrite, AddMemberWrite, RemoveMemberWrite,
        RemoveProjectMemberWrite
<1>6. CASE UNCHANGED vars
  BY <1>6 DEF ProjectsPlaced, HoldsProject, vars, tables
<1>7. QED
  BY <1>1, <1>2, <1>3, <1>4, <1>5, <1>6 DEF Next

\* An entry that has just been filled, kept or dropped is no more outdated
\* than before; a role changes only on the way to "bump".
LEMMA CacheStep ==
  ASSUME TypeOK, UnusedIsEmpty, CachedRoleIsCurrent, [Next]_vars
  PROVE  CachedRoleIsCurrent'
<1> SUFFICES ASSUME ~RedisMayFail, NEW o \in Orgs, NEW u \in Users,
                    cached'[o][u] \notin {Nil, role'[o][u]}
             PROVE  Bumping(o)'
  BY DEF CachedRoleIsCurrent
<1>0. cached[o][u] \notin {Nil, role[o][u]} => Bumping(o)
  BY DEF CachedRoleIsCurrent
<1>1. ASSUME NEW v \in Users, NEW p \in Orgs, SelectOrganization(v, p)
      PROVE  Bumping(o)'
  BY <1>0, <1>1 DEF SelectOrganization, Bumping, tables
<1>2. ASSUME NEW v \in Users, NEW p \in Orgs, CacheExpires(p, v)
      PROVE  Bumping(o)'
  <2>1. cached'[o][u] = cached[o][u]
    <3>1. cached \in [Orgs -> [Users -> Roles \cup {Nil}]]
      BY DEF TypeOK
    <3>2. cached' = [cached EXCEPT ![p][v] = Nil]
      BY <1>2 DEF CacheExpires
    <3>3. QED
      BY <3>1, <3>2
  <2>2. QED
    BY <1>0, <1>2, <2>1 DEF CacheExpires, Bumping, tables
<1>3. ASSUME NEW r \in Requests, NEW c \in RegisterCalls, BeginRegister(r, c)
      PROVE  Bumping(o)'
  BY <1>0, <1>3 DEF BeginRegister, Bumping, tables, TypeOK
<1>4. ASSUME NEW r \in Requests, NEW c \in MemberCalls, Authorize(r, c)
      PROVE  Bumping(o)'
  <2> DEFINE m == MembershipOf(c.by, c.org)
  <2>1. /\ c.by \in Users /\ c.org \in Orgs /\ pc[r] = "idle" /\ role' = role
        /\ cached' = [cached EXCEPT ![c.org][c.by] = m]
    BY <1>4, AuthorizeFrame DEF tables
  <2>2. cached'[o][u] = IF o = c.org /\ u = c.by THEN m ELSE cached[o][u]
    <3> HIDE DEF m
    <3>1. cached \in [Orgs -> [Users -> Roles \cup {Nil}]]
      BY DEF TypeOK
    <3>2. QED
      BY <2>1, <3>1
  <2>3. cached[o][u] \notin {Nil, role[o][u]}
    BY <2>1, <2>2 DEF MembershipOf
  <2>4. \A q \in Requests \ {r} : pc'[q] = pc[q] /\ call'[q] = call[q]
    <3>1. \/ UNCHANGED <<pc, call>>
          \/ /\ pc' = [pc EXCEPT ![r] = "lookup"]
             /\ call' = [call EXCEPT ![r] = c]
      BY <1>4, AuthorizeFrame
    <3>2. QED
      BY <3>1 DEF TypeOK
  <2>5. QED
    BY <1>0, <2>1, <2>3, <2>4 DEF Bumping
<1>5. ASSUME NEW r \in Requests, Handler(r)
      PROVE  Bumping(o)'
  <2>1. \A q \in Requests \ {r} : pc'[q] = pc[q] /\ call'[q] = call[q]
    BY <1>5, HandlerCalls
  <2>2. CASE \/ DeleteWrite(r) /\ call[r].org = o
             \/ AddMemberWrite(r) /\ call[r].org = o
             \/ RemoveMemberWrite(r) /\ call[r].org = o
    BY <2>2 DEF DeleteWrite, AddMemberWrite, RemoveMemberWrite, Goto, Bumping,
                TypeOK
  <2>3. CASE Invalidate(r) /\ call[r].org = o
    BY <2>3 DEF Invalidate, TypeOK
  <2>4. CASE RegisterWrite(r)
    <3>1. PICK p \in Orgs : /\ organization[p].state = "unused"
                            /\ role' = [role EXCEPT ![p][call[r].by] = "owner"]
                            /\ cached' = cached
      BY <2>4 DEF RegisterWrite
    <3>2. p # o
      BY <3>1 DEF UnusedIsEmpty
    <3>3. role'[o] = role[o] /\ pc[r] = "write"
      BY <2>4, <3>1, <3>2 DEF TypeOK, RegisterWrite, At
    <3>4. QED
      BY <1>0, <2>1, <3>1, <3>3 DEF Bumping
  <2>5. CASE /\ cached'[o] = cached[o] /\ role'[o] = role[o]
             /\ pc[r] # "bump" \/ call[r].org # o
    BY <1>0, <2>1, <2>5 DEF Bumping
  <2>6. CASE Invalidate(r) /\ call[r].org # o
    <3>1. cached'[o] = cached[o] /\ role'[o] = role[o]
      BY <2>6 DEF Invalidate, TypeOK, tables
    <3>2. QED
      BY <2>5, <2>6, <3>1
  <2>7. CASE \/ DeleteWrite(r) /\ call[r].org # o
             \/ AddMemberWrite(r) /\ call[r].org # o
             \/ RemoveMemberWrite(r) /\ call[r].org # o
    <3>1. cached'[o] = cached[o] /\ role'[o] = role[o]
      BY <2>7 DEF DeleteWrite, AddMemberWrite, RemoveMemberWrite, TypeOK
    <3>2. QED
      BY <2>5, <2>7, <3>1
  <2>8. CASE Lookup(r) \/ RequestFails(r)
    BY <2>5, <2>8, LookupReads DEF ReadStep, RequestFails, tables
  <2>9. CASE \/ UpdateWrite(r) \/ CreateProjectWrite(r) \/ UpdateProjectWrite(r)
             \/ DeleteProjectWrite(r) \/ AddProjectMemberWrite(r)
             \/ RemoveProjectMemberWrite(r)
    BY <2>5, <2>9 DEF UpdateWrite, CreateProjectWrite, UpdateProjectWrite,
         DeleteProjectWrite, AddProjectMemberWrite, RemoveProjectMemberWrite, At
  <2>10. CASE InvalidateFails(r)
    BY <2>10 DEF InvalidateFails
  <2>11. QED
    BY <1>5, <2>2, <2>3, <2>4, <2>6, <2>7, <2>8, <2>9, <2>10
    DEF Handler, Lookup
<1>6. CASE UNCHANGED vars
  BY <1>0, <1>6 DEF Bumping, vars, tables
<1>7. QED
  BY <1>1, <1>2, <1>3, <1>4, <1>5, <1>6 DEF Next

\* The constraint decides at the write; between writes a project changes
\* neither its name nor its organization.
LEMMA NamesStep ==
  ASSUME TypeOK, ProjectsPlaced, ProjectNamesUnique, [Next]_vars
  PROVE  ProjectNamesUnique'
<1>1. CASE project' = project
  BY <1>1 DEF ProjectNamesUnique
<1>2. ASSUME NEW r \in Requests, CreateProjectWrite(r)
      PROVE  ProjectNamesUnique'
  <2>1. PICK p \in Projects :
          /\ NameFree(call[r].org, call[r].name, p)
          /\ project' = [project EXCEPT ![p] =
               [state |-> "live", org |-> call[r].org, name |-> call[r].name]]
    BY <1>2 DEF CreateProjectWrite
  <2>2. /\ project'[p].org = call[r].org /\ project'[p].name = call[r].name
        /\ \A q \in Projects \ {p} : project'[q] = project[q]
    BY <2>1 DEF TypeOK
  <2>3. QED
    BY <2>1, <2>2 DEF ProjectNamesUnique, NameFree, ProjectsOf
<1>3. ASSUME NEW r \in Requests, UpdateProjectWrite(r)
      PROVE  ProjectNamesUnique'
  <2> DEFINE p == call[r].project
  <2>1. p \in Projects /\ project[p].org = call[r].org
    BY <1>3, RunningCall, CallFields
    DEF UpdateProjectWrite, At, HoldsProject, ProjectsPlaced
  <2>2. /\ NameFree(call[r].org, call[r].name, p)
        /\ project' = [project EXCEPT ![p].name = call[r].name]
    BY <1>3 DEF UpdateProjectWrite
  <2>3. /\ project'[p].org = call[r].org /\ project'[p].name = call[r].name
        /\ \A q \in Projects \ {p} : project'[q] = project[q]
    BY <2>1, <2>2 DEF TypeOK
  <2>4. QED
    BY <2>2, <2>3 DEF ProjectNamesUnique, NameFree, ProjectsOf
<1>4. ASSUME \A p \in Projects :
               /\ project'[p].org = project[p].org
               /\ project'[p].name = project[p].name
               /\ project'[p].state = "unused" => project[p].state = "unused",
             \A p \in Projects :
               project[p].state = "unused" => project'[p].state = "unused"
      PROVE  ProjectNamesUnique'
  BY <1>4 DEF ProjectNamesUnique
<1>5. ASSUME NEW r \in Requests, DeleteWrite(r)
      PROVE  ProjectNamesUnique'
  <2> DEFINE o == call[r].org
  <2>1. o \in Orgs /\ o # Nil
    BY <1>5, RunningCall, CallFields, NilAssumption DEF DeleteWrite, At
  <2>2. project' = [p \in Projects |->
                      IF p \in ProjectsOf(o)
                        THEN [project[p] EXCEPT !.state = "deleted"]
                        ELSE project[p]]
    BY <1>5 DEF DeleteWrite
  <2>3. ASSUME NEW p \in Projects
        PROVE  /\ project'[p].org = project[p].org
               /\ project'[p].name = project[p].name
               /\ project'[p].state = "unused" <=> project[p].state = "unused"
    BY <2>1, <2>2 DEF TypeOK, ProjectsOf, ProjectsPlaced
  <2>4. QED
    BY <1>4, <2>3
<1>6. ASSUME NEW r \in Requests, DeleteProjectWrite(r)
      PROVE  ProjectNamesUnique'
  <2> DEFINE p == call[r].project
  <2>1. p \in Projects /\ project[p].state # "unused"
    BY <1>6, RunningCall, CallFields, NilAssumption
    DEF DeleteProjectWrite, At, HoldsProject, ProjectsPlaced
  <2>2. project' = [project EXCEPT ![p].state = "deleted"]
    BY <1>6 DEF DeleteProjectWrite
  <2>3. ASSUME NEW q \in Projects
        PROVE  /\ project'[q].org = project[q].org
               /\ project'[q].name = project[q].name
               /\ project'[q].state = "unused" <=> project[q].state = "unused"
    BY <2>1, <2>2 DEF TypeOK
  <2>4. QED
    BY <1>4, <2>3
<1>7. QED
  BY <1>1, <1>2, <1>3, <1>5, <1>6, LookupReads
  DEF Next, Handler, Lookup, ReadStep, vars, tables, SelectOrganization,
      CacheExpires, BeginRegister, Authorize, RequestFails, Invalidate,
      InvalidateFails, RegisterWrite, UpdateWrite, AddMemberWrite,
      RemoveMemberWrite, AddProjectMemberWrite, RemoveProjectMemberWrite

\* The invariant is inductive.
THEOREM Inductive == Spec => []IInv
<1>1. Init => IInv
  BY DEF Init, IInv, TypeOK, NoOrg, NoProject, Labels, Authorized, ActsFor,
         UnusedIsEmpty, ProjectsPlaced, HoldsProject, CachedRoleIsCurrent,
         ProjectNamesUnique
<1>2. IInv /\ [Next]_vars => IInv'
  BY TypingStep, AuthorizedStep, UnusedStep, PlacedStep, CacheStep, NamesStep
  DEF IInv
<1>3. QED
  BY <1>1, <1>2, PTL DEF Spec

-----------------------------------------------------------------------------
(* What follows.                                                           *)

\* CachedRoleIsCurrent for every instance: as long as Redis does not fail, a
\* request is authorized with an outdated role only while the change that
\* outdated it has not replied.
THEOREM CacheCurrent == Spec => []CachedRoleIsCurrent
  BY Inductive, PTL DEF IInv

\* ProjectNamesUnique for every instance: concurrent creates, renames and
\* deletions never leave two projects of an organization with one name.
THEOREM NamesUnique == Spec => []ProjectNamesUnique
  BY Inductive, PTL DEF IInv

\* A write that does not create an organization changes the rows of the writer's
\* own; one that does changes no rows that were there.
LEMMA WriteIsolated ==
  ASSUME IInv, NEW r \in Requests, Handler(r), NEW o \in Orgs,
         RegisterWrite(r) \/ UpdateWrite(r) => organization[o].state # "unused",
         OrgRows(o)' # OrgRows(o)
  PROVE  /\ pc[r] = "write"
         /\ call[r].op # "register_organization"
         /\ call[r].org = o
<1> USE DEF IInv
<1>1. SUFFICES ASSUME ~(/\ pc[r] = "write"
                        /\ call[r].op # "register_organization"
                        /\ call[r].org = o)
               PROVE  OrgRows(o)' = OrgRows(o)
  OBVIOUS
<1>2. \A m \in projectMembers : m[2] \in Projects
  BY DEF TypeOK
<1>3. CASE UNCHANGED tables
  BY <1>3 DEF tables, OrgRows, ProjectsOf
<1>4. ASSUME organization'[o] = organization[o], role'[o] = role[o],
             UNCHANGED <<project, projectMembers>>
      PROVE  OrgRows(o)' = OrgRows(o)
  BY <1>4 DEF OrgRows, ProjectsOf
<1>5. ASSUME organization'[o] = organization[o], role'[o] = role[o],
             \A p \in Projects :
               project[p].org = o \/ project'[p].org = o => project'[p] = project[p],
             \A u, p : p \in ProjectsOf(o) =>
               (<<u, p>> \in projectMembers' <=> <<u, p>> \in projectMembers),
             projectMembers \subseteq Users \X Projects,
             projectMembers' \subseteq Users \X Projects
      PROVE  OrgRows(o)' = OrgRows(o)
  <2>1. ProjectsOf(o)' = ProjectsOf(o)
    BY <1>5 DEF ProjectsOf
  <2>2. {<<p, project[p]>> : p \in ProjectsOf(o)}'
          = {<<p, project[p]>> : p \in ProjectsOf(o)}
    BY <1>5, <2>1 DEF ProjectsOf
  <2>3. {m \in projectMembers : m[2] \in ProjectsOf(o)}'
          = {m \in projectMembers : m[2] \in ProjectsOf(o)}
    BY <1>5, <2>1
  <2>4. QED
    BY <1>5, <2>2, <2>3 DEF OrgRows
<1>6. CASE RegisterWrite(r) \/ UpdateWrite(r)
  BY <1>4, <1>6 DEF RegisterWrite, UpdateWrite, TypeOK
<1>7. CASE AddMemberWrite(r)
  BY <1>1, <1>4, <1>7 DEF AddMemberWrite, At, TypeOK
<1>8. ASSUME NEW c \in Orgs, c # o, RemoveMemberWrite(r) \/ DeleteWrite(r),
             c = call[r].org
      PROVE  OrgRows(o)' = OrgRows(o)
  <2>1. organization'[o] = organization[o] /\ role'[o] = role[o]
    BY <1>8 DEF RemoveMemberWrite, DeleteWrite, TypeOK
  <2>2. \A p \in Projects :
          /\ project'[p].org = project[p].org
          /\ project[p].org # c => project'[p] = project[p]
    BY <1>8 DEF RemoveMemberWrite, DeleteWrite, ProjectsOf, TypeOK
  <2>3. \A u, p : p \in ProjectsOf(o) =>
          (<<u, p>> \in projectMembers' <=> <<u, p>> \in projectMembers)
    BY <1>8 DEF RemoveMemberWrite, DeleteWrite, ProjectsOf
  <2>4. /\ projectMembers \subseteq Users \X Projects
        /\ projectMembers' \subseteq Users \X Projects
    BY <1>8 DEF RemoveMemberWrite, DeleteWrite, TypeOK
  <2>5. QED
    BY <1>5, <1>8, <2>1, <2>2, <2>3, <2>4
<1>9. CASE RemoveMemberWrite(r) \/ DeleteWrite(r)
  BY <1>1, <1>8, <1>9, RunningCall, CallFields
  DEF RemoveMemberWrite, DeleteWrite, At
<1>10. CASE CreateProjectWrite(r)
  <2>1. call[r].org # o
    BY <1>1, <1>10 DEF CreateProjectWrite, At
  <2>2. PICK p \in Projects :
          /\ project[p].state = "unused"
          /\ project' = [project EXCEPT ![p] =
               [state |-> "live", org |-> call[r].org, name |-> call[r].name]]
    BY <1>10 DEF CreateProjectWrite
  <2>3. project[p].org # o
    BY <2>2, NilAssumption DEF ProjectsPlaced
  <2>4. \A q \in Projects :
          project[q].org = o \/ project'[q].org = o => project'[q] = project[q]
    BY <2>1, <2>2, <2>3 DEF TypeOK
  <2>5. UNCHANGED <<organization, role, projectMembers>>
    BY <1>10 DEF CreateProjectWrite
  <2>6. QED
    BY <1>5, <2>4, <2>5 DEF TypeOK
<1>11. CASE UpdateProjectWrite(r) \/ DeleteProjectWrite(r)
  <2> DEFINE p == call[r].project
  <2>1. p \in Projects /\ project[p].org = call[r].org /\ call[r].org # o
    BY <1>1, <1>11, RunningCall, CallFields
    DEF UpdateProjectWrite, DeleteProjectWrite, At, HoldsProject, ProjectsPlaced
  <2>2. \/ project' = [project EXCEPT ![p].name = call[r].name]
        \/ project' = [project EXCEPT ![p].state = "deleted"]
    BY <1>11 DEF UpdateProjectWrite, DeleteProjectWrite
  <2>3. \A q \in Projects :
          /\ project'[q].org = project[q].org
          /\ q # p => project'[q] = project[q]
    BY <2>1, <2>2 DEF TypeOK
  <2>4. /\ UNCHANGED <<organization, role>>
        /\ \/ projectMembers' = projectMembers
           \/ projectMembers' = {m \in projectMembers : m[2] # p}
    BY <1>11 DEF UpdateProjectWrite, DeleteProjectWrite
  <2>5. p \notin ProjectsOf(o)
    BY <2>1 DEF ProjectsOf
  <2>6. QED
    BY <1>5, <2>1, <2>3, <2>4, <2>5 DEF TypeOK
<1>12. CASE AddProjectMemberWrite(r) \/ RemoveProjectMemberWrite(r)
  <2> DEFINE p == call[r].project
  <2>1. /\ p \in Projects /\ call[r].user \in Users
        /\ project[p].org = call[r].org /\ call[r].org # o
    BY <1>1, <1>12, RunningCall, CallFields
    DEF AddProjectMemberWrite, RemoveProjectMemberWrite, At, HoldsProject,
        ProjectsPlaced
  <2>2. p \notin ProjectsOf(o)
    BY <2>1 DEF ProjectsOf
  <2>3. /\ UNCHANGED <<organization, role, project>>
        /\ \/ projectMembers' = projectMembers \cup {<<call[r].user, p>>}
           \/ projectMembers' = projectMembers \ {<<call[r].user, p>>}
    BY <1>12 DEF AddProjectMemberWrite, RemoveProjectMemberWrite
  <2>4. QED
    BY <1>5, <2>1, <2>2, <2>3 DEF TypeOK
<1>13. QED
  BY <1>3, <1>6, <1>7, <1>9, <1>10, <1>11, <1>12, LookupReads
  DEF Handler, Lookup, ReadStep, RequestFails, Invalidate, InvalidateFails,
      tables

\* Only handlers touch the tables.
LEMMA OnlyHandlersWrite ==
  ASSUME [Next]_vars, NEW o \in Orgs, OrgRows(o)' # OrgRows(o)
  PROVE  \E r \in Requests : Handler(r)
<1>1. UNCHANGED tables => OrgRows(o)' = OrgRows(o)
  BY DEF tables, OrgRows, ProjectsOf
<1>2. QED
  BY <1>1 DEF Next, SelectOrganization, CacheExpires, BeginRegister, Authorize,
              vars

\* TenantIsolation for every instance: however requests of different tenants
\* interleave, each one writes only in the organization its token is for.
THEOREM Isolation == Spec => TenantIsolation
<1> DEFINE Isolated ==
      \A o \in Orgs :
        organization[o].state # "unused" /\ OrgRows(o)' # OrgRows(o) =>
          \E r \in Requests :
            /\ pc[r] = "write" /\ pc'[r] # "write"
            /\ call[r].op # "register_organization" /\ call[r].org = o
            /\ <<call[r].by, o>> \in granted
            /\ actor[r] \in Managers
<1>1. IInv /\ [Next]_vars => [Isolated]_vars
  <2> SUFFICES ASSUME IInv, [Next]_vars, NEW o \in Orgs,
                      organization[o].state # "unused",
                      OrgRows(o)' # OrgRows(o)
               PROVE  \E r \in Requests :
                        /\ pc[r] = "write" /\ pc'[r] # "write"
                        /\ call[r].op # "register_organization"
                        /\ call[r].org = o
                        /\ <<call[r].by, o>> \in granted
                        /\ actor[r] \in Managers
    OBVIOUS
  <2>1. PICK r \in Requests : Handler(r)
    BY OnlyHandlersWrite
  <2>2. /\ pc[r] = "write" /\ call[r].op # "register_organization"
        /\ call[r].org = o
    BY <2>1, WriteIsolated
  <2>3. <<call[r].by, o>> \in granted /\ actor[r] \in Managers
    <3>1. call[r] \in MemberCalls
      BY <2>2, RunningCall, CallFields DEF IInv
    <3>2. <<call[r].by, o>> \in granted /\ Permits(actor[r], call[r])
      BY <2>2 DEF IInv, Authorized
    <3>3. QED
      BY <3>1, <3>2, PermitsManagers
  <2>4. pc'[r] # "write"
    <3>1. Reply(r) \/ Goto(r, "bump")
      BY <2>1, <2>2, LookupReads
      DEF Handler, Lookup, ReadStep, RequestFails, Invalidate, InvalidateFails,
          RegisterWrite, UpdateWrite, DeleteWrite, AddMemberWrite,
          RemoveMemberWrite, CreateProjectWrite, UpdateProjectWrite,
          DeleteProjectWrite, AddProjectMemberWrite, RemoveProjectMemberWrite
    <3>2. QED
      BY <3>1 DEF Reply, Goto, IInv, TypeOK
  <2>5. QED
    BY <2>2, <2>3, <2>4
<1>2. QED
  BY <1>1, Inductive, PTL DEF Spec, TenantIsolation

\* Nobody's rows change in a sealed organization: no request acts for it.
LEMMA SealedRows ==
  ASSUME IInv, [Next]_vars, NEW o \in Orgs, Sealed(o)
  PROVE  OrgRows(o)' = OrgRows(o)
<1>1. SUFFICES ASSUME OrgRows(o)' # OrgRows(o) PROVE FALSE
  OBVIOUS
<1>2. PICK r \in Requests : Handler(r)
  BY <1>1, OnlyHandlersWrite
<1>3. /\ pc[r] = "write" /\ call[r].op # "register_organization"
      /\ call[r].org = o
  BY <1>1, <1>2, WriteIsolated DEF Sealed
<1>4. QED
  BY <1>3 DEF Sealed

\* And nobody gets in again: get_membership finds neither entry nor row.
LEMMA SealedStays ==
  ASSUME IInv, [Next]_vars, NEW o \in Orgs, Sealed(o)
  PROVE  Sealed(o)'
<1>0. TypeOK
  BY DEF IInv
<1>1. organization'[o] = organization[o] /\ role'[o] = role[o]
  BY SealedRows DEF OrgRows
<1>2. SUFFICES /\ \A u \in Users : cached'[o][u] = Nil
               /\ \A q \in Requests : ~ActsFor(q, o)'
  BY <1>1 DEF Sealed, ActsFor
<1>3. /\ \A u \in Users : role[o][u] = Nil /\ cached[o][u] = Nil
      /\ \A q \in Requests : ~ActsFor(q, o)
  BY DEF Sealed, ActsFor
<1>4. ASSUME NEW u \in Users, NEW p \in Orgs,
             SelectOrganization(u, p) \/ CacheExpires(p, u)
      PROVE  /\ \A v \in Users : cached'[o][v] = Nil
             /\ \A q \in Requests : ~ActsFor(q, o)'
  <2>1. cached' = cached \/ cached' = [cached EXCEPT ![p][u] = Nil]
    BY <1>4 DEF SelectOrganization, CacheExpires
  <2>2. cached \in [Orgs -> [Users -> Roles \cup {Nil}]]
    BY <1>0 DEF TypeOK
  <2>3. \A v \in Users : cached'[o][v] = Nil
    <3>1. CASE cached' = [cached EXCEPT ![p][u] = Nil]
      BY <1>3, <2>2, <3>1
    <3>2. QED
      BY <1>3, <2>1, <3>1
  <2>4. UNCHANGED <<pc, call>>
    BY <1>4 DEF SelectOrganization, CacheExpires
  <2>5. QED
    BY <1>3, <2>3, <2>4 DEF ActsFor
<1>5. ASSUME NEW r \in Requests, NEW c \in RegisterCalls, BeginRegister(r, c)
      PROVE  /\ \A v \in Users : cached'[o][v] = Nil
             /\ \A q \in Requests : ~ActsFor(q, o)'
  <2>1. c.op = "register_organization"
    BY DEF RegisterCalls
  <2>2. QED
    BY <1>0, <1>3, <1>5, <2>1 DEF BeginRegister, ActsFor, TypeOK
<1>6. ASSUME NEW r \in Requests, NEW c \in MemberCalls, Authorize(r, c)
      PROVE  /\ \A v \in Users : cached'[o][v] = Nil
             /\ \A q \in Requests : ~ActsFor(q, o)'
  <2> DEFINE m == MembershipOf(c.by, c.org)
  <2>1. c.by \in Users /\ c.org \in Orgs
    BY <1>0, <1>6, AuthorizeFrame
  <2>2. c.org = o => m = Nil
    BY <1>3, <2>1 DEF MembershipOf
  <2>3. cached' = [cached EXCEPT ![c.org][c.by] = m]
    BY <1>0, <1>6, AuthorizeFrame
  <2>4. \/ UNCHANGED <<pc, call>>
        \/ /\ m # Nil
           /\ pc' = [pc EXCEPT ![r] = "lookup"]
           /\ call' = [call EXCEPT ![r] = c]
    BY <1>0, <1>6, AuthorizeFrame, PermitsManagers
  <2> HIDE DEF m
  <2>5. \A v \in Users : cached'[o][v] = Nil
    BY <1>0, <1>3, <2>1, <2>2, <2>3 DEF TypeOK
  <2>6. \A q \in Requests : ~ActsFor(q, o)'
    BY <1>0, <1>3, <2>2, <2>4 DEF ActsFor, TypeOK
  <2>7. QED
    BY <2>5, <2>6
<1>7. ASSUME NEW r \in Requests, Handler(r)
      PROVE  /\ \A v \in Users : cached'[o][v] = Nil
             /\ \A q \in Requests : ~ActsFor(q, o)'
  <2>1. \A q \in Requests : ~ActsFor(q, o)'
    BY <1>0, <1>3, <1>7, HandlerCalls DEF ActsFor
  <2>2. CASE Invalidate(r)
    BY <1>0, <1>3, <2>1, <2>2 DEF Invalidate, TypeOK
  <2>3. CASE cached' = cached
    BY <1>3, <2>1, <2>3
  <2>4. QED
    BY <1>7, <2>2, <2>3, LookupReads
    DEF Handler, Lookup, ReadStep, RequestFails, InvalidateFails,
        RegisterWrite, UpdateWrite, DeleteWrite, AddMemberWrite,
        RemoveMemberWrite, CreateProjectWrite, UpdateProjectWrite,
        DeleteProjectWrite, AddProjectMemberWrite, RemoveProjectMemberWrite
<1>8. CASE UNCHANGED vars
  BY <1>3, <1>8 DEF ActsFor, vars
<1>9. QED
  BY <1>4, <1>5, <1>6, <1>7, <1>8 DEF Next

\* DeletionIsFinal for every instance: a deleted organization that has been
\* left by its members, its cache entries and its requests never changes
\* again, whatever tokens for it are still about.
THEOREM Finality == Spec => DeletionIsFinal
<1>1. IInv /\ [Next]_vars =>
        [\A o \in Orgs : Sealed(o) => Sealed(o)' /\ OrgRows(o)' = OrgRows(o)]_vars
  BY SealedRows, SealedStays
<1>2. QED
  BY <1>1, Inductive, PTL DEF Spec, DeletionIsFinal
\* What a handler may write in an organization without owners: a plain member
\* or an admin is added, a member is removed.
LEMMA OwnerlessRows ==
  ASSUME IInv, [Next]_vars, NEW o \in Orgs, Ownerless(o)
  PROVE  /\ organization'[o] = organization[o]
         /\ \A u \in Users : role'[o][u] # "owner"
<1>t. /\ organization \in [Orgs -> [state : {"unused", "live", "deleted"},
                                    slug : Slugs \cup {Nil}]]
      /\ role \in [Orgs -> [Users -> Roles \cup {Nil}]]
  BY DEF IInv, TypeOK
<1>n. "owner" # Nil
  BY NilAssumption DEF Roles
<1>1. organization[o].state # "unused" /\ \A u \in Users : role[o][u] # "owner"
  BY DEF Ownerless
<1>2. CASE organization'[o] = organization[o] /\ role'[o] = role[o]
  BY <1>1, <1>2
<1>3. ASSUME NEW r \in Requests, Handler(r)
      PROVE  /\ organization'[o] = organization[o]
             /\ \A u \in Users : role'[o][u] # "owner"
  <2>1. ASSUME pc[r] = "write", call[r].op # "register_organization", call[r].org = o
        PROVE  Permits(actor[r], call[r]) /\ actor[r] # "owner"
    BY <2>1 DEF IInv, Authorized, Ownerless, ActsFor
  <2>2. CASE RegisterWrite(r) \/ UpdateWrite(r)
    <3>1. organization'[o] = organization[o] /\ role'[o] = role[o]
      BY <1>1, <1>t, <2>2 DEF RegisterWrite, UpdateWrite
    <3>2. QED
      BY <1>2, <3>1
  <2>3. CASE DeleteWrite(r)
    <3>1. call[r].org # o
      BY <2>1, <2>3 DEF DeleteWrite, At, Permits
    <3>2. organization'[o] = organization[o] /\ role'[o] = role[o]
      BY <1>t, <2>3, <3>1 DEF DeleteWrite
    <3>3. QED
      BY <1>2, <3>2
  <2>4. CASE AddMemberWrite(r)
    <3>1. call[r].org = o => call[r].role # "owner"
      <4> SUFFICES ASSUME call[r].org = o, call[r].role = "owner" PROVE FALSE
        OBVIOUS
      <4>1. actor[r] \in Managers /\ ~(actor[r] = "admin")
        BY <2>1, <2>4 DEF AddMemberWrite, At, Permits, Managers
      <4>2. actor[r] # "owner"
        BY <2>1, <2>4 DEF AddMemberWrite, At
      <4>3. QED
        BY <4>1, <4>2 DEF Managers
    <3>2. /\ organization' = organization
          /\ role' = [role EXCEPT ![call[r].org][call[r].user] = call[r].role]
      BY <2>4 DEF AddMemberWrite
    <3>3. QED
      BY <1>1, <1>t, <3>1, <3>2
  <2>5. CASE RemoveMemberWrite(r)
    BY <1>1, <1>n, <1>t, <2>5 DEF RemoveMemberWrite
  <2>6. QED
    BY <1>2, <1>3, <2>2, <2>3, <2>4, <2>5, LookupReads
    DEF Handler, Lookup, ReadStep, RequestFails, Invalidate, InvalidateFails,
        tables, CreateProjectWrite, UpdateProjectWrite, DeleteProjectWrite,
        AddProjectMemberWrite, RemoveProjectMemberWrite
<1>4. QED
  BY <1>2, <1>3
  DEF Next, vars, tables, SelectOrganization, CacheExpires, BeginRegister,
      Authorize

\* And nobody is authorized as an owner: get_membership finds no such entry and
\* no such row.
LEMMA OwnerlessStays ==
  ASSUME IInv, [Next]_vars, NEW o \in Orgs, Ownerless(o)
  PROVE  Ownerless(o)'
<1> DEFINE NoneCached == \A u \in Users : cached[o][u] # "owner"
           NoneActs   == \A q \in Requests : ActsFor(q, o) => actor[q] # "owner"
<1>0. TypeOK
  BY DEF IInv
<1>c. cached \in [Orgs -> [Users -> Roles \cup {Nil}]]
  BY <1>0 DEF TypeOK
<1>n. "owner" # Nil
  BY NilAssumption DEF Roles
<1>1. NoneCached /\ NoneActs /\ \A u \in Users : role[o][u] # "owner"
  BY DEF Ownerless
<1>2. SUFFICES NoneCached' /\ NoneActs'
  BY OwnerlessRows DEF Ownerless
<1>3. ASSUME NEW u \in Users, NEW p \in Orgs,
             SelectOrganization(u, p) \/ CacheExpires(p, u)
      PROVE  NoneCached' /\ NoneActs'
  <2>1. cached' = cached \/ cached' = [cached EXCEPT ![p][u] = Nil]
    BY <1>3 DEF SelectOrganization, CacheExpires
  <2>2. NoneCached'
    BY <1>1, <1>c, <1>n, <2>1
  <2>3. NoneActs'
    BY <1>1, <1>3 DEF SelectOrganization, CacheExpires, ActsFor
  <2>4. QED
    BY <2>2, <2>3
<1>4. ASSUME NEW r \in Requests, NEW c \in RegisterCalls, BeginRegister(r, c)
      PROVE  NoneCached' /\ NoneActs'
  <2>1. c.op = "register_organization"
    BY DEF RegisterCalls
  <2>2. QED
    BY <1>0, <1>1, <1>4, <2>1 DEF BeginRegister, ActsFor, TypeOK
<1>5. ASSUME NEW r \in Requests, NEW c \in MemberCalls, Authorize(r, c)
      PROVE  NoneCached' /\ NoneActs'
  <2> DEFINE m == MembershipOf(c.by, c.org)
  <2>1. c.by \in Users /\ c.org \in Orgs
    BY <1>0, <1>5, AuthorizeFrame
  <2>2. c.org = o => m # "owner"
    BY <1>1, <2>1 DEF MembershipOf
  <2>3. cached' = [cached EXCEPT ![c.org][c.by] = m]
    BY <1>0, <1>5, AuthorizeFrame
  <2>4. \/ UNCHANGED <<pc, call, actor>>
        \/ /\ pc' = [pc EXCEPT ![r] = "lookup"]
           /\ call' = [call EXCEPT ![r] = c]
           /\ actor' = [actor EXCEPT ![r] = m]
    BY <1>0, <1>5, AuthorizeFrame
  <2> HIDE DEF m
  <2>5. NoneCached'
    BY <1>1, <1>c, <2>1, <2>2, <2>3
  <2>6. NoneActs'
    BY <1>0, <1>1, <2>2, <2>4 DEF ActsFor, TypeOK
  <2>7. QED
    BY <2>5, <2>6
<1>6. ASSUME NEW r \in Requests, Handler(r)
      PROVE  NoneCached' /\ NoneActs'
  <2>1. NoneActs'
    BY <1>0, <1>1, <1>6, HandlerCalls DEF ActsFor
  <2>2. CASE Invalidate(r)
    <3>1. cached' = [cached EXCEPT ![call[r].org] = [u \in Users |-> Nil]]
      BY <2>2 DEF Invalidate
    <3>2. NoneCached'
      BY <1>1, <1>c, <1>n, <3>1
    <3>3. QED
      BY <2>1, <3>2
  <2>3. CASE cached' = cached
    BY <1>1, <2>1, <2>3
  <2>4. QED
    BY <1>6, <2>2, <2>3, LookupReads
    DEF Handler, Lookup, ReadStep, RequestFails, InvalidateFails,
        RegisterWrite, UpdateWrite, DeleteWrite, AddMemberWrite,
        RemoveMemberWrite, CreateProjectWrite, UpdateProjectWrite,
        DeleteProjectWrite, AddProjectMemberWrite, RemoveProjectMemberWrite
<1>7. CASE UNCHANGED vars
  BY <1>1, <1>7 DEF ActsFor, vars
<1>8. QED
  BY <1>3, <1>4, <1>5, <1>6, <1>7 DEF Next

\* OwnersComeFromOwners for every instance: an organization that remove_member
\* has stripped of its owners never has one again and is never deleted,
\* whatever its admins do, however requests overlap and Redis fails.
THEOREM OnlyOwnersMakeOwners == Spec => OwnersComeFromOwners
<1>1. IInv /\ [Next]_vars =>
        [\A o \in Orgs :
           Ownerless(o) =>
             Ownerless(o)' /\ organization'[o] = organization[o]]_vars
  BY OwnerlessRows, OwnerlessStays
<1>2. QED
  BY <1>1, Inductive, PTL DEF Spec, OwnersComeFromOwners
=============================================================================
