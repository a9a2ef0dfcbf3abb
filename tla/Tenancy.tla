------------------------------ MODULE Tenancy ------------------------------
(***************************************************************************)
(* Organizations, their members, their projects and the membership cache   *)
(* that authorizes every request of the tenant API (api/v2/organizations,  *)
(* api/v2/projects, core/oauth2.py, core/utils.py).                        *)
(*                                                                         *)
(* A request is one coroutine of the single uvicorn worker.  It can be     *)
(* overtaken by other requests at every await, so it advances one SELECT   *)
(* at a time; the statements it executes between its last check and its    *)
(* COMMIT are one step (PostgreSQL READ COMMITTED: nobody sees them        *)
(* before the commit, and a row inserted behind a DELETE's snapshot is a   *)
(* row inserted just after the commit).  After the commit the handler      *)
(* still has to invalidate Redis: that is a step of its own.               *)
(***************************************************************************)
EXTENDS Naturals

CONSTANTS
  Users,         \* users.id
  Orgs,          \* organizations.id: bounds the organizations ever created
  Projects,      \* projects.id: bounds the projects ever created
  Slugs,         \* slugified organization names
  Names,         \* project names
  Requests,      \* handler coroutines: bounds the requests in flight at once
  Ops,           \* the handlers that clients of this instance call
  RedisMayFail,  \* whether an invalidation may be lost (Redis error, crash)
  Nil            \* NULL, "no row", "no cache entry"

Roles    == {"owner", "admin", "member"}
Managers == {"owner", "admin"}

AllOps == {"register_organization", "update_organization",
           "delete_organization", "add_member", "remove_member",
           "create_project", "update_project", "delete_project",
           "add_project_member", "remove_project_member"}

ASSUME OpsAssumption == Ops \subseteq AllOps /\ RedisMayFail \in BOOLEAN
ASSUME NilAssumption ==
  Nil \notin Users \cup Orgs \cup Projects \cup Slugs \cup Names \cup Roles

(* What a client asks for.  "by" and "org" are the user_id and org_id      *)
(* claims of its access token.                                             *)
RegisterCalls == [op : {"register_organization"}, by : Users, slug : Slugs]
UpdateCalls   == [op : {"update_organization"}, by : Users, org : Orgs,
                  slug : Slugs]
DeleteCalls   == [op : {"delete_organization"}, by : Users, org : Orgs]
AddCalls      == [op : {"add_member"}, by : Users, org : Orgs, user : Users,
                  role : Roles]
RemoveCalls   == [op : {"remove_member"}, by : Users, org : Orgs,
                  user : Users]
CreateCalls   == [op : {"create_project"}, by : Users, org : Orgs,
                  name : Names]
RenameCalls   == [op : {"update_project"}, by : Users, org : Orgs,
                  project : Projects, name : Names]
DropCalls     == [op : {"delete_project"}, by : Users, org : Orgs,
                  project : Projects]
AssignCalls   == [op : {"add_project_member", "remove_project_member"},
                  by : Users, org : Orgs, project : Projects, user : Users]

\* The calls whose handlers depend on get_user_and_membership.
MemberCalls == UNION {UpdateCalls, DeleteCalls, AddCalls, RemoveCalls,
                      CreateCalls, RenameCalls, DropCalls, AssignCalls}
Calls == RegisterCalls \cup MemberCalls

ASSUME NilIsNoCall == Nil \notin Calls

Labels == {"idle", "lookup", "project", "name", "already", "write", "bump"}

VARIABLES
  organization,    \* organizations: lifecycle and slug of each id
  role,            \* organization_members: role of a user in an organization
  project,         \* projects: lifecycle, organization and name of each id
  projectMembers,  \* project_members: <<user, project>> rows
  granted,         \* <<user, org>>: access tokens select_organization issued
  cached,          \* Redis: the membership entry under the current version
  pc,              \* where the coroutine of a request stands
  call,            \* what the request asks for
  actor            \* the role get_membership gave the request

tables == <<organization, role, project, projectMembers>>
vars   == <<tables, granted, cached, pc, call, actor>>

NoOrg     == [state |-> "unused", slug |-> Nil]
NoProject == [state |-> "unused", org |-> Nil, name |-> Nil]

LiveOrg(o)     == organization[o].state = "live"
LiveProject(p) == project[p].state = "live"
ProjectsOf(o)  == {p \in Projects : project[p].org = o}

\* Mutant: the slug SELECT with its is_deleted filter inverted.
DeletedSlugTaken(s) ==
  \E o \in Orgs : organization[o].state = "deleted" /\ organization[o].slug = s

SlugTaken(s) == \E o \in Orgs : LiveOrg(o) /\ organization[o].slug = s

\* A live project of the organization has this name (the handlers' SELECT).
NameInUse(o, n) ==
  \E p \in ProjectsOf(o) : LiveProject(p) /\ project[p].name = n

\* Mutant: a partial unique index, on live projects only.
LiveNameFree(o, n, p) ==
  \A q \in ProjectsOf(o) \ {p} : LiveProject(q) => project[q].name # n

\* UniqueConstraint("organization_id", "name") counts soft-deleted rows too.
NameFree(o, n, p) == \A q \in ProjectsOf(o) \ {p} : project[q].name # n

-----------------------------------------------------------------------------
Init ==
  /\ organization = [o \in Orgs |-> NoOrg]
  /\ role = [o \in Orgs |-> [u \in Users |-> Nil]]
  /\ project = [p \in Projects |-> NoProject]
  /\ projectMembers = {}
  /\ granted = {}
  /\ cached = [o \in Orgs |-> [u \in Users |-> Nil]]
  /\ pc = [r \in Requests |-> "idle"]
  /\ call = [r \in Requests |-> Nil]
  /\ actor = [r \in Requests |-> Nil]

At(r, op, label) == pc[r] = label /\ call[r].op = op

Goto(r, label) ==
  /\ pc' = [pc EXCEPT ![r] = label]
  /\ UNCHANGED <<call, actor>>

\* Mutant: a handler that returns and leaves its call behind.
ReplyKeepingCall(r) ==
  /\ pc' = [pc EXCEPT ![r] = "idle"]
  /\ actor' = [actor EXCEPT ![r] = Nil]
  /\ UNCHANGED call

\* The handler returns or raises: the coroutine is gone.
Reply(r) ==
  /\ pc' = [pc EXCEPT ![r] = "idle"]
  /\ call' = [call EXCEPT ![r] = Nil]
  /\ actor' = [actor EXCEPT ![r] = Nil]

\* One SELECT and the 4xx reply if its result is not the wanted one.
Check(r, op, label, ok, next) ==
  /\ At(r, op, label)
  /\ IF ok THEN Goto(r, next) ELSE Reply(r)
  /\ UNCHANGED <<tables, granted, cached>>

-----------------------------------------------------------------------------
(* Tokens and authorization.                                               *)

\* select_organization: a member obtains an access token for o.  Its expiry
\* is left out: a client that stops using a token is a behaviour already.
SelectOrganization(u, o) ==
  /\ role[o][u] # Nil
  /\ <<u, o>> \notin granted
  /\ granted' = granted \cup {<<u, o>>}
  /\ UNCHANGED <<tables, cached, pc, call, actor>>

\* Mutant: the role check written as "not a plain member".
PermitsAllButMember(m, c) ==
  m # "member" /\ (c.op = "delete_organization" => m # "admin")

\* Mutant: add_member without the rule that admins make no owners.
PermitsAnyNewRole(m, c) ==
  m \in IF c.op = "delete_organization" THEN {"owner"} ELSE Managers

\* The role check every handler opens with.  membership.role is a string
\* (OrganizationMemberSchema), cached or not, so the comparisons hold.
Permits(m, c) ==
  /\ m \in IF c.op = "delete_organization" THEN {"owner"} ELSE Managers
  /\ c.op = "add_member" => ~(m = "admin" /\ c.role = "owner")

\* get_membership: the cached entry, else the organization_members row
\* (whether its organization still exists is not looked at).
MembershipOf(u, o) == IF cached[o][u] # Nil THEN cached[o][u] ELSE role[o][u]

\* get_membership followed by the handler's role check.  A row that was read
\* is cached even if the role check then refuses; a missing row is not.
Authorize(r, c) ==
  LET m == MembershipOf(c.by, c.org) IN
  /\ pc[r] = "idle"
  /\ c.op \in Ops
  /\ <<c.by, c.org>> \in granted
  /\ cached' = [cached EXCEPT ![c.org][c.by] = m]
  /\ IF Permits(m, c)
       THEN /\ pc' = [pc EXCEPT ![r] = "lookup"]
            /\ call' = [call EXCEPT ![r] = c]
            /\ actor' = [actor EXCEPT ![r] = m]
       ELSE UNCHANGED <<pc, call, actor>>
  /\ UNCHANGED <<tables, granted>>

\* register_organization depends on get_current_user only.
BeginRegister(r, c) ==
  /\ pc[r] = "idle"
  /\ c.op \in Ops
  /\ pc' = [pc EXCEPT ![r] = "lookup"]
  /\ call' = [call EXCEPT ![r] = c]
  /\ UNCHANGED <<tables, granted, cached, actor>>

\* ex=60*5 on every membership entry.
CacheExpires(o, u) ==
  /\ cached[o][u] # Nil
  /\ cached' = [cached EXCEPT ![o][u] = Nil]
  /\ UNCHANGED <<tables, granted, pc, call, actor>>

\* An exception before the commit (a failing SELECT, SQLAlchemyError and
\* rollback, the worker killed): nothing was written.
RequestFails(r) ==
  /\ pc[r] \notin {"idle", "bump"}
  /\ Reply(r)
  /\ UNCHANGED <<tables, granted, cached>>

\* Mutant: only the entry of the user who made the request is dropped.
InvalidateCallerOnly(r) ==
  /\ pc[r] = "bump"
  /\ cached' = [cached EXCEPT ![call[r].org][call[r].by] = Nil]
  /\ Reply(r)
  /\ UNCHANGED <<tables, granted>>

\* invalidate_redis_keys_on_mem_change / _on_org_delete: INCR of the
\* organization's version makes every entry under the old one unreachable.
Invalidate(r) ==
  /\ pc[r] = "bump"
  /\ cached' = [cached EXCEPT ![call[r].org] = [u \in Users |-> Nil]]
  /\ Reply(r)
  /\ UNCHANGED <<tables, granted>>

\* Redis fails (the reply is a 500) or the worker dies after the commit.
InvalidateFails(r) ==
  /\ RedisMayFail
  /\ pc[r] = "bump"
  /\ Reply(r)
  /\ UNCHANGED <<tables, granted, cached>>

-----------------------------------------------------------------------------
(* api/v2/organizations                                                    *)

RegisterLookup(r) ==
  Check(r, "register_organization", "lookup", ~SlugTaken(call[r].slug),
        "write")

\* The organization and its first owner, in one transaction.
RegisterWrite(r) ==
  /\ At(r, "register_organization", "write")
  /\ \E o \in Orgs :
       /\ organization[o].state = "unused"
       /\ organization' = [organization EXCEPT
            ![o] = [state |-> "live", slug |-> call[r].slug]]
       /\ role' = [role EXCEPT ![o][call[r].by] = "owner"]
  /\ Reply(r)
  /\ UNCHANGED <<project, projectMembers, granted, cached>>

UpdateLookup(r) ==
  Check(r, "update_organization", "lookup", ~SlugTaken(call[r].slug), "write")

\* update() adds a new organization row; the caller's own row is left alone.
UpdateWrite(r) ==
  /\ At(r, "update_organization", "write")
  /\ \E o \in Orgs :
       /\ organization[o].state = "unused"
       /\ organization' = [organization EXCEPT
            ![o] = [state |-> "live", slug |-> call[r].slug]]
  /\ Reply(r)
  /\ UNCHANGED <<role, project, projectMembers, granted, cached>>

DeleteLookup(r) ==
  Check(r, "delete_organization", "lookup", LiveOrg(call[r].org), "write")

DeleteWrite(r) ==
  LET o == call[r].org IN
  /\ At(r, "delete_organization", "write")
  /\ organization' = [organization EXCEPT ![o].state = "deleted"]
  /\ role' = [role EXCEPT ![o] = [u \in Users |-> Nil]]
  /\ project' = [p \in Projects |->
       IF p \in ProjectsOf(o) THEN [project[p] EXCEPT !.state = "deleted"]
                              ELSE project[p]]
  /\ projectMembers' = {m \in projectMembers : m[2] \notin ProjectsOf(o)}
  /\ Goto(r, "bump")
  /\ UNCHANGED <<granted, cached>>

AddMemberLookup(r) ==
  Check(r, "add_member", "lookup", role[call[r].org][call[r].user] = Nil,
        "write")

\* uq_user_org: the INSERT fails (RequestFails) if a row exists by now.
AddMemberWrite(r) ==
  LET c == call[r] IN
  /\ At(r, "add_member", "write")
  /\ role[c.org][c.user] = Nil
  /\ role' = [role EXCEPT ![c.org][c.user] = c.role]
  /\ Goto(r, "bump")
  /\ UNCHANGED <<organization, project, projectMembers, granted, cached>>

\* user_in_org is found or not; its role does not matter.  It is a member of
\* the enum.Enum OrgRole, which equals no string: user_in_org.role == "owner" is
\* false of owners too, so neither the rule for admins nor the count of owners
\* that stand behind it ever refuses a removal.
RemoveMemberLookup(r) ==
  Check(r, "remove_member", "lookup", role[call[r].org][call[r].user] # Nil,
        "write")

RemoveMemberWrite(r) ==
  LET o == call[r].org
      u == call[r].user
  IN
  /\ At(r, "remove_member", "write")
  /\ projectMembers' = projectMembers
       \ {<<u, p>> : p \in {q \in ProjectsOf(o) : LiveProject(q)}}
  /\ role' = [role EXCEPT ![o][u] = Nil]
  /\ Goto(r, "bump")
  /\ UNCHANGED <<organization, project, granted, cached>>

-----------------------------------------------------------------------------
(* api/v2/projects.  The invalidations of these handlers touch other keys  *)
(* than the membership entries, so the handlers end with their commit.     *)

\* Mutant: the SELECT of a project by its id alone.
AnyLiveProject(c) == LiveProject(c.project)

\* The SELECT of a live project by id within the caller's organization.
OwnProject(c) == LiveProject(c.project) /\ project[c.project].org = c.org

CreateProjectLookup(r) ==
  Check(r, "create_project", "lookup",
        ~NameInUse(call[r].org, call[r].name), "write")

CreateProjectWrite(r) ==
  LET c == call[r] IN
  /\ At(r, "create_project", "write")
  /\ \E p \in Projects :
       /\ project[p].state = "unused"
       /\ NameFree(c.org, c.name, p)
       /\ project' = [project EXCEPT
            ![p] = [state |-> "live", org |-> c.org, name |-> c.name]]
  /\ Reply(r)
  /\ UNCHANGED <<organization, role, projectMembers, granted, cached>>

UpdateProjectLookup(r) ==
  Check(r, "update_project", "lookup", OwnProject(call[r]), "name")

UpdateProjectName(r) ==
  Check(r, "update_project", "name",
        ~NameInUse(call[r].org, call[r].name), "write")

\* UPDATE ... WHERE id: also when the project was deleted in the meantime.
UpdateProjectWrite(r) ==
  LET c == call[r] IN
  /\ At(r, "update_project", "write")
  /\ NameFree(c.org, c.name, c.project)
  /\ project' = [project EXCEPT ![c.project].name = c.name]
  /\ Reply(r)
  /\ UNCHANGED <<organization, role, projectMembers, granted, cached>>

DeleteProjectLookup(r) ==
  Check(r, "delete_project", "lookup", OwnProject(call[r]), "write")

\* Mutant: delete_project keeps the project's members.
DeleteProjectOnly(r) ==
  /\ At(r, "delete_project", "write")
  /\ project' = [project EXCEPT ![call[r].project].state = "deleted"]
  /\ Reply(r)
  /\ UNCHANGED <<organization, role, projectMembers, granted, cached>>

DeleteProjectWrite(r) ==
  LET p == call[r].project IN
  /\ At(r, "delete_project", "write")
  /\ project' = [project EXCEPT ![p].state = "deleted"]
  /\ projectMembers' = {m \in projectMembers : m[2] # p}
  /\ Reply(r)
  /\ UNCHANGED <<organization, role, granted, cached>>

\* Mutant: any user can be added to a project.
AddProjectMemberAnyUser(r) ==
  Check(r, "add_project_member", "lookup", TRUE, "project")

AddProjectMemberLookup(r) ==
  Check(r, "add_project_member", "lookup",
        role[call[r].org][call[r].user] # Nil, "project")

AddProjectMemberProject(r) ==
  Check(r, "add_project_member", "project", OwnProject(call[r]), "already")

AddProjectMemberAlready(r) ==
  Check(r, "add_project_member", "already",
        <<call[r].user, call[r].project>> \notin projectMembers, "write")

\* uq_user_project: the INSERT fails if the row exists by now.
AddProjectMemberWrite(r) ==
  LET m == <<call[r].user, call[r].project>> IN
  /\ At(r, "add_project_member", "write")
  /\ m \notin projectMembers
  /\ projectMembers' = projectMembers \cup {m}
  /\ Reply(r)
  /\ UNCHANGED <<organization, role, project, granted, cached>>

RemoveProjectMemberLookup(r) ==
  Check(r, "remove_project_member", "lookup",
        role[call[r].org][call[r].user] # Nil, "project")

RemoveProjectMemberProject(r) ==
  Check(r, "remove_project_member", "project", OwnProject(call[r]), "already")

RemoveProjectMemberAlready(r) ==
  Check(r, "remove_project_member", "already",
        <<call[r].user, call[r].project>> \in projectMembers, "write")

RemoveProjectMemberWrite(r) ==
  /\ At(r, "remove_project_member", "write")
  /\ projectMembers' = projectMembers \ {<<call[r].user, call[r].project>>}
  /\ Reply(r)
  /\ UNCHANGED <<organization, role, project, granted, cached>>

-----------------------------------------------------------------------------
Handler(r) ==
  \/ RegisterLookup(r)             \/ RegisterWrite(r)
  \/ UpdateLookup(r)               \/ UpdateWrite(r)
  \/ DeleteLookup(r)               \/ DeleteWrite(r)
  \/ AddMemberLookup(r)            \/ AddMemberWrite(r)
  \/ RemoveMemberLookup(r)         \/ RemoveMemberWrite(r)
  \/ CreateProjectLookup(r)        \/ CreateProjectWrite(r)
  \/ UpdateProjectLookup(r)        \/ UpdateProjectName(r)
  \/ UpdateProjectWrite(r)
  \/ DeleteProjectLookup(r)        \/ DeleteProjectWrite(r)
  \/ AddProjectMemberLookup(r)     \/ AddProjectMemberProject(r)
  \/ AddProjectMemberAlready(r)    \/ AddProjectMemberWrite(r)
  \/ RemoveProjectMemberLookup(r)  \/ RemoveProjectMemberProject(r)
  \/ RemoveProjectMemberAlready(r) \/ RemoveProjectMemberWrite(r)
  \/ Invalidate(r)                 \/ InvalidateFails(r)
  \/ RequestFails(r)

Next ==
  \/ \E u \in Users, o \in Orgs : SelectOrganization(u, o) \/ CacheExpires(o, u)
  \/ \E r \in Requests, c \in RegisterCalls : BeginRegister(r, c)
  \/ \E r \in Requests, c \in MemberCalls : Authorize(r, c)
  \/ \E r \in Requests : Handler(r)

Spec == Init /\ [][Next]_vars
-----------------------------------------------------------------------------
(* Properties.                                                             *)

\* Every table, the cache and every request in flight hold values of their
\* columns; a coroutine has a call exactly while it runs (models and
\* schemas of database/models and api/v2/schemas).
TypeOK ==
  /\ organization \in [Orgs -> [state : {"unused", "live", "deleted"},
                                slug : Slugs \cup {Nil}]]
  /\ role \in [Orgs -> [Users -> Roles \cup {Nil}]]
  /\ project \in [Projects -> [state : {"unused", "live", "deleted"},
                               org : Orgs \cup {Nil},
                               name : Names \cup {Nil}]]
  /\ projectMembers \subseteq Users \X Projects
  /\ granted \subseteq Users \X Orgs
  /\ cached \in [Orgs -> [Users -> Roles \cup {Nil}]]
  /\ pc \in [Requests -> Labels]
  /\ call \in [Requests -> Calls \cup {Nil}]
  /\ actor \in [Requests -> Roles \cup {Nil}]
  /\ \A r \in Requests : pc[r] = "idle" <=> call[r] = Nil

Bumping(o) == \E r \in Requests : pc[r] = "bump" /\ call[r].org = o

\* A membership entry that requests are authorized with is the row of the
\* database, except between the commit of a membership change in that
\* organization and its invalidation: no order of reads, fills, commits and
\* bumps of several handlers leaves an outdated role behind
\* (get_membership, invalidate_redis_keys_on_mem_change, _on_org_delete).
\* The entry is the one under the current version of an organization whose
\* version key exists; VersionedCache has the version keys themselves and
\* shows what a missing one permits.
CachedRoleIsCurrent ==
  ~RedisMayFail =>
    \A o \in Orgs, u \in Users :
      cached[o][u] \notin {Nil, role[o][u]} => Bumping(o)

\* All rows that belong to a tenant.
OrgRows(o) ==
  <<organization[o], role[o], {<<p, project[p]>> : p \in ProjectsOf(o)},
    {m \in projectMembers : m[2] \in ProjectsOf(o)}>>

\* "Full isolation between organizations" (README): the rows of an existing
\* organization change only by the write of a request whose token is for that
\* organization and which was authorized as an owner or admin of it, whatever
\* project ids and users the requests name and however they interleave.
TenantIsolation ==
  [][\A o \in Orgs :
       organization[o].state # "unused" /\ OrgRows(o)' # OrgRows(o) =>
         \E r \in Requests :
           /\ pc[r] = "write" /\ pc'[r] # "write"
           /\ call[r].op # "register_organization" /\ call[r].org = o
           /\ <<call[r].by, o>> \in granted
           /\ actor[r] \in Managers]_vars

\* A deleted organization without members, cached roles and requests at work.
Sealed(o) ==
  /\ organization[o].state = "deleted"
  /\ \A u \in Users : role[o][u] = Nil /\ cached[o][u] = Nil
  /\ \A r \in Requests :
       pc[r] # "idle" /\ call[r].op # "register_organization" =>
         call[r].org # o

\* No handler but delete_organization looks at organizations.is_deleted of
\* the caller's organization.  Once deleted, empty and left by every request,
\* an organization nevertheless stays so, and so do its projects: tokens that
\* are still valid open no way back in.
DeletionIsFinal ==
  [][\A o \in Orgs : Sealed(o) => Sealed(o)' /\ OrgRows(o)' = OrgRows(o)]_vars

\* UniqueConstraint("organization_id", "name") as create_project and
\* update_project meet it: two projects of an organization never share a
\* name, deleted ones included ("Unique project name per organization",
\* README), whatever the handlers' own checks have seen.
ProjectNamesUnique ==
  \A p, q \in Projects :
    /\ p # q
    /\ project[p].state # "unused" /\ project[q].state # "unused"
    /\ project[p].org = project[q].org
    => project[p].name # project[q].name

\* An organization that has members has an owner.  That is what remove_member
\* says ("Cannot remove the last owner of the organization") and not what it
\* does: see RemoveMemberLookup.
OwnerRemains ==
  \A o \in Orgs :
    (\E u \in Users : role[o][u] # Nil) => \E u \in Users : role[o][u] = "owner"

\* Members of a project are members of its organization: "Remove a member
\* from the organization (and from all its projects)" (README).
ProjectMembersBelong ==
  \A m \in projectMembers : role[project[m[2]].org][m[1]] # Nil

\* delete_organization and delete_project leave nothing alive below the row
\* they mark as deleted.
DeletedIsEmpty ==
  /\ \A o \in Orgs : organization[o].state = "deleted" =>
       /\ \A u \in Users : role[o][u] = Nil
       /\ \A p \in ProjectsOf(o) : ~LiveProject(p)
  /\ \A m \in projectMembers : LiveProject(m[2])

\* "Check if organization with the same name already exists" (register.py).
SlugsUnique ==
  \A o1, o2 \in Orgs :
    o1 # o2 /\ LiveOrg(o1) /\ LiveOrg(o2) =>
      organization[o1].slug # organization[o2].slug

\* A request at work for the organization of its token, up to and including
\* the invalidation.
ActsFor(r, o) ==
  /\ pc[r] # "idle"
  /\ call[r].op # "register_organization"
  /\ call[r].org = o

\* An organization in use without an owner: none in the table, none in the
\* cache, and no request at work that was authorized as one.
Ownerless(o) ==
  /\ organization[o].state # "unused"
  /\ \A u \in Users : role[o][u] # "owner" /\ cached[o][u] # "owner"
  /\ \A r \in Requests : ActsFor(r, o) => actor[r] # "owner"

\* "Not authorized to add owner" (add_user.py), "Not authorized to delete the
\* organization" (delete.py): only owners make owners.  Whom admins remove and
\* add, in whatever order, with tokens and cached roles of former owners about,
\* an organization that has lost its last owner never gets one again, and
\* nobody can delete it any more.
OwnersComeFromOwners ==
  [][\A o \in Orgs :
       Ownerless(o) =>
         Ownerless(o)' /\ organization'[o] = organization[o]]_vars

\* The requests for this organization do not overlap.
Alone(o) == \A r, q \in Requests : ActsFor(r, o) /\ ActsFor(q, o) => r = q

OrgsApart == \A o \in Orgs : Alone(o)

\* A request that is to create an organization with this slug.
Claims(r, s) ==
  /\ pc[r] # "idle"
  /\ call[r].op \in {"register_organization", "update_organization"}
  /\ call[r].slug = s

SlugsApart ==
  \A s \in Slugs : \A r, q \in Requests : Claims(r, s) /\ Claims(q, s) => r = q

\* Requests overlap only if they are for different organizations and, as far
\* as they create one, for different slugs.
Apart == OrgsApart /\ SlugsApart

Atomic == INSTANCE TenantCalls

\* Requests that are apart cannot be told from calls that happen in one step:
\* what a handler has read, and the role it was authorized with from the
\* cache, still hold when it commits.
CallsAreAtomic == Atomic!Spec

\* "Not a member of this Organization or Organization does not exist
\* anymore/deleted" (get_membership): once the deletion has invalidated the
\* cache, no request is authorized for a deleted organization.
DeletedOrgIsRefused ==
  [][\A r \in Requests :
       pc[r] = "idle" /\ pc'[r] = "lookup"
         /\ call'[r].op # "register_organization" =>
           LiveOrg(call'[r].org) \/ Bumping(call'[r].org)]_vars

\* "Update the organization details" (README): a successful update changes
\* the caller's own organization.
UpdateChangesOwnOrg ==
  [][\A r \in Requests :
       At(r, "update_organization", "write") /\ organization' # organization
         /\ pc'[r] = "idle" =>
           organization'[call[r].org] # organization[call[r].org]]_vars

\* "Check if project with same name exists" (projects/update.py): with no
\* other request about, a handler that passed its name check finds no other
\* project of that name in the organization.
NameCheckIsComplete ==
  \A r \in Requests :
    pc[r] = "write" /\ call[r].op = "update_project" =>
      NameFree(call[r].org, call[r].name, call[r].project)
=============================================================================
