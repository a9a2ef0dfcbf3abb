---------------------------- MODULE TenantCalls ----------------------------
(***************************************************************************)
(* What the handlers of api/v2/organizations and api/v2/projects amount to *)
(* when nothing comes between their checks and their writes.  A call is    *)
(* one step: it looks at the tables as they are, the role of the caller    *)
(* included, and has its whole effect or none.  There are no tokens, no    *)
(* cache and no coroutines; a call that is refused is no step at all.      *)
(***************************************************************************)
CONSTANTS Users, Orgs, Projects, Slugs, Names, Nil

VARIABLES organization, role, project, projectMembers

tables == <<organization, role, project, projectMembers>>

Roles    == {"owner", "admin", "member"}
Managers == {"owner", "admin"}

Manages(u, o)  == role[o][u] \in Managers
Belongs(u, o)  == role[o][u] # Nil
IsOwner(u, o)  == role[o][u] = "owner"
ProjectsOf(o)  == {p \in Projects : project[p].org = o}

\* A live project of the organization.
Has(o, p) == project[p].state = "live" /\ project[p].org = o

SlugFree(s) ==
  \A o \in Orgs : organization[o].state = "live" => organization[o].slug # s

\* No other project of the organization, deleted ones included, has the name.
NameFree(o, n, p) == \A q \in ProjectsOf(o) \ {p} : project[q].name # n

\* The row of a new organization o.
Found(o, s) ==
  /\ organization[o].state = "unused"
  /\ organization' = [organization EXCEPT ![o] = [state |-> "live", slug |-> s]]

Init ==
  /\ organization = [o \in Orgs |-> [state |-> "unused", slug |-> Nil]]
  /\ role = [o \in Orgs |-> [u \in Users |-> Nil]]
  /\ project = [p \in Projects |-> [state |-> "unused", org |-> Nil, name |-> Nil]]
  /\ projectMembers = {}

-----------------------------------------------------------------------------
RegisterOrganization(u, s) ==
  /\ SlugFree(s)
  /\ \E o \in Orgs : Found(o, s) /\ role' = [role EXCEPT ![o][u] = "owner"]
  /\ UNCHANGED <<project, projectMembers>>

\* What update() does: the caller's organization stays as it is.
UpdateOrganization(u, o, s) ==
  /\ Manages(u, o)
  /\ SlugFree(s)
  /\ \E new \in Orgs : Found(new, s)
  /\ UNCHANGED <<role, project, projectMembers>>

DeleteOrganization(u, o) ==
  /\ IsOwner(u, o)
  /\ organization[o].state = "live"
  /\ organization' = [organization EXCEPT ![o].state = "deleted"]
  /\ role' = [role EXCEPT ![o] = [v \in Users |-> Nil]]
  /\ project' = [p \in Projects |->
       IF p \in ProjectsOf(o) THEN [project[p] EXCEPT !.state = "deleted"]
                              ELSE project[p]]
  /\ projectMembers' = {m \in projectMembers : m[2] \notin ProjectsOf(o)}

\* Only an owner makes an owner.
AddMember(u, o, v, as) ==
  /\ Manages(u, o)
  /\ as = "owner" => IsOwner(u, o)
  /\ ~Belongs(v, o)
  /\ role' = [role EXCEPT ![o][v] = as]
  /\ UNCHANGED <<organization, project, projectMembers>>

\* Owners are members like others here, the last one too: the handler's rules
\* about them compare an Enum with a string and never apply.
RemoveMember(u, o, v) ==
  /\ Manages(u, o)
  /\ Belongs(v, o)
  /\ role' = [role EXCEPT ![o][v] = Nil]
  /\ projectMembers' =
       {m \in projectMembers : ~(m[1] = v /\ Has(o, m[2]))}
  /\ UNCHANGED <<organization, project>>

CreateProject(u, o, n) ==
  /\ Manages(u, o)
  /\ \E p \in Projects :
       /\ project[p].state = "unused"
       /\ NameFree(o, n, p)
       /\ project' = [project EXCEPT ![p] = [state |-> "live", org |-> o, name |-> n]]
  /\ UNCHANGED <<organization, role, projectMembers>>

UpdateProject(u, o, p, n) ==
  /\ Manages(u, o)
  /\ Has(o, p)
  /\ NameFree(o, n, p)
  /\ project' = [project EXCEPT ![p].name = n]
  /\ UNCHANGED <<organization, role, projectMembers>>

DeleteProject(u, o, p) ==
  /\ Manages(u, o)
  /\ Has(o, p)
  /\ project' = [project EXCEPT ![p].state = "deleted"]
  /\ projectMembers' = {m \in projectMembers : m[2] # p}
  /\ UNCHANGED <<organization, role>>

AddProjectMember(u, o, p, v) ==
  /\ Manages(u, o)
  /\ Belongs(v, o)
  /\ Has(o, p)
  /\ <<v, p>> \notin projectMembers
  /\ projectMembers' = projectMembers \cup {<<v, p>>}
  /\ UNCHANGED <<organization, role, project>>

RemoveProjectMember(u, o, p, v) ==
  /\ Manages(u, o)
  /\ Belongs(v, o)
  /\ Has(o, p)
  /\ <<v, p>> \in projectMembers
  /\ projectMembers' = projectMembers \ {<<v, p>>}
  /\ UNCHANGED <<organization, role, project>>

-----------------------------------------------------------------------------
\* A call that writes in the organization o of its caller.
CallIn(o) ==
  \E u \in Users :
    \/ DeleteOrganization(u, o)
    \/ \E v \in Users :
         \/ \E as \in Roles : AddMember(u, o, v, as)
         \/ RemoveMember(u, o, v)
    \/ \E n \in Names : CreateProject(u, o, n)
    \/ \E p \in Projects :
         \/ \E n \in Names : UpdateProject(u, o, p, n)
         \/ DeleteProject(u, o, p)
         \/ \E v \in Users :
              AddProjectMember(u, o, p, v) \/ RemoveProjectMember(u, o, p, v)

\* A call that makes a new organization.
CallForNew ==
  \E u \in Users, s \in Slugs :
    \/ RegisterOrganization(u, s)
    \/ \E o \in Orgs : UpdateOrganization(u, o, s)

Next == CallForNew \/ \E o \in Orgs : CallIn(o)

Spec == Init /\ [][Next]_tables
=============================================================================
