---------------------------- MODULE AtomicWrites ----------------------------
(***************************************************************************)
(* What the handlers that change memberships and projects owe one another: *)
(* the rows of one organization, changed by whole transactions.            *)
(*                                                                         *)
(* A row stands for an organization or project that is not deleted, or for *)
(* a membership.  A transaction that commits removes, at once, every row   *)
(* it has to that was there when it began and has been there since, and    *)
(* nothing outside what its handler is for; one that does not commit       *)
(* changes nothing.  Rows inserted behind its back may survive it.         *)
(***************************************************************************)
CONSTANTS
  Users,     \* users.id
  Projects,  \* projects.id, all of the one organization
  Txns,      \* requests: each one is one transaction
  Nil

Row(t, p, u)        == [table |-> t, project |-> p, user |-> u]
Org                 == Row("organizations", Nil, Nil)
Project(p)          == Row("projects", p, Nil)
Member(u)           == Row("organization_members", Nil, u)
ProjectMember(p, u) == Row("project_members", p, u)

OrgMembers     == {Member(u) : u \in Users}
OrgProjects    == {Project(p) : p \in Projects}
ProjectMembers == {ProjectMember(p, u) : p \in Projects, u \in Users}
Rows           == {Org} \cup OrgMembers \cup OrgProjects \cup ProjectMembers

Call(op, p, u) == [op |-> op, project |-> p, user |-> u]

\* The requests: handler and arguments.
Calls ==
  {Call("delete_organization", Nil, Nil)}
    \cup {Call("remove_member", Nil, u) : u \in Users}
    \cup {Call("delete_project", p, Nil) : p \in Projects}
    \cup {Call("remove_project_member", p, u) : p \in Projects, u \in Users}
    \cup {Call("add_member", Nil, u) : u \in Users}
    \cup {Call("add_project_member", p, u) : p \in Projects, u \in Users}

\* What a handler is there to insert.
Adds(c) ==
  CASE c.op = "add_member"         -> {Member(c.user)}
    [] c.op = "add_project_member" -> {ProjectMember(c.project, c.user)}
    [] OTHER                       -> {}

\* The rows a handler may remove at all.
Scope(c) ==
  CASE c.op = "delete_organization"   -> Rows
    [] c.op = "remove_member"         ->
         {Member(c.user)} \cup {ProjectMember(p, c.user) : p \in Projects}
    [] c.op = "delete_project"        ->
         {Project(c.project)} \cup {ProjectMember(c.project, u) : u \in Users}
    [] c.op = "remove_project_member" -> {ProjectMember(c.project, c.user)}
    [] OTHER                          -> {}

\* The rows of db it has to remove: all of these, but remove_member leaves
\* the members of deleted projects alone.
Removes(c, db) ==
  {x \in Scope(c) \cap db :
     c.op = "remove_member" /\ x.table = "project_members"
       => Project(x.project) \in db}

VARIABLES
  rows,    \* what is committed
  call,    \* per request: what it asks for, Nil unless it is under way
  status,  \* per request: "new", "active", "committed" or "aborted"
  must     \* per request: the rows it found and that are still there

vars == <<rows, call, status, must>>

Init ==
  /\ rows \in SUBSET Rows
  /\ call = [t \in Txns |-> Nil]
  /\ status = [t \in Txns |-> "new"]
  /\ must = [t \in Txns |-> {}]

Begin(t, c) ==
  /\ status[t] = "new"
  /\ status' = [status EXCEPT ![t] = "active"]
  /\ call' = [call EXCEPT ![t] = c]
  /\ must' = [must EXCEPT ![t] = Removes(c, rows)]
  /\ UNCHANGED rows

Commit(t) ==
  /\ status[t] = "active"
  /\ status' = [status EXCEPT ![t] = "committed"]
  /\ call' = [call EXCEPT ![t] = Nil]
  /\ \E gone \in SUBSET (Scope(call[t]) \cap rows) :
       /\ must[t] \cap Removes(call[t], rows) \subseteq gone
       /\ rows' = (rows \ gone) \cup Adds(call[t])
       /\ must' = [s \in Txns |-> IF s = t THEN {} ELSE must[s] \ gone]
  /\ Adds(call[t]) \cap rows = {}

Abort(t) ==
  /\ status[t] = "active"
  /\ status' = [status EXCEPT ![t] = "aborted"]
  /\ call' = [call EXCEPT ![t] = Nil]
  /\ must' = [must EXCEPT ![t] = {}]
  /\ UNCHANGED rows

Next ==
  \E t \in Txns : Commit(t) \/ Abort(t) \/ \E c \in Calls : Begin(t, c)

Spec == Init /\ [][Next]_vars
=============================================================================
