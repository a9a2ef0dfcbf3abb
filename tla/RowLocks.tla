------------------------------ MODULE RowLocks ------------------------------
(***************************************************************************)
(* The transactions of the handlers that change memberships and projects,  *)
(* statement by statement and row by row, as PostgreSQL runs them under    *)
(* READ COMMITTED: each statement sees what is committed when it starts,   *)
(* locks its rows one after the other, waits for the transaction that      *)
(* holds a row, and skips a row whose deletion that transaction commits.   *)
(*                                                                         *)
(* The sessions do not autoflush (database/db/session.py), so an attribute *)
(* set on an object - existing_org.is_deleted, existing_project.is_deleted *)
(* - and an object added reach the database only at the flush of commit,   *)
(* after the DELETEs that stand below them in the handler.                 *)
(*                                                                         *)
(* The order in which a statement meets its rows is the planner's and so   *)
(* arbitrary here.  Locks that conflict with none of these statements (KEY *)
(* SHARE on the parents of an inserted row) are left out.                  *)
(***************************************************************************)
EXTENDS Naturals, Sequences, FiniteSets

CONSTANTS
  Users, Projects, Txns, Nil,
  Ops,       \* the handlers that clients of this instance call
  Start      \* what may be in the database when the first request comes

VARIABLES
  rows,    \* the database: rows that are committed and not deleted
  call,    \* per request: what it asks for, Nil unless it is under way
  status,  \* per request: "new", "active", "committed" or "aborted"
  must,    \* history: the rows it found, less those removed since by others
  stmt,    \* per request: the statement it executes, 0 before the first
  todo,    \* per request: the rows its statement has still to lock
  want,    \* per request: the row it waits for
  lock     \* PostgreSQL: per row, the transaction that changed it

requests == <<call, status, must>>
running  == <<stmt, todo, want, lock>>
vars     == <<rows, requests, running>>

Promise == INSTANCE AtomicWrites WITH
  Users <- Users, Projects <- Projects, Txns <- Txns, Nil <- Nil,
  rows <- rows, call <- call, status <- status, must <- must

Org                 == Promise!Org
Project(p)          == Promise!Project(p)
Member(u)           == Promise!Member(u)
ProjectMember(p, u) == Promise!ProjectMember(p, u)

Calls == {c \in Promise!Calls : c.op \in Ops}

ASSUME StartAssumption == Start \subseteq SUBSET Promise!Rows
ASSUME NilAssumption == Nil \notin UNION {Txns, Promise!Rows, Promise!Calls}

Init ==
  /\ rows \in Start
  /\ call = [t \in Txns |-> Nil]
  /\ status = [t \in Txns |-> "new"]
  /\ must = [t \in Txns |-> {}]
  /\ stmt = [t \in Txns |-> 0]
  /\ todo = [t \in Txns |-> {}]
  /\ want = [t \in Txns |-> Nil]
  /\ lock = [x \in Promise!Rows |-> Nil]

-----------------------------------------------------------------------------
(* The statements of the handlers.                                         *)

\* Mutant: remove_member forgets the memberships in projects.
PlanOrgMemberOnly(c, db) ==
  LET members == Promise!OrgMembers
      inProjects(ps, us) == {ProjectMember(p, u) : p \in ps, u \in us}
  IN  [delete_organization |->
         <<members \cap db, Promise!OrgProjects,
           inProjects(Projects, Users) \cap db, {Org}>>,
       remove_member |-> <<{Member(c.user)} \cap db>>,
       delete_project |->
         <<inProjects({c.project}, Users) \cap db, {Project(c.project)}>>,
       remove_project_member |-> <<inProjects({c.project}, {c.user}) \cap db>>,
       add_member |-> <<{Member(c.user)}>>,
       add_project_member |-> <<inProjects({c.project}, {c.user})>>][c.op]

\* The rows each statement of a handler writes, if it starts when db is
\* committed.  UPDATE projects in delete_organization has no condition on
\* is_deleted, the subquery of remove_member has one.
Plan(c, db) ==
  LET live == {p \in Projects : Project(p) \in db}
      inProjects(ps, us) == {ProjectMember(p, u) : p \in ps, u \in us}
  IN  [delete_organization |->
         <<Promise!OrgMembers \cap db, Promise!OrgProjects,
           inProjects(Projects, Users) \cap db, {Org}>>,
       remove_member |->
         <<inProjects(live, {c.user}) \cap db, {Member(c.user)} \cap db>>,
       delete_project |->
         <<inProjects({c.project}, Users) \cap db, {Project(c.project)}>>,
       remove_project_member |-> <<inProjects({c.project}, {c.user}) \cap db>>,
       add_member |-> <<{Member(c.user)}>>,
       add_project_member |-> <<inProjects({c.project}, {c.user})>>][c.op]

\* What the SELECTs of the handler check before its first write.
Passes(c, db) ==
  CASE c.op = "delete_organization" -> Org \in db
    [] c.op = "remove_member"       -> Member(c.user) \in db
    [] c.op = "delete_project"      -> Project(c.project) \in db
    [] c.op = "remove_project_member" ->
         {Member(c.user), Project(c.project),
          ProjectMember(c.project, c.user)} \subseteq db
    [] c.op = "add_member"          -> Member(c.user) \notin db
    [] c.op = "add_project_member"  ->
         /\ {Member(c.user), Project(c.project)} \subseteq db
         /\ ProjectMember(c.project, c.user) \notin db

Inserts(c) == c.op \in {"add_member", "add_project_member"}

Held(t) == {x \in Promise!Rows : lock[x] = t}

-----------------------------------------------------------------------------
(* A transaction.                                                          *)

\* The checks pass; the request goes on to write.
Begin(t, c) ==
  /\ status[t] = "new"
  /\ Passes(c, rows)
  /\ status' = [status EXCEPT ![t] = "active"]
  /\ call' = [call EXCEPT ![t] = c]
  /\ must' = [must EXCEPT ![t] = Promise!Removes(c, rows)]
  /\ UNCHANGED <<rows, running>>

StatementDone(t) == status[t] = "active" /\ todo[t] = {}

LastStatement(t) == stmt[t] = Len(Plan(call[t], rows))

\* The next statement takes its snapshot.
Execute(t) ==
  /\ StatementDone(t)
  /\ ~LastStatement(t)
  /\ stmt' = [stmt EXCEPT ![t] = @ + 1]
  /\ todo' = [todo EXCEPT ![t] = Plan(call[t], rows)[stmt[t] + 1]]
  /\ UNCHANGED <<rows, requests, want, lock>>

\* A unique constraint refuses a row that is there.
Duplicate(t, x) == Inserts(call[t]) /\ x \in rows

\* Mutant: a row locked by another transaction is taken all the same.
LockAnyway(t, x) ==
  /\ x \in todo[t]
  /\ want[t] \in {Nil, x}
  /\ ~Duplicate(t, x)
  /\ lock' = [lock EXCEPT ![x] = t]
  /\ todo' = [todo EXCEPT ![t] = @ \ {x}]
  /\ want' = [want EXCEPT ![t] = Nil]
  /\ UNCHANGED <<rows, requests, stmt>>

\* The statement locks and writes a row that nobody else holds.
Lock(t, x) ==
  /\ x \in todo[t]
  /\ want[t] \in {Nil, x}
  /\ lock[x] = Nil
  /\ ~Duplicate(t, x)
  /\ lock' = [lock EXCEPT ![x] = t]
  /\ todo' = [todo EXCEPT ![t] = @ \ {x}]
  /\ want' = [want EXCEPT ![t] = Nil]
  /\ UNCHANGED <<rows, requests, stmt>>

\* It comes to a row that another transaction has changed, and waits.
Wait(t, x) ==
  /\ x \in todo[t]
  /\ want[t] = Nil
  /\ lock[x] # Nil
  /\ want' = [want EXCEPT ![t] = x]
  /\ UNCHANGED <<rows, requests, stmt, todo, lock>>

\* Mutant: the locks outlive the transaction.
EndKeepingLocks(t, outcome) ==
  /\ status' = [status EXCEPT ![t] = outcome]
  /\ call' = [call EXCEPT ![t] = Nil]
  /\ stmt' = [stmt EXCEPT ![t] = 0]
  /\ UNCHANGED lock

\* The transaction is over and its locks are free.
End(t, outcome) ==
  /\ status' = [status EXCEPT ![t] = outcome]
  /\ call' = [call EXCEPT ![t] = Nil]
  /\ stmt' = [stmt EXCEPT ![t] = 0]
  /\ lock' = [x \in Promise!Rows |-> IF lock[x] = t THEN Nil ELSE lock[x]]

\* Mutant: what was written before the error stays.
AbortKeepingWrites(t) ==
  /\ status[t] = "active"
  /\ End(t, "aborted")
  /\ rows' = rows \ Held(t)
  /\ must' = [must EXCEPT ![t] = {}]
  /\ todo' = [todo EXCEPT ![t] = {}]
  /\ want' = [want EXCEPT ![t] = Nil]

\* except SQLAlchemyError: rollback, and 500.
Abort(t) ==
  /\ status[t] = "active"
  /\ End(t, "aborted")
  /\ must' = [must EXCEPT ![t] = {}]
  /\ todo' = [todo EXCEPT ![t] = {}]
  /\ want' = [want EXCEPT ![t] = Nil]
  /\ UNCHANGED rows

\* IntegrityError of the flush.
Refused(t, x) ==
  /\ x \in todo[t]
  /\ lock[x] = Nil
  /\ Duplicate(t, x)
  /\ Abort(t)

\* COMMIT: what it has written is there for all, and a statement that waits
\* for a row it has deleted skips the row.
Commit(t) ==
  LET gone == Held(t) \cap rows IN
  /\ StatementDone(t)
  /\ LastStatement(t)
  /\ End(t, "committed")
  /\ rows' = (rows \ gone) \cup Promise!Adds(call[t])
  /\ must' = [s \in Txns |-> IF s = t THEN {} ELSE must[s] \ gone]
  /\ todo' = [s \in Txns |->
       IF call[s] # Nil /\ Inserts(call[s]) THEN todo[s] ELSE todo[s] \ gone]
  /\ want' = [s \in Txns |-> IF want[s] \in todo'[s] THEN want[s] ELSE Nil]

-----------------------------------------------------------------------------
(* Deadlocks.                                                              *)

\* Transactions that all wait for one another.
WaitCycles ==
  LET Closed(S) == \A t \in S : want[t] # Nil /\ lock[want[t]] \in S
  IN  {S \in SUBSET Txns : /\ S # {}
                           /\ Closed(S)
                           /\ \A S2 \in SUBSET S : S2 # {} /\ Closed(S2) => S2 = S}

\* Mutant: nothing looks for deadlocks.
VictimNever(t) == FALSE /\ Abort(t)

\* After deadlock_timeout PostgreSQL aborts a transaction of the cycle.
Victim(t) ==
  /\ \E S \in WaitCycles : t \in S
  /\ Abort(t)

Step(t) ==
  \/ Execute(t) \/ Commit(t)
  \/ \E x \in todo[t] : Lock(t, x) \/ Wait(t, x) \/ Refused(t, x)

\* Any other database error, or the worker killed: Abort at any time.
Next ==
  \E t \in Txns :
    \/ \E c \in Calls : Begin(t, c)
    \/ Step(t)
    \/ Victim(t)
    \/ Abort(t)

Spec == Init /\ [][Next]_vars

\* The event loop and PostgreSQL do not stop while some transaction can go on.
FairSpec == Spec /\ WF_vars(\E t \in Txns : Step(t) \/ Victim(t))
-----------------------------------------------------------------------------
(* Properties.                                                             *)

\* Every transaction works on rows of the tables, holds locks only while it
\* runs, and waits only for a row its statement has still to write.
TypeOK ==
  /\ rows \subseteq Promise!Rows
  /\ call \in [Txns -> Promise!Calls \cup {Nil}]
  /\ status \in [Txns -> {"new", "active", "committed", "aborted"}]
  /\ must \in [Txns -> SUBSET Promise!Rows]
  /\ stmt \in [Txns -> 0..4]
  /\ todo \in [Txns -> SUBSET Promise!Rows]
  /\ want \in [Txns -> Promise!Rows \cup {Nil}]
  /\ lock \in [Promise!Rows -> Txns \cup {Nil}]
  /\ \A x \in Promise!Rows : lock[x] # Nil => status[lock[x]] = "active"
  /\ \A t \in Txns : want[t] # Nil => want[t] \in todo[t]

\* However the statements of concurrent requests interleave, wait for one
\* another and fail, the others see each handler's writes at once or not at
\* all, and a handler that replied has removed every row it found.
WritesAreAtomic == Promise!Spec

\* No two requests block one another.  They do: delete_project and
\* remove_member lock memberships before what delete_organization locks first.
NoDeadlock == WaitCycles = {}

\* Requests whose statements lock the same rows in different orders block one
\* another; each of them still ends, with a reply or with a 500.
EveryTransactionEnds == <>[](\A t \in Txns : status[t] # "active")
=============================================================================
