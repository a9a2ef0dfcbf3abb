--------------------------- MODULE RowLocksProofs ---------------------------
(***************************************************************************)
(* RowLocks implements AtomicWrites for any number of users, projects and  *)
(* requests.                                                               *)
(*                                                                         *)
(* The invariant follows each row that a transaction has to remove and     *)
(* that is still there: the statement for it is yet to come, or is to lock *)
(* it, or holds it.  So when the last statement is done all of them are    *)
(* held.  What the other transactions may do to this is Apart.             *)
(***************************************************************************)
EXTENDS RowLocks, FiniteSetTheorems, WellFoundedInduction, TLAPS

Rows == Promise!Rows

\* The statement of a handler that is to remove a row.
Stage(c, x) ==
  IF x.table = "project_members"
    THEN IF c.op = "delete_organization" THEN 3 ELSE 1
  ELSE IF c.op = "delete_organization"
    THEN IF x.table = "organization_members" THEN 1 ELSE IF x.table = "projects" THEN 2 ELSE 4
  ELSE 2

\* How many statements a handler has.
Length(c) ==
  IF c.op = "delete_organization" THEN 4
  ELSE IF c.op \in {"remove_member", "delete_project"} THEN 2 ELSE 1

\* The operation is one of six.
LEMMA Operations ==
  ASSUME NEW c \in Promise!Calls
  PROVE  c.op \in {"delete_organization", "remove_member", "delete_project",
                  "remove_project_member", "add_member", "add_project_member"}
BY DEF Promise!Calls, Promise!Call

InProjects(ps, us) == {ProjectMember(p, u) : p \in ps, u \in us}
Live(db)           == {p \in Projects : Project(p) \in db}

\* The statements, handler by handler.
LEMMA Plans ==
  ASSUME NEW c \in Promise!Calls, NEW db \in SUBSET Rows
  PROVE  /\ c.op = "delete_organization" =>
              Plan(c, db) = <<Promise!OrgMembers \cap db, Promise!OrgProjects,
                              InProjects(Projects, Users) \cap db, {Org}>>
         /\ c.op = "remove_member" =>
              Plan(c, db) = <<InProjects(Live(db), {c.user}) \cap db, {Member(c.user)} \cap db>>
         /\ c.op = "delete_project" =>
              Plan(c, db) = <<InProjects({c.project}, Users) \cap db, {Project(c.project)}>>
         /\ c.op = "remove_project_member" =>
              Plan(c, db) = <<InProjects({c.project}, {c.user}) \cap db>>
         /\ c.op = "add_member" => Plan(c, db) = <<{Member(c.user)}>>
         /\ c.op = "add_project_member" => Plan(c, db) = <<InProjects({c.project}, {c.user})>>
BY DEF Plan, InProjects, Live

\* The table tells what a row stands for.
LEMMA RowFacts ==
  ASSUME NEW x \in Rows
  PROVE  \/ x.table = "organizations" /\ x = Org
         \/ x.table = "organization_members" /\ x \in Promise!OrgMembers
         \/ x.table = "projects" /\ x \in Promise!OrgProjects
         \/ x.table = "project_members" /\ x \in InProjects(Projects, Users)
BY DEF Rows, Org, ProjectMember, InProjects, Promise!Rows, Promise!OrgMembers,
       Promise!OrgProjects, Promise!ProjectMembers, Promise!Org, Promise!Member,
       Promise!Project, Promise!ProjectMember, Promise!Row

\* The statements write nothing but what the handler is for, and between them
\* all of it.
LEMMA PlanFacts ==
  ASSUME NEW c \in Promise!Calls, NEW db \in SUBSET Rows
  PROVE  /\ Len(Plan(c, db)) = Length(c) /\ Length(c) \in 1..4
         /\ \A i \in 1..Length(c) :
              Plan(c, db)[i] \subseteq (Promise!Scope(c) \cup Promise!Adds(c)) \cap Rows
         /\ \A x \in Promise!Removes(c, db) :
              Stage(c, x) \in 1..Length(c) /\ x \in Plan(c, db)[Stage(c, x)]
         /\ Inserts(c) => Length(c) = 1 /\ Plan(c, db)[1] = Promise!Adds(c)
<1>1. CASE c.op = "delete_organization"
  <2>1. Plan(c, db) = <<Promise!OrgMembers \cap db,
                     Promise!OrgProjects,
                     InProjects(Projects, Users) \cap db,
                     {Org}>>
    BY <1>1, Plans
  <2>2. /\ Len(Plan(c, db)) = 4
        /\ Plan(c, db)[1] = Promise!OrgMembers \cap db
        /\ Plan(c, db)[2] = Promise!OrgProjects
        /\ Plan(c, db)[3] = InProjects(Projects, Users) \cap db
        /\ Plan(c, db)[4] = {Org}
    BY <2>1
  <2>3. Promise!Scope(c) = Rows /\ Promise!Adds(c) = {} /\ Promise!Removes(c, db) \subseteq db
    BY <1>1 DEF Rows, Promise!Scope, Promise!Adds, Promise!Removes
  <2>4. /\ Promise!OrgMembers \subseteq Rows /\ Promise!OrgProjects \subseteq Rows
        /\ InProjects(Projects, Users) \subseteq Rows /\ Org \in Rows
    BY DEF InProjects, Rows, Org, ProjectMember, Promise!Rows, Promise!OrgMembers,
           Promise!OrgProjects, Promise!ProjectMembers, Promise!Org
  <2>5. Length(c) = 4 /\ ~Inserts(c)
    BY <1>1 DEF Length, Inserts
  <2>6. ASSUME NEW x \in db
        PROVE  Stage(c, x) \in 1..4 /\ x \in Plan(c, db)[Stage(c, x)]
    BY <1>1, <2>2, RowFacts DEF Stage
  <2>7. \A i \in 1..4 : Plan(c, db)[i] \subseteq Rows
    <3> SUFFICES ASSUME NEW i \in 1..4 PROVE Plan(c, db)[i] \subseteq Rows
      OBVIOUS
    <3>1. i = 1 \/ i = 2 \/ i = 3 \/ i = 4
      OBVIOUS
    <3> QED
      BY <2>2, <2>4, <3>1
  <2> QED
    BY <2>2, <2>3, <2>5, <2>6, <2>7
<1>2. CASE c.op = "remove_member"
  <2>1. Plan(c, db) = <<InProjects(Live(db), {c.user}) \cap db,
                     {Member(c.user)} \cap db>>
    BY <1>2, Plans
  <2>2. /\ Len(Plan(c, db)) = 2
        /\ Plan(c, db)[1] = InProjects(Live(db), {c.user}) \cap db
        /\ Plan(c, db)[2] = {Member(c.user)} \cap db
    BY <2>1
  <2>3. /\ Promise!Scope(c) = {Member(c.user)} \cup InProjects(Projects, {c.user})
        /\ Promise!Adds(c) = {} /\ ~Inserts(c) /\ Length(c) = 2
    BY <1>2 DEF Length, Inserts, InProjects, Member, ProjectMember, Promise!Scope, Promise!Adds
  <2>4. \A x \in Promise!Removes(c, db) :
          x \in Promise!Scope(c) /\ x \in db /\ (x.table = "project_members" => Project(x.project) \in db)
    BY <1>2 DEF Promise!Removes, Project
  <2>5. ASSUME NEW x \in Promise!Removes(c, db)
        PROVE  Stage(c, x) \in 1..2 /\ x \in Plan(c, db)[Stage(c, x)]
    <3>1. CASE x = Member(c.user)
      <4>1. x.table = "organization_members"
        BY <3>1 DEF Member, Promise!Member, Promise!Row
      <4> QED
        BY <1>2, <2>2, <2>4, <3>1, <4>1 DEF Stage
    <3>2. ASSUME NEW p \in Projects, x = ProjectMember(p, c.user)
          PROVE  Stage(c, x) \in 1..2 /\ x \in Plan(c, db)[Stage(c, x)]
      <4>1. x.table = "project_members" /\ x.project = p
        BY <3>2 DEF ProjectMember, Promise!ProjectMember, Promise!Row
      <4>2. x \in InProjects(Live(db), {c.user}) \cap db
        BY <2>4, <3>2, <4>1 DEF InProjects, Live
      <4> QED
        BY <1>2, <2>2, <4>1, <4>2 DEF Stage
    <3> QED
      BY <2>3, <2>4, <3>1, <3>2 DEF InProjects
  <2>6. \A i \in 1..2 : Plan(c, db)[i] \subseteq Promise!Scope(c) \cap Rows
    <3> SUFFICES ASSUME NEW i \in 1..2 PROVE Plan(c, db)[i] \subseteq Promise!Scope(c) \cap Rows
      OBVIOUS
    <3>1. i = 1 \/ i = 2
      OBVIOUS
    <3> QED
      BY <2>2, <2>3, <3>1 DEF InProjects, Live
  <2> QED
    BY <2>2, <2>3, <2>5, <2>6
<1>3. CASE c.op = "delete_project"
  <2>1. Plan(c, db) = <<InProjects({c.project}, Users) \cap db,
                     {Project(c.project)}>>
    BY <1>3, Plans
  <2>2. /\ Len(Plan(c, db)) = 2
        /\ Plan(c, db)[1] = InProjects({c.project}, Users) \cap db
        /\ Plan(c, db)[2] = {Project(c.project)}
    BY <2>1
  <2> QED
    BY <1>3, <2>2
    DEF Length, Stage, Inserts, InProjects, Live, Rows, Org, Member, Project, ProjectMember,
        Promise!Calls, Promise!Call, Promise!Adds, Promise!Scope, Promise!Removes, Promise!Rows,
        Promise!OrgMembers, Promise!OrgProjects, Promise!ProjectMembers, Promise!Org,
        Promise!Member, Promise!Project, Promise!ProjectMember, Promise!Row
<1>4. CASE c.op = "remove_project_member"
  <2>1. Plan(c, db) = <<InProjects({c.project}, {c.user}) \cap db>>
    BY <1>4, Plans
  <2>2. /\ Len(Plan(c, db)) = 1
        /\ Plan(c, db)[1] = InProjects({c.project}, {c.user}) \cap db
    BY <2>1
  <2> QED
    BY <1>4, <2>2
    DEF Length, Stage, Inserts, InProjects, Live, Rows, Org, Member, Project, ProjectMember,
        Promise!Calls, Promise!Call, Promise!Adds, Promise!Scope, Promise!Removes, Promise!Rows,
        Promise!OrgMembers, Promise!OrgProjects, Promise!ProjectMembers, Promise!Org,
        Promise!Member, Promise!Project, Promise!ProjectMember, Promise!Row
<1>5. CASE c.op = "add_member"
  <2>1. Plan(c, db) = <<{Member(c.user)}>>
    BY <1>5, Plans
  <2>2. /\ Len(Plan(c, db)) = 1
        /\ Plan(c, db)[1] = {Member(c.user)}
    BY <2>1
  <2> QED
    BY <1>5, <2>2
    DEF Length, Stage, Inserts, InProjects, Live, Rows, Org, Member, Project, ProjectMember,
        Promise!Calls, Promise!Call, Promise!Adds, Promise!Scope, Promise!Removes, Promise!Rows,
        Promise!OrgMembers, Promise!OrgProjects, Promise!ProjectMembers, Promise!Org,
        Promise!Member, Promise!Project, Promise!ProjectMember, Promise!Row
<1>6. CASE c.op = "add_project_member"
  <2>1. Plan(c, db) = <<InProjects({c.project}, {c.user})>>
    BY <1>6, Plans
  <2>2. /\ Len(Plan(c, db)) = 1
        /\ Plan(c, db)[1] = InProjects({c.project}, {c.user})
    BY <2>1
  <2> QED
    BY <1>6, <2>2
    DEF Length, Stage, Inserts, InProjects, Live, Rows, Org, Member, Project, ProjectMember,
        Promise!Calls, Promise!Call, Promise!Adds, Promise!Scope, Promise!Removes, Promise!Rows,
        Promise!OrgMembers, Promise!OrgProjects, Promise!ProjectMembers, Promise!Org,
        Promise!Member, Promise!Project, Promise!ProjectMember, Promise!Row
<1> QED
  BY <1>1, <1>2, <1>3, <1>4, <1>5, <1>6, Operations

-----------------------------------------------------------------------------
Types ==
  /\ rows \in SUBSET Rows
  /\ call \in [Txns -> Promise!Calls \cup {Nil}]
  /\ status \in [Txns -> {"new", "active", "committed", "aborted"}]
  /\ must \in [Txns -> SUBSET Rows]
  /\ stmt \in [Txns -> 0..4]
  /\ todo \in [Txns -> SUBSET Rows]
  /\ want \in [Txns -> Rows \cup {Nil}]
  /\ lock \in [Rows -> Txns \cup {Nil}]

\* A transaction that is not under way has nothing.
Resting(t) ==
  status[t] # "active" =>
    /\ call[t] = Nil /\ stmt[t] = 0 /\ must[t] = {} /\ todo[t] = {}
    /\ \A x \in Rows : lock[x] # t

\* One that is has locked the rows its statements were for, or has still to.
Working(t) ==
  status[t] = "active" =>
    /\ call[t] \in Promise!Calls
    /\ stmt[t] <= Length(call[t])
    /\ must[t] \subseteq rows
    /\ todo[t] \subseteq Promise!Scope(call[t]) \cup Promise!Adds(call[t])
    /\ \A x \in Rows : lock[x] = t => x \in Promise!Scope(call[t]) \cup Promise!Adds(call[t])
    /\ \A x \in must[t] \cap Promise!Removes(call[t], rows) :
         Stage(call[t], x) > stmt[t] \/ x \in todo[t] \/ lock[x] = t
    /\ Inserts(call[t]) =>
         /\ \A x \in Rows : lock[x] = t => x \notin rows
         /\ stmt[t] = 1 => \A x \in Promise!Adds(call[t]) : x \in todo[t] \/ lock[x] = t

Job(t) == Resting(t) /\ Working(t) /\ (want[t] # Nil => want[t] \in todo[t])

Inv == Types /\ \A t \in Txns : Job(t)

LEMMA InvInit == Init => Inv
BY StartAssumption, NilAssumption
DEF Init, Inv, Types, Job, Resting, Working, Rows

LEMMA CallFacts == ASSUME NEW c \in Promise!Calls PROVE c # Nil
BY NilAssumption

\* A row that is to be removed now was so before, if it was there: projects are
\* not added by these handlers.
LEMMA RemovesOnlyShrink ==
  ASSUME NEW c, NEW db \in SUBSET Rows, NEW db2 \in SUBSET Rows,
         \A p \in Projects : Project(p) \in db2 => Project(p) \in db,
         NEW x \in Promise!Removes(c, db2), x \in db
  PROVE  x \in Promise!Removes(c, db)
<1>1. x \in Rows /\ x \in Promise!Scope(c)
  BY DEF Promise!Removes
<1>2. x.table = "project_members" => x.project \in Projects
  BY <1>1, RowFacts DEF Org, InProjects, ProjectMember, Promise!ProjectMember, Promise!Row,
     Promise!OrgMembers, Promise!OrgProjects, Promise!Org, Promise!Member, Promise!Project
<1> QED
  BY <1>1, <1>2 DEF Promise!Removes, Project

\* Only the two handlers that add members insert rows, and no projects.
LEMMA AddsFacts ==
  ASSUME NEW c \in Promise!Calls
  PROVE  /\ Promise!Adds(c) \subseteq Rows
         /\ ~Inserts(c) => Promise!Adds(c) = {}
         /\ \A p : Project(p) \notin Promise!Adds(c)
<1>1. CASE c.op = "add_member"
  BY <1>1
  DEF Promise!Calls, Promise!Call, Promise!Adds, Inserts, Project, Rows, Promise!Rows,
      Promise!OrgMembers, Promise!Member, Promise!Project, Promise!Row
<1>2. CASE c.op = "add_project_member"
  BY <1>2
  DEF Promise!Calls, Promise!Call, Promise!Adds, Inserts, Project, Rows, Promise!Rows,
      Promise!ProjectMembers, Promise!ProjectMember, Promise!Project, Promise!Row
<1>3. CASE ~Inserts(c)
  BY <1>3 DEF Promise!Adds, Inserts
<1> QED
  BY <1>1, <1>2, <1>3 DEF Inserts

-----------------------------------------------------------------------------
\* What another transaction may do: end the wait for rows it has removed.
Apart(t) ==
  /\ status'[t] = status[t] /\ call'[t] = call[t] /\ stmt'[t] = stmt[t]
  /\ must'[t] \subseteq must[t] /\ must'[t] \cap rows \subseteq rows'
  /\ todo'[t] \subseteq todo[t] /\ todo[t] \cap must'[t] \subseteq todo'[t]
  /\ call[t] # Nil /\ Inserts(call[t]) => todo'[t] = todo[t]
  /\ want'[t] # Nil => want'[t] = want[t] /\ want[t] \in todo'[t]
  /\ \A x \in Rows : lock'[x] = t <=> lock[x] = t
  /\ \A x \in Rows : lock[x] = t /\ x \notin rows => x \notin rows'
  /\ rows' \in SUBSET Rows
  /\ \A p \in Projects : Project(p) \in rows' => Project(p) \in rows

LEMMA ApartKeepsJob ==
  ASSUME Inv, NEW t \in Txns, Apart(t)
  PROVE  Job(t)'
<1>1. Job(t) /\ rows \in SUBSET Rows
  BY DEF Inv, Types
<1>2. Resting(t)'
  BY <1>1 DEF Job, Resting, Apart
<1>3. want'[t] # Nil => want'[t] \in todo'[t]
  BY <1>1 DEF Job, Apart
<1>4. ASSUME status[t] = "active" PROVE Working(t)'
  <2> DEFINE c == call[t]
  <2>1. c \in Promise!Calls /\ c # Nil /\ must[t] \subseteq rows
    BY <1>1, <1>4, CallFacts DEF Job, Working
  <2>2. must'[t] \cap Promise!Removes(c, rows') \subseteq Promise!Removes(c, rows)
    BY <1>1, <2>1, RemovesOnlyShrink DEF Apart
  <2> HIDE DEF c
  <2>3. /\ stmt'[t] <= Length(c) /\ must'[t] \subseteq rows'
        /\ todo'[t] \subseteq Promise!Scope(c) \cup Promise!Adds(c)
        /\ \A x \in Rows : lock'[x] = t => x \in Promise!Scope(c) \cup Promise!Adds(c)
    BY <1>1, <1>4, <2>1 DEF Job, Working, Apart, c
  <2>4. \A x \in must'[t] \cap Promise!Removes(c, rows') :
          Stage(c, x) > stmt'[t] \/ x \in todo'[t] \/ lock'[x] = t
    <3> SUFFICES ASSUME NEW x \in must'[t] \cap Promise!Removes(c, rows')
                 PROVE  Stage(c, x) > stmt'[t] \/ x \in todo'[t] \/ lock'[x] = t
      OBVIOUS
    <3>1. x \in must[t] \cap Promise!Removes(c, rows) /\ x \in Rows
      BY <1>1, <2>1, <2>2 DEF Apart
    <3>2. Stage(c, x) > stmt[t] \/ x \in todo[t] \/ lock[x] = t
      BY <1>1, <1>4, <3>1 DEF Job, Working, c
    <3> QED
      BY <3>1, <3>2 DEF Apart
  <2>5. Inserts(c) =>
          /\ \A x \in Rows : lock'[x] = t => x \notin rows'
          /\ stmt'[t] = 1 => \A x \in Promise!Adds(c) : x \in todo'[t] \/ lock'[x] = t
    <3> SUFFICES ASSUME Inserts(c)
                 PROVE  /\ \A x \in Rows : lock'[x] = t => x \notin rows'
                        /\ stmt'[t] = 1 => \A x \in Promise!Adds(c) : x \in todo'[t] \/ lock'[x] = t
      OBVIOUS
    <3>1. /\ \A x \in Rows : lock[x] = t => x \notin rows
          /\ stmt[t] = 1 => \A x \in Promise!Adds(c) : x \in todo[t] \/ lock[x] = t
      BY <1>1, <1>4 DEF Job, Working, c
    <3>2. Promise!Adds(c) \subseteq Rows
      BY <2>1, AddsFacts
    <3> QED
      BY <2>1, <3>1, <3>2 DEF Apart, c
  <2> QED
    BY <2>1, <2>3, <2>4, <2>5 DEF Working, Apart, c
<1>5. status[t] # "active" => Working(t)'
  BY DEF Working, Apart
<1> QED
  BY <1>2, <1>3, <1>4, <1>5 DEF Job

\* Another transaction that only reads, locks rows or ends without a trace.
LEMMA Untouched ==
  ASSUME Inv, NEW s \in Txns, rows' = rows,
         status'[s] = status[s], call'[s] = call[s], stmt'[s] = stmt[s],
         must'[s] = must[s], todo'[s] = todo[s], want'[s] = want[s],
         \A x \in Rows : lock'[x] = s <=> lock[x] = s
  PROVE  Apart(s)
<1>1. rows \in SUBSET Rows /\ (want[s] # Nil => want[s] \in todo[s])
  BY DEF Inv, Types, Job
<1> QED
  BY <1>1 DEF Apart

\* It is enough to look at the transaction that takes the step.
LEMMA OneMoves ==
  ASSUME Inv, Types', NEW t \in Txns, Job(t)', \A s \in Txns \ {t} : Apart(s)
  PROVE  Inv'
BY ApartKeepsJob DEF Inv

\* What the transaction t has done goes away with it.
LEMMA AbortStep ==
  ASSUME Inv, NEW t \in Txns, Abort(t)
  PROVE  Inv'
<1>t. Types
  BY DEF Inv
<1>1. Types'
  BY <1>t DEF Types, Abort, End, Rows
<1>2. Job(t)'
  BY <1>t, NilAssumption DEF Types, Abort, End, Job, Resting, Working, Rows
<1>3. ASSUME NEW s \in Txns \ {t} PROVE Apart(s)
  <2>1. /\ status'[s] = status[s] /\ call'[s] = call[s] /\ stmt'[s] = stmt[s]
        /\ must'[s] = must[s] /\ todo'[s] = todo[s] /\ want'[s] = want[s] /\ rows' = rows
    BY <1>t DEF Types, Abort, End
  <2>2. \A x \in Rows : lock'[x] = s <=> lock[x] = s
    BY NilAssumption DEF Abort, End, Rows
  <2> QED
    BY <2>1, <2>2, Untouched
<1> QED
  BY <1>1, <1>2, <1>3, OneMoves

LEMMA InvStep == Inv /\ [Next]_vars => Inv'
<1> SUFFICES ASSUME Inv, [Next]_vars PROVE Inv'
  OBVIOUS
<1>t. Types /\ \A s \in Txns : Job(s)
  BY DEF Inv
<1>1. ASSUME UNCHANGED vars PROVE Inv'
  BY <1>1 DEF vars, requests, running, Inv, Types, Job, Resting, Working
<1>2. ASSUME NEW t \in Txns, NEW c \in Calls, Begin(t, c) PROVE Inv'
  <2>1. c \in Promise!Calls
    BY DEF Calls
  <2>2. Promise!Removes(c, rows) \subseteq rows
    BY DEF Promise!Removes
  <2>3. Types'
    BY <1>2, <1>t, <2>1, <2>2 DEF Begin, Types, running
  <2>4. Job(t)'
    <3>1. /\ status'[t] = "active" /\ call'[t] = c /\ must'[t] = Promise!Removes(c, rows)
          /\ UNCHANGED <<rows, stmt, todo, want, lock>>
          /\ stmt[t] = 0 /\ todo[t] = {} /\ want[t] = Nil /\ \A x \in Rows : lock[x] # t
      BY <1>2, <1>t DEF Begin, Types, running, Job, Resting
    <3>2. Length(c) \in 1..4 /\ \A x \in Promise!Removes(c, rows) : Stage(c, x) \in 1..Length(c)
      BY <1>t, <2>1, PlanFacts DEF Types
    <3> QED
      BY <2>1, <2>2, <3>1, <3>2 DEF Job, Resting, Working
  <2>5. ASSUME NEW s \in Txns \ {t} PROVE Apart(s)
    <3>1. /\ status'[s] = status[s] /\ call'[s] = call[s] /\ stmt'[s] = stmt[s]
          /\ must'[s] = must[s] /\ todo'[s] = todo[s] /\ want'[s] = want[s] /\ rows' = rows
      BY <1>2, <1>t DEF Begin, Types, running
    <3>2. \A x \in Rows : lock'[x] = s <=> lock[x] = s
      BY <1>2 DEF Begin, running
    <3> QED
      BY <3>1, <3>2, Untouched
  <2> QED
    BY <2>3, <2>4, <2>5, OneMoves
<1>3. ASSUME NEW t \in Txns, Execute(t) PROVE Inv'
  <2> DEFINE c == call[t]
             n == stmt[t] + 1
  <2>1. /\ status[t] = "active" /\ todo[t] = {} /\ c \in Promise!Calls /\ want[t] = Nil
        /\ stmt[t] \in 0..4 /\ stmt[t] <= Length(c)
    BY <1>3, <1>t DEF Execute, StatementDone, Types, Job, Working
  <2>2. /\ Len(Plan(c, rows)) = Length(c) /\ Length(c) \in 1..4
        /\ \A i \in 1..Length(c) :
             Plan(c, rows)[i] \subseteq (Promise!Scope(c) \cup Promise!Adds(c)) \cap Rows
        /\ \A x \in Promise!Removes(c, rows) :
             Stage(c, x) \in 1..Length(c) /\ x \in Plan(c, rows)[Stage(c, x)]
        /\ Inserts(c) => Length(c) = 1 /\ Plan(c, rows)[1] = Promise!Adds(c)
    BY <1>t, <2>1, PlanFacts DEF Types
  <2>3. n \in 1..Length(c)
    BY <1>3, <2>1, <2>2 DEF Execute, LastStatement
  <2>4. /\ stmt' = [stmt EXCEPT ![t] = n] /\ todo' = [todo EXCEPT ![t] = Plan(c, rows)[n]]
        /\ UNCHANGED <<rows, call, status, must, want, lock>>
    BY <1>3 DEF Execute, requests
  <2>5. Types'
    BY <1>t, <2>2, <2>3, <2>4 DEF Types
  <2>6. Job(t)'
    <3>1. /\ stmt'[t] = n /\ todo'[t] = Plan(c, rows)[n] /\ call'[t] = c
          /\ status'[t] = "active" /\ must'[t] = must[t] /\ want'[t] = Nil
      BY <1>t, <2>1, <2>4 DEF Types
    <3> HIDE DEF c, n
    <3>2. \A x \in must[t] \cap Promise!Removes(c, rows) :
            Stage(c, x) > n \/ x \in Plan(c, rows)[n] \/ lock[x] = t
      <4> SUFFICES ASSUME NEW x \in must[t] \cap Promise!Removes(c, rows),
                          ~(Stage(c, x) > n)
                   PROVE  x \in Plan(c, rows)[n] \/ lock[x] = t
        OBVIOUS
      <4>1. CASE Stage(c, x) = n
        BY <2>2, <4>1
      <4>2. CASE Stage(c, x) # n
        <5>1. ~(Stage(c, x) > stmt[t])
          BY <2>1, <2>2, <4>2 DEF n
        <5> QED
          BY <1>t, <2>1, <5>1 DEF Job, Working, c
      <4> QED
        BY <4>1, <4>2
    <3>3. Plan(c, rows)[n] \subseteq Promise!Scope(c) \cup Promise!Adds(c)
      BY <2>2, <2>3
    <3>4. Inserts(c) => n = 1 /\ Plan(c, rows)[n] = Promise!Adds(c)
      BY <2>2, <2>3
    <3>5. /\ must[t] \subseteq rows
          /\ \A x \in Rows : lock[x] = t => x \in Promise!Scope(c) \cup Promise!Adds(c)
          /\ Inserts(c) => \A x \in Rows : lock[x] = t => x \notin rows
      BY <1>t, <2>1 DEF Job, Working, c
    <3>6. n <= Length(c)
      BY <2>2, <2>3
    <3> QED
      BY <2>1, <2>4, <3>1, <3>2, <3>3, <3>4, <3>5, <3>6 DEF Job, Resting, Working
  <2>7. ASSUME NEW s \in Txns \ {t} PROVE Apart(s)
    <3> HIDE DEF n, c
    <3>1. /\ status'[s] = status[s] /\ call'[s] = call[s] /\ stmt'[s] = stmt[s]
          /\ must'[s] = must[s] /\ todo'[s] = todo[s] /\ want'[s] = want[s] /\ rows' = rows
      BY <1>t, <2>4 DEF Types
    <3>2. \A x \in Rows : lock'[x] = s <=> lock[x] = s
      BY <2>4
    <3> QED
      BY <3>1, <3>2, Untouched
  <2> QED
    BY <2>5, <2>6, <2>7, OneMoves
<1>4. ASSUME NEW t \in Txns, NEW x \in todo[t], Lock(t, x) PROVE Inv'
  <2>1. /\ x \in Rows /\ lock[x] = Nil /\ lock' = [lock EXCEPT ![x] = t]
        /\ todo' = [todo EXCEPT ![t] = todo[t] \ {x}] /\ want' = [want EXCEPT ![t] = Nil]
        /\ UNCHANGED <<rows, call, status, must, stmt>>
        /\ Inserts(call[t]) => x \notin rows
        /\ status[t] = "active"
    BY <1>4, <1>t DEF Lock, Duplicate, requests, Types, Job, Resting
  <2>2. Types'
    BY <1>t, <2>1 DEF Types
  <2>3. Job(t)'
    BY <1>t, <2>1 DEF Types, Job, Resting, Working
  <2>4. ASSUME NEW s \in Txns \ {t} PROVE Apart(s)
    <3>1. /\ status'[s] = status[s] /\ call'[s] = call[s] /\ stmt'[s] = stmt[s]
          /\ must'[s] = must[s] /\ todo'[s] = todo[s] /\ want'[s] = want[s] /\ rows' = rows
      BY <1>t, <2>1 DEF Types
    <3>2. \A y \in Rows : lock'[y] = s <=> lock[y] = s
      BY <1>t, <2>1, NilAssumption DEF Types
    <3> QED
      BY <3>1, <3>2, Untouched
  <2> QED
    BY <2>2, <2>3, <2>4, OneMoves
<1>5. ASSUME NEW t \in Txns, NEW x \in todo[t], Wait(t, x) PROVE Inv'
  <2>1. /\ x \in Rows /\ want' = [want EXCEPT ![t] = x]
        /\ UNCHANGED <<rows, call, status, must, stmt, todo, lock>>
    BY <1>5, <1>t DEF Wait, requests, Types
  <2>2. Types'
    BY <1>t, <2>1 DEF Types
  <2>3. Job(t)'
    BY <1>5, <1>t, <2>1 DEF Types, Job, Resting, Working
  <2>4. ASSUME NEW s \in Txns \ {t} PROVE Apart(s)
    <3>1. /\ status'[s] = status[s] /\ call'[s] = call[s] /\ stmt'[s] = stmt[s]
          /\ must'[s] = must[s] /\ todo'[s] = todo[s] /\ want'[s] = want[s] /\ rows' = rows
      BY <1>t, <2>1 DEF Types
    <3>2. \A y \in Rows : lock'[y] = s <=> lock[y] = s
      BY <2>1
    <3> QED
      BY <3>1, <3>2, Untouched
  <2> QED
    BY <2>2, <2>3, <2>4, OneMoves
<1>6. ASSUME NEW t \in Txns, Abort(t) PROVE Inv'
  BY <1>6, AbortStep
<1>7. ASSUME NEW t \in Txns, Commit(t) PROVE Inv'
  <2> DEFINE gone == Held(t) \cap rows
             adds == Promise!Adds(call[t])
  <2>1. call[t] \in Promise!Calls /\ status[t] = "active"
    BY <1>7, <1>t DEF Commit, StatementDone, Job, Working
  <2>2. /\ adds \subseteq Rows /\ \A p : Project(p) \notin adds
        /\ ~Inserts(call[t]) => adds = {}
    BY <2>1, AddsFacts
  <2>3. /\ todo[t] = {}
        /\ status' = [status EXCEPT ![t] = "committed"] /\ call' = [call EXCEPT ![t] = Nil]
        /\ stmt' = [stmt EXCEPT ![t] = 0]
        /\ lock' = [x \in Rows |-> IF lock[x] = t THEN Nil ELSE lock[x]]
        /\ rows' = (rows \ gone) \cup adds
        /\ must' = [s \in Txns |-> IF s = t THEN {} ELSE must[s] \ gone]
        /\ todo' = [s \in Txns |->
             IF call[s] # Nil /\ Inserts(call[s]) THEN todo[s] ELSE todo[s] \ gone]
        /\ want' = [s \in Txns |-> IF want[s] \in todo'[s] THEN want[s] ELSE Nil]
    BY <1>7 DEF Commit, StatementDone, End, Rows
  \* The rows it adds are rows it holds.
  <2>4. \A x \in adds : lock[x] = t
    <3>1. CASE Inserts(call[t])
      <4>1. stmt[t] = 1
        BY <1>7, <1>t, <2>1, <3>1, PlanFacts DEF Commit, LastStatement, Types
      <4> QED
        BY <1>t, <2>1, <2>3, <3>1, <4>1 DEF Job, Working
    <3> QED
      BY <2>2, <3>1
  <2>5. gone \subseteq rows /\ \A x \in gone : lock[x] = t
    BY DEF Held
  <2> HIDE DEF gone, adds
  <2>6. Types'
    <3>1. todo' \in [Txns -> SUBSET Rows]
      BY <1>t, <2>3 DEF Types
    <3>2. want' \in [Txns -> Rows \cup {Nil}]
      BY <1>t, <2>3 DEF Types
    <3> QED
      BY <1>t, <2>2, <2>3, <3>1, <3>2 DEF Types
  <2>7. Job(t)'
    <3>1. /\ status'[t] = "committed" /\ call'[t] = Nil /\ stmt'[t] = 0 /\ must'[t] = {}
          /\ todo'[t] = {} /\ \A x \in Rows : lock'[x] # t
      BY <1>t, <2>3, NilAssumption DEF Types
    <3>2. want'[t] = Nil
      BY <2>3, <3>1
    <3> QED
      BY <3>1, <3>2 DEF Job, Resting, Working
  <2>8. ASSUME NEW s \in Txns \ {t} PROVE Apart(s)
    <3>1. /\ status'[s] = status[s] /\ call'[s] = call[s] /\ stmt'[s] = stmt[s]
          /\ must'[s] = must[s] \ gone
          /\ todo'[s] = (IF call[s] # Nil /\ Inserts(call[s]) THEN todo[s] ELSE todo[s] \ gone)
      BY <1>t, <2>3 DEF Types
    <3>5. want'[s] # Nil => want'[s] = want[s] /\ want[s] \in todo'[s]
      BY <2>3
    <3>2. \A x \in Rows : lock'[x] = s <=> lock[x] = s
      BY <1>t, <2>3, NilAssumption DEF Types
    <3>3. \A x \in Rows : lock[x] = s /\ x \notin rows => x \notin rows'
      BY <2>3, <2>4
    <3>4. \A p \in Projects : Project(p) \in rows' => Project(p) \in rows
      BY <2>2, <2>3
    <3> QED
      BY <2>3, <2>6, <3>1, <3>2, <3>3, <3>4, <3>5 DEF Types, Apart
  <2> QED
    BY <2>6, <2>7, <2>8, OneMoves
<1> QED
  BY <1>1, <1>2, <1>3, <1>4, <1>5, <1>6, <1>7 DEF Next, Step, Refused, Victim

LEMMA AlwaysInv == Spec => []Inv
BY InvInit, InvStep, PTL DEF Spec

-----------------------------------------------------------------------------
\* For any users, projects and requests: only a transaction under way holds
\* locks, it waits only for rows its statement has still to write, and all
\* variables keep their types.
THEOREM TypeCorrect == Spec => []TypeOK
<1>1. Inv => TypeOK
  <2> SUFFICES ASSUME Inv PROVE TypeOK
    OBVIOUS
  <2>1. Types /\ \A t \in Txns : Job(t)
    BY DEF Inv
  <2>2. ASSUME NEW x \in Promise!Rows, lock[x] # Nil PROVE status[lock[x]] = "active"
    BY <2>1, <2>2 DEF Types, Job, Resting, Rows
  <2> QED
    BY <2>1, <2>2 DEF TypeOK, Types, Job, Rows
<1> QED
  BY <1>1, AlwaysInv, PTL

\* The transaction that commits has written all the rows it was to write.
LEMMA CommitKeepsPromise ==
  ASSUME Inv, NEW t \in Txns, Commit(t)
  PROVE  Promise!Commit(t)
<1> DEFINE c == call[t]
           gone == Held(t) \cap rows
<1>t. Types /\ Job(t)
  BY DEF Inv
<1>1. /\ status[t] = "active" /\ todo[t] = {} /\ c \in Promise!Calls
      /\ stmt[t] = Len(Plan(c, rows))
      /\ status' = [status EXCEPT ![t] = "committed"] /\ call' = [call EXCEPT ![t] = Nil]
      /\ rows' = (rows \ gone) \cup Promise!Adds(c)
      /\ must' = [s \in Txns |-> IF s = t THEN {} ELSE must[s] \ gone]
  BY <1>t DEF Commit, StatementDone, LastStatement, End, Job, Working
<1>2. /\ stmt[t] = Length(c)
      /\ \A x \in Promise!Removes(c, rows) : Stage(c, x) \in 1..Length(c)
      /\ Length(c) \in 1..4 /\ (Inserts(c) => Length(c) = 1)
  BY <1>t, <1>1, PlanFacts DEF Types
<1>3. /\ \A x \in Rows : lock[x] = t => x \in Promise!Scope(c) \cup Promise!Adds(c)
      /\ \A x \in must[t] \cap Promise!Removes(c, rows) :
           Stage(c, x) > stmt[t] \/ lock[x] = t
      /\ Inserts(c) =>
           /\ \A x \in Rows : lock[x] = t => x \notin rows
           /\ stmt[t] = 1 => \A x \in Promise!Adds(c) : lock[x] = t
  BY <1>t, <1>1 DEF Job, Working
<1>4. /\ Promise!Adds(c) \subseteq Rows /\ (~Inserts(c) => Promise!Adds(c) = {})
  BY <1>1, AddsFacts
<1>5. \A x : x \in gone <=> x \in Rows /\ x \in rows /\ lock[x] = t
  BY DEF Held, Rows
<1> HIDE DEF c, gone
<1>6. gone \in SUBSET (Promise!Scope(c) \cap rows)
  BY <1>3, <1>4, <1>5
<1>7. must[t] \cap Promise!Removes(c, rows) \subseteq gone
  <2> SUFFICES ASSUME NEW x \in must[t] \cap Promise!Removes(c, rows) PROVE x \in gone
    OBVIOUS
  <2>1. x \in rows /\ x \in Rows
    BY <1>t DEF Promise!Removes, Types
  <2>2. lock[x] = t
    BY <1>2, <1>3
  <2> QED
    BY <1>5, <2>1, <2>2
<1>8. Promise!Adds(c) \cap rows = {}
  BY <1>2, <1>3, <1>4
<1> QED
  BY <1>1, <1>6, <1>7, <1>8 DEF Promise!Commit, c

\* Every step is one of AtomicWrites, or changes nothing it speaks of.
LEMMA StepKeepsPromise == Inv /\ [Next]_vars => [Promise!Next]_(Promise!vars)
<1> SUFFICES ASSUME Inv, [Next]_vars PROVE Promise!Next \/ UNCHANGED Promise!vars
  OBVIOUS
<1>1. ASSUME NEW t \in Txns, NEW c \in Calls, Begin(t, c) PROVE Promise!Next
  <2>1. c \in Promise!Calls /\ Promise!Begin(t, c)
    BY <1>1 DEF Begin, Calls, Promise!Begin
  <2> QED
    BY <2>1 DEF Promise!Next
<1>2. ASSUME NEW t \in Txns, Commit(t) PROVE Promise!Next
  BY <1>2, CommitKeepsPromise DEF Promise!Next
<1>3. ASSUME NEW t \in Txns, Abort(t) PROVE Promise!Next
  <2>1. Promise!Abort(t)
    BY <1>3 DEF Abort, End, Promise!Abort
  <2> QED
    BY <2>1 DEF Promise!Next
<1>4. ASSUME NEW t \in Txns, Execute(t) \/ \E x \in todo[t] : Lock(t, x) \/ Wait(t, x)
      PROVE  UNCHANGED Promise!vars
  BY <1>4 DEF Execute, Lock, Wait, requests, Promise!vars
<1>5. ASSUME UNCHANGED vars PROVE UNCHANGED Promise!vars
  BY <1>5 DEF vars, requests, Promise!vars
<1> QED
  BY <1>1, <1>2, <1>3, <1>4, <1>5 DEF Next, Step, Refused, Victim

\* For any users, projects and requests: however the statements interleave,
\* wait, deadlock and fail, each handler's writes happen at once or not at all,
\* and one that commits has removed every row it found that was still there.
THEOREM Atomicity == Spec => WritesAreAtomic
<1>1. Init => Promise!Init
  BY StartAssumption DEF Init, Promise!Init
<1> QED
  BY <1>1, AlwaysInv, StepKeepsPromise, PTL DEF Spec, WritesAreAtomic, Promise!Spec

-----------------------------------------------------------------------------
(* What EveryTransactionEnds rests on: somebody can always go on, and every *)
(* step uses something up.                                                 *)

\* Nobody outside the set holds what those in it wait for (as in WaitCycles).
Closed(S) == \A t \in S : want[t] # Nil /\ lock[want[t]] \in S

\* Among finitely many transactions that all wait for one another there is a
\* smallest such group, and that is a cycle.
LEMMA CycleAmongWaiting ==
  ASSUME IsFiniteSet(Txns), NEW W \in SUBSET Txns, W # {}, Closed(W)
  PROVE  \E S \in WaitCycles : S \subseteq W
<1> DEFINE T == {S \in SUBSET W : S # {} /\ Closed(S)}
<1>1. IsFiniteSet(W)
  BY FS_Subset
<1>2. IsWellFoundedOn(StrictSubsetOrdering(W), FiniteSubsetsOf(W))
  BY FS_StrictSubsetOrderingWellFounded
<1>3. T \subseteq FiniteSubsetsOf(W) /\ T # {}
  BY <1>1, FS_FiniteSubsetsOfFinite
<1>4. \E S \in T : \A S2 \in T : ~ (<<S2, S>> \in StrictSubsetOrdering(W))
  <2> HIDE DEF T
  <2> QED
    BY <1>2, <1>3, WFMin
<1>5. PICK S \in T : \A S2 \in T : ~ (<<S2, S>> \in StrictSubsetOrdering(W))
  BY <1>4
<1>6. ASSUME NEW S2 \in SUBSET S, S2 # {}, Closed(S2)
      PROVE  S2 = S
  <2>1. S2 \in T /\ S \in SUBSET W
    BY <1>6
  <2>2. S2 # S => <<S2, S>> \in StrictSubsetOrdering(W)
    BY <1>6, <2>1 DEF StrictSubsetOrdering
  <2> QED
    BY <1>5, <2>1, <2>2
<1>7. S \in WaitCycles
  BY <1>6 DEF WaitCycles, Closed
<1> QED
  BY <1>7

\* What a transaction under way needs for one of its steps: those of
\* Execute or Commit, of Lock or Refused, of Wait, and of Victim.
CanGoOn(t) ==
  \/ StatementDone(t)
  \/ \E x \in todo[t] : lock[x] = Nil /\ (want[t] \in {Nil, x} \/ Duplicate(t, x))
  \/ \E x \in todo[t] : lock[x] # Nil /\ want[t] = Nil
  \/ status[t] = "active" /\ \E S \in WaitCycles : t \in S

NobodyStuck ==
  (\E t \in Txns : status[t] = "active") => \E t \in Txns : CanGoOn(t)

\* Whatever rows the requests lock in whatever order, they never all wait for
\* ever: if none of them can execute, lock or commit, then there is a cycle
\* that PostgreSQL finds, and a victim in it.
THEOREM DeadlocksAreFound ==
  ASSUME IsFiniteSet(Txns)
  PROVE  Spec => []NobodyStuck
<1>1. ASSUME Inv, NEW t0 \in Txns, status[t0] = "active", \A t \in Txns : ~CanGoOn(t)
      PROVE  FALSE
  <2> DEFINE W == {t \in Txns : status[t] = "active"}
  <2>1. ASSUME NEW t \in W
        PROVE  want[t] # Nil /\ lock[want[t]] \in W
    <3>1. Types /\ Job(t) /\ status[t] = "active"
      BY <1>1 DEF Inv
    <3>2. todo[t] # {}
      BY <1>1, <3>1 DEF CanGoOn, StatementDone
    <3>3. want[t] # Nil
      BY <1>1, <3>2 DEF CanGoOn
    <3>4. want[t] \in todo[t] /\ want[t] \in Rows
      BY <3>1, <3>3 DEF Job, Types
    <3>5. lock[want[t]] # Nil
      BY <1>1, <3>4 DEF CanGoOn
    <3>6. lock[want[t]] \in Txns
      BY <3>1, <3>4, <3>5 DEF Types
    <3>7. status[lock[want[t]]] = "active"
      BY <1>1, <3>4, <3>6 DEF Inv, Job, Resting
    <3> QED
      BY <3>3, <3>6, <3>7
  <2>2. W \in SUBSET Txns /\ W # {} /\ Closed(W)
    BY <1>1, <2>1 DEF Closed
  <2>3. PICK S \in WaitCycles : S \subseteq W
    <3> HIDE DEF W
    <3> QED
      BY <2>2, CycleAmongWaiting
  <2>4. PICK t \in S : t \in Txns
    BY DEF WaitCycles
  <2> QED
    BY <1>1, <2>3, <2>4 DEF CanGoOn
<1>2. Inv => NobodyStuck
  BY <1>1 DEF NobodyStuck
<1> QED
  BY <1>2, AlwaysInv, PTL

\* A step of a transaction begins it, ends it, takes its next statement (of
\* Length(call[t])), or one of the rows of its statement, or starts a wait.
Onward(t) ==
  \/ status[t] = "new" /\ status'[t] = "active"
  \/ status[t] = "active" /\ status'[t] \in {"committed", "aborted"}
  \/ /\ status[t] = "active" /\ status'[t] = "active"
     /\ \/ stmt'[t] = stmt[t] + 1 /\ stmt'[t] <= Length(call[t])
        \/ stmt'[t] = stmt[t] /\ todo'[t] \subseteq todo[t] /\ todo'[t] # todo[t]
        \/ stmt'[t] = stmt[t] /\ todo'[t] = todo[t] /\ want[t] = Nil /\ want'[t] # Nil

\* One that does not move is set back in none of this: its rows become fewer,
\* and only with the row it waits for does its wait end.
NotBack(t) ==
  /\ status'[t] = status[t] /\ stmt'[t] = stmt[t] /\ call'[t] = call[t]
  /\ todo'[t] \subseteq todo[t]
  /\ todo'[t] = todo[t] => want'[t] = want[t]

\* No transaction repeats itself, or makes another one start over: with
\* finitely many requests and rows only finitely many steps are left.
EveryStepCounts ==
  [][\E t \in Txns : Onward(t) /\ \A s \in Txns \ {t} : NotBack(s)]_vars

\* The other half of what EveryTransactionEnds rests on: there is no livelock
\* between transactions that wait, are skipped and are woken.
THEOREM NothingIsRepeated == Spec => EveryStepCounts
<1>1. ASSUME Inv, [Next]_vars, vars' # vars
      PROVE  \E t \in Txns : Onward(t) /\ \A s \in Txns \ {t} : NotBack(s)
  <2>t. Types /\ \A t \in Txns : Job(t)
    BY <1>1 DEF Inv
  <2>1. ASSUME NEW t \in Txns, NEW c \in Calls, Begin(t, c)
        PROVE  Onward(t) /\ \A s \in Txns \ {t} : NotBack(s)
    BY <2>t, <2>1 DEF Begin, Onward, NotBack, Types, running
  <2>2. ASSUME NEW t \in Txns, Execute(t)
        PROVE  Onward(t) /\ \A s \in Txns \ {t} : NotBack(s)
    <3>1. call[t] \in Promise!Calls /\ stmt[t] <= Length(call[t])
      BY <2>t, <2>2 DEF Execute, StatementDone, Job, Working
    <3>2. stmt[t] # Length(call[t]) /\ Length(call[t]) \in 1..4 /\ stmt[t] \in 0..4
      BY <2>t, <2>2, <3>1, PlanFacts DEF Execute, LastStatement, Types
    <3>3. stmt'[t] = stmt[t] + 1 /\ status'[t] = "active" /\ status[t] = "active"
      BY <2>t, <2>2 DEF Execute, StatementDone, Types, requests
    <3>4. Onward(t)
      BY <3>1, <3>2, <3>3 DEF Onward
    <3>5. \A s \in Txns \ {t} : NotBack(s)
      BY <2>t, <2>2 DEF Execute, NotBack, Types, requests
    <3> QED
      BY <3>4, <3>5
  <2>3. ASSUME NEW t \in Txns, NEW x \in todo[t], Lock(t, x) \/ Wait(t, x)
        PROVE  Onward(t) /\ \A s \in Txns \ {t} : NotBack(s)
    <3>1. status[t] = "active" /\ x \in Rows /\ x # Nil
      BY <2>t, <2>3, NilAssumption DEF Job, Resting, Types, Rows
    <3> QED
      BY <2>t, <2>3, <3>1 DEF Lock, Wait, Onward, NotBack, Types, requests
  <2>4. ASSUME NEW t \in Txns, Abort(t)
        PROVE  Onward(t) /\ \A s \in Txns \ {t} : NotBack(s)
    BY <2>t, <2>4 DEF Abort, End, Onward, NotBack, Types
  <2>5. ASSUME NEW t \in Txns, Commit(t)
        PROVE  Onward(t) /\ \A s \in Txns \ {t} : NotBack(s)
    <3>1. Onward(t)
      BY <2>t, <2>5 DEF Commit, End, StatementDone, Onward, Types
    <3>2. ASSUME NEW s \in Txns \ {t} PROVE NotBack(s)
      <4>1. /\ status'[s] = status[s] /\ stmt'[s] = stmt[s] /\ call'[s] = call[s]
            /\ todo'[s] \subseteq todo[s]
            /\ want'[s] = IF want[s] \in todo'[s] THEN want[s] ELSE Nil
        BY <2>t, <2>5 DEF Commit, End, Types
      <4>2. todo'[s] = todo[s] => want'[s] = want[s]
        BY <2>t, <4>1 DEF Job
      <4> QED
        BY <4>1, <4>2 DEF NotBack
    <3> QED
      BY <3>1, <3>2
  <2> QED
    BY <1>1, <2>1, <2>2, <2>3, <2>4, <2>5 DEF Next, Step, Refused, Victim
<1>2. Inv /\ [Next]_vars =>
        [\E t \in Txns : Onward(t) /\ \A s \in Txns \ {t} : NotBack(s)]_vars
  BY <1>1
<1> QED
  BY <1>2, AlwaysInv, PTL DEF Spec, EveryStepCounts
=============================================================================
