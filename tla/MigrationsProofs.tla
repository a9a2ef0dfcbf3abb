---- MODULE MigrationsProofs ----
(***************************************************************************)
(* SchemaAt(r) is the schema of revision r, table by table.  Each revision *)
(* leads from SchemaAt(r - 1) to SchemaAt(r) and back, or fails at a known *)
(* obstacle (Up, Down); this takes a lemma for each kind of statement and  *)
(* one for what each revision changes.  Upgraded and Downgraded carry that *)
(* over the revisions of a command, SchemaInv over commands and writes.    *)
(***************************************************************************)
EXTENDS Migrations, FiniteSetTheorems, WellFoundedInduction, TLAPS

-----------------------------------------------------------------------------
(* Induction over the statements of a run.                                 *)

\* A set of numbers that has 0, and each number after one it has.
LEMMA UpTo ==
  ASSUME NEW k \in Nat, NEW S \in SUBSET (0 .. k), 0 \in S,
         \A n \in 1 .. k : n - 1 \in S => n \in S
  PROVE  S = 0 .. k
<1> DEFINE T == (0 .. k) \ S
<1> SUFFICES ASSUME T # {} PROVE FALSE
  OBVIOUS
<1> DEFINE below == {0 .. m : m \in T}
<1>1. below \subseteq FiniteSubsetsOf(0 .. k) /\ below # {}
  <2>1. IsFiniteSet(0 .. k)
    BY FS_Interval
  <2>2. \A m \in T : 0 .. m \in SUBSET (0 .. k)
    OBVIOUS
  <2> QED
    BY <2>1, <2>2, FS_FiniteSubsetsOfFinite
<1>2. IsWellFoundedOn(StrictSubsetOrdering(0 .. k), FiniteSubsetsOf(0 .. k))
  BY FS_StrictSubsetOrderingWellFounded
<1>3. PICK B \in below : \A A \in below : <<A, B>> \notin StrictSubsetOrdering(0 .. k)
  BY <1>1, <1>2, WFMin
<1>4. PICK x \in T : B = 0 .. x
  OBVIOUS
<1>5. x \in 1 .. k /\ x - 1 \in T
  OBVIOUS
<1>6. 0 .. x - 1 \in below
  BY <1>5
<1>7. 0 .. x - 1 \subseteq 0 .. x /\ 0 .. x - 1 # 0 .. x
  BY <1>5
<1>8. <<0 .. x - 1, B>> \in StrictSubsetOrdering(0 .. k)
  BY <1>4, <1>5, <1>7 DEF StrictSubsetOrdering
<1> QED
  BY <1>3, <1>6, <1>8

\* The database after each statement, and after each revision of a command.
Statementwise(after, db, ss) ==
  /\ after[0] = db
  /\ \A n \in 1 .. Len(ss) : after[n] = Execute(after[n - 1], ss[n])

Revisionwise(after, db, from, to) ==
  /\ after[0] = db
  /\ \A n \in 1 .. Distance(from, to) :
       after[n] = Executed(after[n - 1], Crossing(from, to, n))

\* What the recursion of Executed computes.
LEMMA ExecutedSteps ==
  ASSUME NEW db, NEW ss, Len(ss) \in Nat
  PROVE  \E after : Statementwise(after, db, ss) /\ Executed(db, ss) = after[Len(ss)]
<1> DEFINE k == Len(ss)
           Is(f, m) == f = [n \in 0 .. m |-> IF n = 0 THEN db ELSE Execute(f[n - 1], ss[n])]
           S == {m \in 0 .. k : \E f : Is(f, m)}
           F == CHOOSE f : Is(f, k)
<1>1. 0 \in S
  <2> DEFINE g == [n \in 0 .. 0 |-> db]
  <2>1. Is(g, 0)
    OBVIOUS
  <2> HIDE DEF Is
  <2> QED
    BY <2>1
<1>2. ASSUME NEW m \in 1 .. k, m - 1 \in S
      PROVE  m \in S
  <2>1. PICK f : Is(f, m - 1)
    BY <1>2
  <2> DEFINE g == [n \in 0 .. m |-> IF n < m THEN f[n] ELSE Execute(f[m - 1], ss[m])]
  <2> HIDE DEF Is
  <2>2. \A n \in 0 .. m : g[n] = IF n = 0 THEN db ELSE Execute(g[n - 1], ss[n])
    <3> SUFFICES ASSUME NEW n \in 0 .. m
                 PROVE  g[n] = IF n = 0 THEN db ELSE Execute(g[n - 1], ss[n])
      OBVIOUS
    <3>1. CASE n < m
      <4>1. n \in 0 .. m - 1 /\ g[n] = f[n] /\ (n # 0 => g[n - 1] = f[n - 1])
        BY <3>1
      <4>2. f[n] = IF n = 0 THEN db ELSE Execute(f[n - 1], ss[n])
        BY <2>1, <4>1 DEF Is
      <4> QED
        BY <4>1, <4>2
    <3>2. CASE n = m
      BY <3>2
    <3> QED
      BY <3>1, <3>2
  <2>3. Is(g, m)
    BY <2>2 DEF Is
  <2> QED
    BY <2>3
<1>3. \E f : Is(f, k)
  <2> HIDE DEF Is
  <2>1. S = 0 .. k
    BY <1>1, <1>2, UpTo
  <2> QED
    BY <2>1
<1>4. Is(F, k)
  BY <1>3
<1>5. Executed(db, ss) = F[k]
  BY DEF Executed
<1>6. F[0] = db /\ \A n \in 1 .. k : F[n] = Execute(F[n - 1], ss[n])
  <2> HIDE DEF F
  <2>1. F = [n \in 0 .. k |-> IF n = 0 THEN db ELSE Execute(F[n - 1], ss[n])]
    BY <1>4
  <2>2. 0 \in 0 .. k /\ \A n \in 1 .. k : n \in 0 .. k /\ n # 0
    OBVIOUS
  <2> QED
    BY <2>1, <2>2
<1>7. Statementwise(F, db, ss)
  BY <1>6 DEF Statementwise
<1> HIDE DEF F
<1> QED
  BY <1>5, <1>7

\* ... and the one of Migrated.
LEMMA MigratedSteps ==
  ASSUME NEW db, NEW from, NEW to, Distance(from, to) \in Nat
  PROVE  \E after : /\ Revisionwise(after, db, from, to)
                    /\ Migrated(db, from, to) = after[Distance(from, to)]
<1> DEFINE k == Distance(from, to)
           Is(f, m) == f = [n \in 0 .. m |-> IF n = 0 THEN db ELSE Executed(f[n - 1], Crossing(from, to, n))]
           S == {m \in 0 .. k : \E f : Is(f, m)}
           F == CHOOSE f : Is(f, k)
<1>1. 0 \in S
  <2> DEFINE g == [n \in 0 .. 0 |-> db]
  <2>1. Is(g, 0)
    OBVIOUS
  <2> HIDE DEF Is
  <2> QED
    BY <2>1
<1>2. ASSUME NEW m \in 1 .. k, m - 1 \in S
      PROVE  m \in S
  <2>1. PICK f : Is(f, m - 1)
    BY <1>2
  <2> DEFINE g == [n \in 0 .. m |-> IF n < m THEN f[n] ELSE Executed(f[m - 1], Crossing(from, to, m))]
  <2> HIDE DEF Is
  <2>2. \A n \in 0 .. m : g[n] = IF n = 0 THEN db ELSE Executed(g[n - 1], Crossing(from, to, n))
    <3> SUFFICES ASSUME NEW n \in 0 .. m
                 PROVE  g[n] = IF n = 0 THEN db ELSE Executed(g[n - 1], Crossing(from, to, n))
      OBVIOUS
    <3>1. CASE n < m
      <4>1. n \in 0 .. m - 1 /\ g[n] = f[n] /\ (n # 0 => g[n - 1] = f[n - 1])
        BY <3>1
      <4>2. f[n] = IF n = 0 THEN db ELSE Executed(f[n - 1], Crossing(from, to, n))
        BY <2>1, <4>1 DEF Is
      <4> QED
        BY <4>1, <4>2
    <3>2. CASE n = m
      BY <3>2
    <3> QED
      BY <3>1, <3>2
  <2>3. Is(g, m)
    BY <2>2 DEF Is
  <2> QED
    BY <2>3
<1>3. \E f : Is(f, k)
  <2> HIDE DEF Is
  <2>1. S = 0 .. k
    BY <1>1, <1>2, UpTo
  <2> QED
    BY <2>1
<1>4. Is(F, k)
  BY <1>3
<1>5. Migrated(db, from, to) = F[k]
  BY DEF Migrated
<1>6. F[0] = db /\ \A n \in 1 .. k : F[n] = Executed(F[n - 1], Crossing(from, to, n))
  <2> HIDE DEF F
  <2>1. F = [n \in 0 .. k |-> IF n = 0 THEN db ELSE Executed(F[n - 1], Crossing(from, to, n))]
    BY <1>4
  <2>2. 0 \in 0 .. k /\ \A n \in 1 .. k : n \in 0 .. k /\ n # 0
    OBVIOUS
  <2> QED
    BY <2>1, <2>2
<1>7. Revisionwise(F, db, from, to)
  BY <1>6 DEF Revisionwise
<1> HIDE DEF F
<1> QED
  BY <1>5, <1>7

-----------------------------------------------------------------------------
(* The schema of each revision.                                            *)

\* The elements, if the database is at revision r or later.
From(r, since, elements) == IF r >= since THEN elements ELSE {}
Until(r, end, elements)  == IF r < end THEN elements ELSE {}

\* The deletion rule of a key before and after 098e90f0e870.
Rule(r, was) == IF r < 15 THEN was ELSE "NO_ACTION"

OrganizationsAt(r) ==
  Table("organizations", {"id", "name"} \union From(r, 2, {"slug"}),
        From(r, 10, {"is_deleted"}))
    \union Stamps("organizations", "updated_at")

UsersAt(r) ==
  Table("users", {"id", "name", "email", "status"} \union Until(r, 14, {"password_hash"}),
        From(r, 9, {"is_verified"}) \union From(r, 10, {"is_deleted"}))
    \union Stamps("users", "updated_at_time")
    \union {UserStatus, Default("users", "status", "active")}
    \union Until(r, 15, {Unique("users", "users_email_key", <<"email">>)})
    \union From(r, 15, {Index("users", "email", "unique"), Index("users", "id", "plain")})

OrganizationMembersAt(r) ==
  LET t == "organization_members"
  IN  Table(t, {"id", "user_id", "organization_id", "role"}, {})
        \union Stamps(t, "updated_at")
        \union {OrgRole, Default(t, "role", "member"),
                ForeignKey(t, "organization_id", "organizations", Rule(r, "CASCADE")),
                ForeignKey(t, "user_id", "users", Rule(r, "CASCADE")),
                Unique(t, "uq_user_org", <<"user_id", "organization_id">>),
                Index(t, "organization_id", "plain"), Index(t, "user_id", "plain")}

ProjectsAt(r) ==
  LET t == "projects"
  IN  Table(t, {"id", "name", "organization_id", "created_by"},
            From(r, 10, {"is_deleted"}))
        \union Stamps(t, "updated_at")
        \union {ForeignKey(t, "created_by", "users", Rule(r, "RESTRICT")),
                ForeignKey(t, "organization_id", "organizations", Rule(r, "CASCADE")),
                Unique(t, "uq_org_project_name", <<"organization_id", "name">>),
                Index(t, "organization_id", "plain")}
        \union From(r, 15, {Index(t, "id", "plain")})

AuditLogsAt(r) ==
  LET t == "audit_logs"
      actors == {"actor_user_id", "organization_id"}
  IN  Table(t, {"id", "timestamp", "action", "resource_type"}
                 \union Until(r, 4, actors) \union Until(r, 6, {"resource_id"}),
            {"status", "meta_data", "ip_address", "user_agent", "endpoint"}
              \union From(r, 4, actors) \union From(r, 6, {"resource_id"}))
        \union {Default(t, "timestamp", "now()")}
        \union Until(r, 5, {ForeignKey(t, "actor_user_id", "users", "NO_ACTION"),
                            ForeignKey(t, "organization_id", "organizations", "NO_ACTION")})

ProjectMembersAt(r) ==
  LET t == "project_members"
  IN  Table(t, {"id", "user_id", "project_id"}, {})
        \union Stamps(t, "updated_at")
        \union {ForeignKey(t, "project_id", "projects", Rule(r, "CASCADE")),
                ForeignKey(t, "user_id", "users", Rule(r, "CASCADE")),
                Unique(t, "uq_user_project", <<"user_id", "project_id">>),
                Index(t, "project_id", "plain"), Index(t, "user_id", "plain")}

AuthIdentities ==
  LET t == "auth_identities"
  IN  Table(t, {"id", "provider"}, {"user_id", "provider_user_id", "password_hash"})
        \union Stamps(t, "updated_at_time")
        \union {Provider, ForeignKey(t, "user_id", "users", "NO_ACTION"),
                Unique(t, "uq_provider_providerid", <<"provider", "provider_user_id">>)}

\* All that the revisions up to r have made of an empty database.
SchemaAt(r) ==
  From(r, 1, OrganizationsAt(r) \union UsersAt(r)
               \union OrganizationMembersAt(r) \union ProjectsAt(r))
    \union From(r, 3, AuditLogsAt(r))
    \union From(r, 7, Table("jti_blocklist", {"id", "jti"}, {}))
    \union From(r, 8, ProjectMembersAt(r))
    \union From(r, 12, AuthIdentities)

-----------------------------------------------------------------------------
(* One statement.                                                          *)

IsDb(db) ==
  /\ db = [schema |-> db.schema, rows |-> db.rows, failed |-> db.failed]
  /\ db.failed \in BOOLEAN

TableOf(t) == <<"table", t, t, "-">>

\* A fact about rows is about a table or column that exists.
Grounded(db) ==
  \A f \in db.rows :
    \E e \in db.schema : IF f[1] = "row" THEN Object(e) = <<"table", f[2], f[2]>>
                                         ELSE Object(e) = <<"column", f[2], f[3]>>

\* No two elements are the same object, and no key has rows that dangle.
WellFormed(db) ==
  /\ \A e \in db.schema : e[1] = "table" => e = TableOf(e[2])
  /\ \A e1, e2 \in db.schema : Object(e1) = Object(e2) => e1 = e2
  /\ Grounded(db)
  /\ \A f \in db.rows : f = <<f[1], f[2], f[3]>>
  /\ \A f \in db.rows, e \in db.schema :
       f[1] = "dangling" => Object(e) # <<"fk", f[2], f[3]>>

\* What holds of every statement of every revision.
Proper(st) ==
  /\ \A e \in st.make : e[1] = "table" => e = TableOf(e[2])
  /\ \A e1, e2 \in st.make : Object(e1) = Object(e2) => e1 = e2

LEMMA ExecuteCases ==
  ASSUME NEW db, IsDb(db), NEW st
  PROVE  /\ IsDb(Execute(db, st))
         /\ Execute(db, st).failed <=> db.failed \/ Refused(db, st)
         /\ ~Execute(db, st).failed =>
              /\ Execute(db, st).schema = Kept(db, st) \union st.make
              /\ Execute(db, st).rows = (db.rows \ Forgotten(db, st)) \union Unfilled(db, st)
<1>1. CASE db.failed \/ Refused(db, st)
  <2>1. Execute(db, st) = [schema |-> db.schema, rows |-> db.rows, failed |-> TRUE]
    BY <1>1 DEF IsDb, Execute
  <2> QED
    BY <1>1, <2>1 DEF IsDb
<1>2. CASE ~(db.failed \/ Refused(db, st))
  <2>1. Execute(db, st) =
          [schema |-> Kept(db, st) \union st.make,
           rows |-> (db.rows \ Forgotten(db, st)) \union Unfilled(db, st),
           failed |-> FALSE]
    BY <1>2 DEF IsDb, Execute
  <2> QED
    BY <1>2, <2>1 DEF IsDb
<1> QED
  BY <1>1, <1>2

LEMMA Grows ==
  ASSUME NEW db, IsDb(db), NEW st
  PROVE  /\ IsDb(Execute(db, st))
         /\ Execute(db, st).schema \subseteq db.schema \union st.make
         /\ ~Execute(db, st).failed => ~db.failed /\ st.drop \subseteq db.schema
<1>1. CASE Execute(db, st).failed
  <2>1. db.failed \/ Refused(db, st)
    BY <1>1, ExecuteCases
  <2>2. Execute(db, st) = [db EXCEPT !.failed = TRUE]
    BY <2>1 DEF Execute
  <2>3. Execute(db, st).schema = db.schema
    BY <2>2 DEF IsDb
  <2> QED
    BY <1>1, <2>3, ExecuteCases
<1>2. CASE ~Execute(db, st).failed
  <2>1. Execute(db, st).schema = Kept(db, st) \union st.make
    BY <1>2, ExecuteCases
  <2>2. ~db.failed /\ ~Refused(db, st)
    BY <1>2, ExecuteCases
  <2> QED
    BY <2>1, <2>2, ExecuteCases DEF Kept, Refused
<1> QED
  BY <1>1, <1>2

\* PostgreSQL keeps a database well-formed, whatever the statement drops.
LEMMA ExecuteKeepsForm ==
  ASSUME NEW db, IsDb(db), WellFormed(db), NEW st, Proper(st), ~Execute(db, st).failed
  PROVE  WellFormed(Execute(db, st))
<1> DEFINE d == Execute(db, st)
<1>1. /\ ~Refused(db, st)
      /\ d.schema = Kept(db, st) \union st.make
      /\ d.rows = (db.rows \ Forgotten(db, st)) \union Unfilled(db, st)
  BY ExecuteCases
<1>u. \A f \in Unfilled(db, st) : \E e \in st.make : e[1] = "column" /\ f = <<"null", e[2], e[3]>>
  BY DEF Unfilled
<1> HIDE DEF d
<1>2. \A e \in d.schema : e[1] = "table" => e = TableOf(e[2])
  BY <1>1 DEF WellFormed, Kept, Proper
<1>3. \A e1, e2 \in d.schema : Object(e1) = Object(e2) => e1 = e2
  <2>1. \A e1 \in Kept(db, st), e2 \in st.make : Object(e1) # Object(e2)
    BY <1>1 DEF Refused, Objects
  <2>2. \A e1, e2 \in Kept(db, st) : Object(e1) = Object(e2) => e1 = e2
    BY DEF Kept, WellFormed
  <2> QED
    BY <1>1, <2>1, <2>2 DEF Proper
<1>4. Grounded(d)
  <2> SUFFICES ASSUME NEW f \in d.rows
               PROVE  \E e \in d.schema : IF f[1] = "row" THEN Object(e) = <<"table", f[2], f[2]>>
                                                          ELSE Object(e) = <<"column", f[2], f[3]>>
    BY DEF Grounded
  <2>1. CASE f \in db.rows \ Forgotten(db, st)
    <3>1. PICK e \in db.schema : IF f[1] = "row" THEN Object(e) = <<"table", f[2], f[2]>>
                                                 ELSE Object(e) = <<"column", f[2], f[3]>>
      BY <2>1 DEF WellFormed, Grounded
    <3>2. /\ ~DropsTable(st, f[2])
          /\ <<"column", f[2], f[3]>> \notin Objects(st.drop) \ Objects(st.make)
      BY <2>1 DEF Forgotten
    <3>3. e[2] = f[2]
      BY <3>1 DEF Object
    <3>4. CASE e \notin st.drop
      BY <1>1, <3>1, <3>2, <3>3, <3>4 DEF Kept
    <3>5. CASE e \in st.drop /\ f[1] = "row"
      <4>1. e[1] = "table"
        BY <3>1, <3>5 DEF Object
      <4>2. e = TableOf(f[2])
        BY <3>3, <4>1 DEF WellFormed
      <4> QED
        BY <3>2, <3>5, <4>2 DEF DropsTable, TableOf
    <3>6. CASE e \in st.drop /\ f[1] # "row"
      <4>1. <<"column", f[2], f[3]>> \in Objects(st.make)
        BY <3>1, <3>2, <3>6 DEF Objects
      <4> QED
        BY <1>1, <3>6, <4>1 DEF Objects
    <3> QED
      BY <3>4, <3>5, <3>6
  <2>2. CASE f \in Unfilled(db, st)
    <3>1. PICK e \in st.make : e[1] = "column" /\ f = <<"null", e[2], e[3]>>
      BY <2>2, <1>u
    <3>2. f[1] # "row" /\ Object(e) = <<"column", f[2], f[3]>>
      BY <3>1 DEF Object
    <3> QED
      BY <1>1, <3>2
  <2> QED
    BY <1>1, <2>1, <2>2
<1>5. \A f \in d.rows, e \in d.schema :
        f[1] = "dangling" => Object(e) # <<"fk", f[2], f[3]>>
  <2> SUFFICES ASSUME NEW f \in d.rows, NEW e \in d.schema, f[1] = "dangling",
                      Object(e) = <<"fk", f[2], f[3]>>
               PROVE  FALSE
    OBVIOUS
  <2>1. f \in db.rows /\ f = <<f[1], f[2], f[3]>>
    <3>1. f \notin Unfilled(db, st)
      BY <1>u
    <3> QED
      BY <1>1, <3>1 DEF WellFormed
  <2>2. e \notin db.schema
    BY <2>1 DEF WellFormed
  <2>3. e \in st.make /\ e[1] = "fk" /\ e[2] = f[2] /\ e[3] = f[3]
    BY <1>1, <2>2 DEF Kept, Object
  <2>4. <<"dangling", e[2], e[3]>> \notin db.rows
    BY <1>1, <2>3 DEF Refused, Unsatisfied
  <2> QED
    BY <2>1, <2>3, <2>4
<1>6. \A f \in d.rows : f = <<f[1], f[2], f[3]>>
  BY <1>1, <1>u DEF WellFormed
<1> QED
  BY <1>2, <1>3, <1>4, <1>5, <1>6 DEF WellFormed, d

\* A statement that drops no table, and makes only what is new or replaced,
\* fails only for the rows.
LEMMA PlainStep ==
  ASSUME NEW db, IsDb(db), WellFormed(db), ~db.failed, NEW st, Proper(st),
         \A e \in st.drop : e[1] # "table",
         st.drop \subseteq db.schema,
         \A e \in st.make : Object(e) \in Objects(st.drop) \/ Object(e) \notin Objects(db.schema)
  PROVE  /\ IsDb(Execute(db, st))
         /\ Execute(db, st).failed <=> \E e \in st.make : Unsatisfied(db, st, e)
         /\ ~Execute(db, st).failed =>
              /\ WellFormed(Execute(db, st))
              /\ Execute(db, st).schema = (db.schema \ st.drop) \union st.make
<1>1. \A t : ~DropsTable(st, t)
  BY DEF DropsTable
<1>2. Kept(db, st) = db.schema \ st.drop
  BY <1>1 DEF Kept
<1>3. Objects(st.make) \intersect Objects(Kept(db, st)) = {}
  <2> SUFFICES ASSUME NEW e \in st.make, NEW k \in db.schema \ st.drop, Object(e) = Object(k)
               PROVE  FALSE
    BY <1>2 DEF Objects
  <2>1. PICK f \in st.drop : Object(f) = Object(e)
    BY DEF Objects
  <2> QED
    BY <2>1 DEF WellFormed
<1>4. Refused(db, st) <=> \E e \in st.make : Unsatisfied(db, st, e)
  BY <1>1, <1>3 DEF Refused
<1> QED
  BY <1>2, <1>4, ExecuteCases, ExecuteKeepsForm

\* What is known about the rows of a table.
About(db, t) == {f \in db.rows : f[2] = t}

LEMMA FactsStay ==
  ASSUME NEW db, IsDb(db), NEW st, ~Execute(db, st).failed, NEW t, ~DropsTable(st, t),
         \A e \in st.drop \union st.make :
           e[1] = "column" /\ e[2] = t =>
             Object(e) \in Objects(st.drop) /\ Object(e) \in Objects(st.make)
  PROVE  About(Execute(db, st), t) = About(db, t)
<1>1. \A f \in Unfilled(db, st) : \E e \in st.make :
        e[1] = "column" /\ Object(e) \notin Objects(st.drop) /\ f = <<"null", e[2], e[3]>>
  BY DEF Unfilled
<1>2. \A f \in Unfilled(db, st) : f[2] # t
  BY <1>1
<1>3. ASSUME NEW f \in Forgotten(db, st), f[2] = t
      PROVE  FALSE
  <2>1. <<"column", t, f[3]>> \in Objects(st.drop) \ Objects(st.make)
    BY <1>3 DEF Forgotten
  <2>2. PICK e \in st.drop : Object(e) = <<"column", t, f[3]>>
    BY <2>1 DEF Objects
  <2>3. e[1] = "column" /\ e[2] = t
    BY <2>2 DEF Object
  <2> QED
    BY <2>1, <2>2, <2>3
<1> QED
  BY <1>2, <1>3, ExecuteCases DEF About

LEMMA NoRowsStay ==
  ASSUME NEW db, IsDb(db), db.rows = {}, NEW st, ~Execute(db, st).failed
  PROVE  Execute(db, st).rows = {}
<1>1. Unfilled(db, st) = {}
  BY DEF Unfilled
<1> QED
  BY <1>1, ExecuteCases

\* An error ends the run.
LEMMA FailureStays ==
  ASSUME NEW db, IsDb(db), db.failed, NEW st
  PROVE  IsDb(Execute(db, st)) /\ Execute(db, st).failed
  BY ExecuteCases

LEMMA FailedRun ==
  ASSUME NEW after, NEW db, NEW ss, Len(ss) \in Nat, Statementwise(after, db, ss),
         NEW n \in 0 .. Len(ss), IsDb(after[n]), after[n].failed
  PROVE  IsDb(after[Len(ss)]) /\ after[Len(ss)].failed
<1> DEFINE S == {m \in 0 .. Len(ss) : m >= n => IsDb(after[m]) /\ after[m].failed}
<1>1. 0 \in S
  OBVIOUS
<1>2. ASSUME NEW m \in 1 .. Len(ss), m - 1 \in S
      PROVE  m \in S
  <2>1. CASE m - 1 >= n
    <3>1. IsDb(after[m - 1]) /\ after[m - 1].failed
      BY <1>2, <2>1
    <3>2. after[m] = Execute(after[m - 1], ss[m])
      BY DEF Statementwise
    <3> QED
      BY <3>1, <3>2, FailureStays
  <2>2. CASE ~(m - 1 >= n)
    BY <2>2
  <2> QED
    BY <2>1, <2>2
<1> HIDE DEF S
<1>3. S = 0 .. Len(ss)
  <2>1. S \in SUBSET (0 .. Len(ss))
    BY DEF S
  <2> QED
    BY <1>1, <1>2, <2>1, UpTo
<1> QED
  BY <1>3 DEF S

LEMMA FailureStaysOn ==
  ASSUME NEW db, IsDb(db), db.failed, NEW ss, Len(ss) \in Nat
  PROVE  IsDb(Executed(db, ss)) /\ Executed(db, ss).failed
<1>1. PICK after : Statementwise(after, db, ss) /\ Executed(db, ss) = after[Len(ss)]
  BY ExecutedSteps
<1>2. after[0] = db
  BY <1>1 DEF Statementwise
<1> QED
  BY <1>1, <1>2, FailedRun

\* DROP TABLE fails only for keys that refer to the table.
LEMMA DropTableStep ==
  ASSUME NEW db, IsDb(db), WellFormed(db), ~db.failed, NEW t,
         TableOf(t) \in db.schema,
         \A e \in db.schema : e[1] = "fk" /\ e[2] # t => e[4][1] # t
  PROVE  /\ IsDb(Execute(db, DropTable(t)))
         /\ ~Execute(db, DropTable(t)).failed
         /\ WellFormed(Execute(db, DropTable(t)))
         /\ Execute(db, DropTable(t)).schema = {e \in db.schema : e[2] # t}
         /\ \A u : u # t => About(Execute(db, DropTable(t)), u) = About(db, u)
<1> DEFINE st == DropTable(t)
<1>1. st.drop = {TableOf(t)} /\ st.make = {}
  BY DEF DropTable, Drop, TableOf
<1>t. TableOf(t)[1] = "table" /\ TableOf(t)[2] = t
  BY DEF TableOf
<1> HIDE DEF st
<1>2. \A u : DropsTable(st, u) <=> u = t
  BY <1>1 DEF DropsTable, TableOf
<1>3. Kept(db, st) = {e \in db.schema : e[2] # t}
  BY <1>1, <1>2, <1>t DEF Kept
<1>4. ~Refused(db, st)
  BY <1>1, <1>2, <1>3 DEF Refused, Objects
<1>5. Proper(st)
  BY <1>1 DEF Proper
<1>6. ~Execute(db, st).failed
  BY <1>4, ExecuteCases
<1>7. \A u : u # t => About(Execute(db, st), u) = About(db, u)
  <2>1. \A e \in st.drop \union st.make : e[1] # "column"
    BY <1>1, <1>t
  <2> SUFFICES ASSUME NEW u, u # t PROVE About(Execute(db, st), u) = About(db, u)
    OBVIOUS
  <2>2. ~DropsTable(st, u)
    BY <1>2
  <2> QED
    BY <1>6, <2>1, <2>2, FactsStay
<1> QED
  BY <1>1, <1>3, <1>5, <1>6, <1>7, ExecuteCases, ExecuteKeepsForm DEF st

\* Runs of few statements.
LEMMA ShortRuns ==
  ASSUME NEW db, NEW ss
  PROVE  /\ Len(ss) = 0 => Executed(db, ss) = db
         /\ Len(ss) = 1 => Executed(db, ss) = Execute(db, ss[1])
         /\ Len(ss) = 2 => Executed(db, ss) = Execute(Execute(db, ss[1]), ss[2])
         /\ Len(ss) = 3 =>
              Executed(db, ss) = Execute(Execute(Execute(db, ss[1]), ss[2]), ss[3])
<1>1. ASSUME Len(ss) \in 0 .. 3
      PROVE  \E after : Statementwise(after, db, ss) /\ Executed(db, ss) = after[Len(ss)]
  BY <1>1, ExecutedSteps
<1>2. ASSUME Len(ss) = 0
      PROVE  Executed(db, ss) = db
  <2>1. PICK after : Statementwise(after, db, ss) /\ Executed(db, ss) = after[0]
    BY <1>1, <1>2
  <2> QED
    BY <1>2, <2>1 DEF Statementwise
<1>3. ASSUME Len(ss) = 1
      PROVE  Executed(db, ss) = Execute(db, ss[1])
  <2>1. PICK after : Statementwise(after, db, ss) /\ Executed(db, ss) = after[1]
    BY <1>1, <1>3
  <2> QED
    BY <1>3, <2>1 DEF Statementwise
<1>4. ASSUME Len(ss) = 2
      PROVE  Executed(db, ss) = Execute(Execute(db, ss[1]), ss[2])
  <2>1. PICK after : Statementwise(after, db, ss) /\ Executed(db, ss) = after[2]
    BY <1>1, <1>4
  <2> QED
    BY <1>4, <2>1 DEF Statementwise
<1>5. ASSUME Len(ss) = 3
      PROVE  Executed(db, ss) = Execute(Execute(Execute(db, ss[1]), ss[2]), ss[3])
  <2>1. PICK after : Statementwise(after, db, ss) /\ Executed(db, ss) = after[3]
    BY <1>1, <1>5
  <2> QED
    BY <1>5, <2>1 DEF Statementwise
<1> QED
  BY <1>2, <1>3, <1>4, <1>5

-----------------------------------------------------------------------------
(* The kinds of statements.                                                *)

AllTypes == {UserStatus, OrgRole, Provider}

\* The database has the elements E, and besides them only types left behind.
Fits(db, E) ==
  /\ IsDb(db) /\ ~db.failed /\ WellFormed(db)
  /\ E \subseteq db.schema
  /\ db.schema \ E \subseteq AllTypes

\* A part of a run that does not fail leads from E to F: it leaves no type
\* behind that was not there.
Leads(db, E, d, F) ==
  /\ Fits(d, F)
  /\ d.schema \ F \subseteq db.schema \ E
  /\ db.schema \intersect AllTypes \subseteq d.schema
  /\ db.rows = {} => d.rows = {}

LEMMA LeadsOn ==
  ASSUME NEW db, NEW E, NEW d1, NEW F, NEW d2, NEW G,
         Leads(db, E, d1, F), Leads(d1, F, d2, G)
  PROVE  Leads(db, E, d2, G)
  BY DEF Leads

LEMMA Arrived ==
  ASSUME NEW db, NEW E, NEW d, NEW F, Leads(db, E, d, F)
  PROVE  Fits(d, F) /\ IsDb(d) /\ ~d.failed
  BY DEF Leads, Fits

LEMMA TypeObjects ==
  ASSUME NEW e \in AllTypes
  PROVE  e[1] = "type" /\ e[2] = "-"
<1>1. \A name, values : Type(name, values)[1] = "type" /\ Type(name, values)[2] = "-"
  BY DEF Type
<1> QED
  BY <1>1 DEF AllTypes, UserStatus, OrgRole, Provider

LEMMA Absent ==
  ASSUME NEW db, NEW E, Fits(db, E), NEW e, e[1] # "type", Object(e) \notin Objects(E)
  PROVE  Object(e) \notin Objects(db.schema)
<1> SUFFICES ASSUME NEW k \in db.schema, Object(k) = Object(e) PROVE FALSE
  BY DEF Objects
<1>1. k[1] # "type"
  BY DEF Object
<1>2. k \in E
  BY <1>1, TypeObjects DEF Fits
<1> QED
  BY <1>2 DEF Objects

LEMMA Plain ==
  ASSUME NEW db, NEW E, Fits(db, E), NEW st, Proper(st),
         \A e \in st.drop : e \in E /\ e[1] # "table" /\ e[1] # "type",
         \A e \in st.make : Object(e) \in Objects(st.drop) \/ Object(e) \notin Objects(db.schema)
  PROVE  /\ IsDb(Execute(db, st))
         /\ Execute(db, st).failed <=> \E e \in st.make : Unsatisfied(db, st, e)
         /\ ~Execute(db, st).failed =>
              Leads(db, E, Execute(db, st), (E \ st.drop) \union st.make)
<1> DEFINE d == Execute(db, st)
           F == (E \ st.drop) \union st.make
<1>1. /\ IsDb(d)
      /\ d.failed <=> \E e \in st.make : Unsatisfied(db, st, e)
      /\ ~d.failed => WellFormed(d) /\ d.schema = (db.schema \ st.drop) \union st.make
  BY PlainStep DEF Fits
<1>2. db.rows = {} /\ ~d.failed => d.rows = {}
  BY NoRowsStay DEF Fits
<1> HIDE DEF d
<1>3. ASSUME ~d.failed
      PROVE  /\ F \subseteq d.schema /\ d.schema \ F \subseteq db.schema \ E
             /\ db.schema \intersect AllTypes \subseteq d.schema
  BY <1>1, <1>3, TypeObjects DEF Fits
<1>4. ~d.failed => Leads(db, E, d, F)
  BY <1>1, <1>2, <1>3 DEF Leads, Fits
<1> QED
  BY <1>1, <1>4 DEF d

\* A table that is not there has no rows a statement could trip over.
Missing(db, E, t, new) ==
  /\ Fits(db, E) /\ t # "-" /\ Proper(Create(new))
  /\ \A e \in E : e[2] # t
  /\ \A e \in new : e[2] = t \/ (e[1] = "type" /\ Object(e) \notin Objects(db.schema))

LEMMA CreateTable ==
  ASSUME NEW db, NEW E, NEW t, NEW new, Missing(db, E, t, new)
  PROVE  Leads(db, E, Execute(db, Create(new)), E \union new)
<1> DEFINE st == Create(new)
<1> USE DEF Missing
<1>1. st.drop = {} /\ st.make = new
  BY DEF Create
<1>2. \A e \in db.schema : e[2] # t
  BY TypeObjects DEF Fits
<1>3. \A e \in new : Object(e) \notin Objects(db.schema)
  <2> SUFFICES ASSUME NEW e \in new, e[2] = t, NEW k \in db.schema, Object(k) = Object(e)
               PROVE  FALSE
    BY DEF Objects
  <2> QED
    BY <1>2 DEF Object
<1>4. ASSUME NEW f \in db.rows
      PROVE  f[2] # t
  <2>1. PICK e \in db.schema : IF f[1] = "row" THEN Object(e) = <<"table", f[2], f[2]>>
                                               ELSE Object(e) = <<"column", f[2], f[3]>>
    BY DEF Fits, WellFormed, Grounded
  <2>2. e[2] = f[2]
    BY <2>1 DEF Object
  <2> QED
    BY <1>2, <2>2
<1>5. \A e \in st.make : ~Unsatisfied(db, st, e)
  <2> SUFFICES ASSUME NEW e \in new, Unsatisfied(db, st, e) PROVE FALSE
    BY <1>1
  <2>1. \/ e[1] = "column" /\ <<"row", e[2], "-">> \in db.rows
        \/ e[1] = "fk" /\ <<"dangling", e[2], e[3]>> \in db.rows
    BY <1>1 DEF Unsatisfied, Objects
  <2>2. e[2] = t
    BY <2>1
  <2> QED
    BY <1>4, <2>1, <2>2
<1> HIDE DEF st
<1>6. Proper(st)
  BY DEF st
<1>7. E \union new = (E \ st.drop) \union st.make
  BY <1>1
<1> QED
  BY <1>1, <1>3, <1>5, <1>6, <1>7, Plain DEF st

\* One column, key or index more ...
LEMMA CreateOne ==
  ASSUME NEW db, NEW E, Fits(db, E), NEW e, e[1] # "type", e[1] # "table",
         Object(e) \notin Objects(E)
  PROVE  /\ IsDb(Execute(db, Create({e})))
         /\ Execute(db, Create({e})).failed <=>
              \/ e[1] = "column" /\ e[4] = "not_null" /\ <<"row", e[2], "-">> \in db.rows
              \/ e[1] = "fk" /\ <<"dangling", e[2], e[3]>> \in db.rows
         /\ ~Execute(db, Create({e})).failed =>
              /\ Leads(db, E, Execute(db, Create({e})), E \union {e})
              /\ \A t : t # e[2] \/ e[1] # "column" =>
                         About(Execute(db, Create({e})), t) = About(db, t)
<1> DEFINE st == Create({e})
<1>1. st.drop = {} /\ st.make = {e}
  BY DEF Create
<1> HIDE DEF st
<1>2. Proper(st) /\ \A t : ~DropsTable(st, t)
  <2>1. \A k \in st.make : k = e
    BY <1>1
  <2> QED
    BY <1>1, <2>1 DEF Proper, DropsTable
<1>3. Object(e) \notin Objects(db.schema)
  BY Absent
<1>4. (\E m \in st.make : Unsatisfied(db, st, m)) <=>
        \/ e[1] = "column" /\ e[4] = "not_null" /\ <<"row", e[2], "-">> \in db.rows
        \/ e[1] = "fk" /\ <<"dangling", e[2], e[3]>> \in db.rows
  BY <1>1 DEF Unsatisfied, Objects
<1>5. E \union {e} = (E \ st.drop) \union st.make
  BY <1>1
<1>6. /\ IsDb(Execute(db, st))
      /\ Execute(db, st).failed <=> \E m \in st.make : Unsatisfied(db, st, m)
      /\ ~Execute(db, st).failed => Leads(db, E, Execute(db, st), E \union {e})
  BY <1>1, <1>2, <1>3, <1>5, Plain
<1>7. ASSUME ~Execute(db, st).failed, NEW t, t # e[2] \/ e[1] # "column"
      PROVE  About(Execute(db, st), t) = About(db, t)
  <2>1. \A m \in st.drop \union st.make : ~(m[1] = "column" /\ m[2] = t)
    BY <1>1, <1>7
  <2> QED
    BY <1>2, <1>7, <2>1, FactsStay DEF Fits
<1> QED
  BY <1>4, <1>6, <1>7 DEF st

\* ... which the rows cannot forbid ...
LEMMA CreateHarmless ==
  ASSUME NEW db, NEW E, Fits(db, E), NEW e, Object(e) \notin Objects(E),
         e[1] = "index" \/ (e[1] = "column" /\ e[4] = "null")
  PROVE  Leads(db, E, Execute(db, Create({e})), E \union {e})
<1>1. ~Execute(db, Create({e})).failed
  BY CreateOne
<1> QED
  BY <1>1, CreateOne

\* ... and one less.
LEMMA DropOne ==
  ASSUME NEW db, NEW E, Fits(db, E), NEW e \in E, e[1] # "type", e[1] # "table"
  PROVE  /\ Leads(db, E, Execute(db, Drop({e})), E \ {e})
         /\ \A t : t # e[2] \/ e[1] # "column" =>
                    About(Execute(db, Drop({e})), t) = About(db, t)
<1> DEFINE st == Drop({e})
<1>1. st.drop = {e} /\ st.make = {}
  BY DEF Drop
<1> HIDE DEF st
<1>2. Proper(st) /\ \A t : ~DropsTable(st, t)
  <2>1. \A t : TableOf(t)[1] = "table"
    BY DEF TableOf
  <2> QED
    BY <1>1, <2>1 DEF Proper, DropsTable, TableOf
<1>3. E \ {e} = (E \ st.drop) \union st.make
  BY <1>1
<1>4. /\ IsDb(Execute(db, st)) /\ ~Execute(db, st).failed
      /\ Leads(db, E, Execute(db, st), E \ {e})
  BY <1>1, <1>2, <1>3, Plain
<1>5. ASSUME NEW t, t # e[2] \/ e[1] # "column"
      PROVE  About(Execute(db, st), t) = About(db, t)
  <2>1. \A m \in st.drop \union st.make : ~(m[1] = "column" /\ m[2] = t)
    BY <1>1, <1>5
  <2> QED
    BY <1>2, <1>4, <1>5, <2>1, FactsStay DEF Fits
<1> QED
  BY <1>4, <1>5 DEF st

\* A column changes between NULL and NOT NULL ...
LEMMA AlterOne ==
  ASSUME NEW db, NEW E, NEW t, NEW c,
         NEW from \in {"null", "not_null"}, NEW to \in {"null", "not_null"},
         Fits(db, E), Column(t, c, from) \in E
  PROVE  LET d == Execute(db, Alter(t, c, from, to))
         IN  /\ IsDb(d)
             /\ d.failed <=> to = "not_null" /\ <<"null", t, c>> \in db.rows
             /\ ~d.failed =>
                  /\ Leads(db, E, d, (E \ {Column(t, c, from)}) \union {Column(t, c, to)})
                  /\ \A u : About(d, u) = About(db, u)
<1> DEFINE st == Alter(t, c, from, to)
           e == Column(t, c, from)
           f == Column(t, c, to)
<1>1. st.drop = {e} /\ st.make = {f}
  BY DEF Alter
<1>2. /\ e[1] = "column" /\ Object(e) = <<"column", t, c>>
      /\ f[1] = "column" /\ f[2] = t /\ f[3] = c /\ f[4] = to
      /\ Object(f) = <<"column", t, c>>
  BY DEF Column, Object
<1>3. \A u : TableOf(u)[1] = "table"
  BY DEF TableOf
<1> HIDE DEF st, e, f
<1>4. Objects(st.drop) = {<<"column", t, c>>} /\ Objects(st.make) = {<<"column", t, c>>}
  BY <1>1, <1>2 DEF Objects
<1>5. Proper(st) /\ \A u : ~DropsTable(st, u)
  BY <1>1, <1>2, <1>3 DEF Proper, DropsTable, TableOf
<1>6. (\E m \in st.make : Unsatisfied(db, st, m)) <=>
        to = "not_null" /\ <<"null", t, c>> \in db.rows
  BY <1>1, <1>2, <1>4 DEF Unsatisfied
<1>7. /\ IsDb(Execute(db, st))
      /\ Execute(db, st).failed <=> \E m \in st.make : Unsatisfied(db, st, m)
      /\ ~Execute(db, st).failed =>
           Leads(db, E, Execute(db, st), (E \ st.drop) \union st.make)
  <2>1. \A m \in st.drop : m \in E /\ m[1] # "table" /\ m[1] # "type"
    BY <1>1, <1>2 DEF e
  <2>2. \A m \in st.make : Object(m) \in Objects(st.drop)
    BY <1>1, <1>2, <1>4
  <2> QED
    BY <1>5, <2>1, <2>2, Plain
<1>8. ASSUME ~Execute(db, st).failed, NEW u
      PROVE  About(Execute(db, st), u) = About(db, u)
  <2>1. \A m \in st.drop \union st.make :
          Object(m) \in Objects(st.drop) /\ Object(m) \in Objects(st.make)
    BY <1>1, <1>2, <1>4
  <2> QED
    BY <1>5, <1>8, <2>1, FactsStay DEF Fits
<1> QED
  BY <1>1, <1>6, <1>7, <1>8 DEF st, e, f

LEMMA Tighten ==
  ASSUME NEW db, NEW E, NEW t, NEW c, Fits(db, E), Column(t, c, "null") \in E
  PROVE  LET d == Execute(db, Alter(t, c, "null", "not_null"))
         IN  /\ IsDb(d)
             /\ d.failed <=> <<"null", t, c>> \in db.rows
             /\ ~d.failed =>
                  /\ Fits(d, (E \ {Column(t, c, "null")}) \union {Column(t, c, "not_null")})
                  /\ \A u : About(d, u) = About(db, u)
  BY AlterOne, Arrived

LEMMA Loosen ==
  ASSUME NEW db, NEW E, NEW t, NEW c, Fits(db, E), Column(t, c, "not_null") \in E
  PROVE  Leads(db, E, Execute(db, Alter(t, c, "not_null", "null")),
               (E \ {Column(t, c, "not_null")}) \union {Column(t, c, "null")})
  BY AlterOne

\* ... and a key changes its deletion rule: its rows do not dangle.
LEMMA ReplaceKey ==
  ASSUME NEW db, NEW E, Fits(db, E), NEW e \in E, NEW f, e[1] = "fk", Object(f) = Object(e)
  PROVE  LET d == Execute(db, [drop |-> {e}, make |-> {f}])
         IN  Fits(d, (E \ {e}) \union {f}) /\ Leads(db, E, d, (E \ {e}) \union {f})
<1> DEFINE st == [drop |-> {e}, make |-> {f}]
<1>1. st.drop = {e} /\ st.make = {f}
  OBVIOUS
<1>2. f[1] = "fk" /\ f[2] = e[2] /\ f[3] = e[3] /\ Object(e) = <<"fk", e[2], e[3]>>
  BY DEF Object
<1> HIDE DEF st
<1>3. Objects(st.drop) = {Object(e)}
  BY <1>1 DEF Objects
<1>4. Proper(st)
  BY <1>1, <1>2 DEF Proper
<1>5. ~Unsatisfied(db, st, f)
  <2> SUFFICES ASSUME <<"dangling", e[2], e[3]>> \in db.rows PROVE FALSE
    BY <1>2 DEF Unsatisfied
  <2> DEFINE g == <<"dangling", e[2], e[3]>>
  <2>1. g[1] = "dangling" /\ <<"fk", g[2], g[3]>> = Object(e)
    BY <1>2
  <2> QED
    BY <2>1 DEF Fits, WellFormed
<1>6. /\ ~Execute(db, st).failed
      /\ Leads(db, E, Execute(db, st), (E \ st.drop) \union st.make)
  <2>1. \A m \in st.drop : m \in E /\ m[1] # "table" /\ m[1] # "type"
    BY <1>1
  <2>2. \A m \in st.make : Object(m) \in Objects(st.drop)
    BY <1>1, <1>3
  <2> QED
    BY <1>1, <1>4, <1>5, <2>1, <2>2, Plain
<1> QED
  BY <1>1, <1>6 DEF st, Leads

\* A table that no key of another refers to is dropped.
LEMMA DropTheTable ==
  ASSUME NEW db, NEW E, Fits(db, E), NEW t, TableOf(t) \in E,
         \A e \in E : e[1] = "fk" /\ e[2] # t => e[4][1] # t
  PROVE  LET d == Execute(db, DropTable(t))
         IN  /\ Fits(d, {e \in E : e[2] # t})
             /\ \A u : u # t => About(d, u) = About(db, u)
<1> DEFINE d == Execute(db, DropTable(t))
<1>1. \A e \in db.schema : e[1] = "fk" => e \in E
  BY TypeObjects DEF Fits
<1>2. /\ IsDb(d) /\ ~d.failed /\ WellFormed(d)
      /\ d.schema = {e \in db.schema : e[2] # t}
      /\ \A u : u # t => About(d, u) = About(db, u)
  BY <1>1, DropTableStep DEF Fits
<1> HIDE DEF d
<1>3. Fits(d, {e \in E : e[2] # t})
  BY <1>2 DEF Fits
<1> QED
  BY <1>2, <1>3 DEF d

\* A type that is there stops the table that would create it.
LEMMA TypeTaken ==
  ASSUME NEW db, NEW E, Fits(db, E), NEW type \in AllTypes, type \in db.schema,
         NEW new, type \in new
  PROVE  IsDb(Execute(db, Create(new))) /\ Execute(db, Create(new)).failed
<1> DEFINE st == Create(new)
<1>1. st.make = new /\ st.drop = {}
  BY DEF Create
<1>2. type \in Kept(db, st)
  BY <1>1 DEF Kept, DropsTable
<1>3. Object(type) \in Objects(st.make) \intersect Objects(Kept(db, st))
  BY <1>1, <1>2 DEF Objects
<1>4. Refused(db, st)
  BY <1>3 DEF Refused
<1> QED
  BY <1>4, ExecuteCases DEF Fits

\* Some of the types may as well count as left behind.
LEMMA LeftBehind ==
  ASSUME NEW db, NEW E, Fits(db, E), NEW F \in SUBSET E, E \ F \subseteq AllTypes
  PROVE  Fits(db, F)
  BY DEF Fits

\* Nothing is known about the rows of a database without tables.
LEMMA NoTablesNoRows ==
  ASSUME NEW db, Fits(db, {})
  PROVE  db.rows = {}
<1> SUFFICES ASSUME NEW f \in db.rows PROVE FALSE
  OBVIOUS
<1>1. PICK e \in db.schema : IF f[1] = "row" THEN Object(e) = <<"table", f[2], f[2]>>
                                             ELSE Object(e) = <<"column", f[2], f[3]>>
  BY DEF Fits, WellFormed, Grounded
<1>2. e[1] # "type"
  BY <1>1 DEF Object
<1> QED
  BY <1>2, TypeObjects DEF Fits

-----------------------------------------------------------------------------
(* The elements of each revision.                                          *)

\* The parts of a schema are about tables of their own.
LEMMA Apart ==
  ASSUME NEW r \in 0 .. 15
  PROVE  /\ \A e \in OrganizationsAt(r) : e[2] = "organizations"
         /\ \A e \in UsersAt(r) : e[2] = "users" \/ e = UserStatus
         /\ \A e \in OrganizationMembersAt(r) : e[2] = "organization_members" \/ e = OrgRole
         /\ \A e \in ProjectsAt(r) : e[2] = "projects"
         /\ \A e \in AuditLogsAt(r) : e[2] = "audit_logs"
         /\ \A e \in Table("jti_blocklist", {"id", "jti"}, {}) : e[2] = "jti_blocklist"
         /\ \A e \in ProjectMembersAt(r) : e[2] = "project_members"
         /\ \A e \in AuthIdentities : e[2] = "auth_identities" \/ e = Provider
         /\ \A e \in AllTypes : e[2] = "-"
<1> USE DEF Table, Column, Stamps, Default, Unique, Type, Index, ForeignKey, UserStatus,
            OrgRole, Provider, From, Until, Rule
<1>1. \A k \in OrganizationsAt(r) : k[2] = "organizations"
  BY DEF OrganizationsAt
<1>2. \A k \in UsersAt(r) : k[2] = "users" \/ k = UserStatus
  BY DEF UsersAt
<1>3. \A k \in OrganizationMembersAt(r) : k[2] = "organization_members" \/ k = OrgRole
  BY DEF OrganizationMembersAt
<1>4. \A k \in ProjectsAt(r) : k[2] = "projects"
  BY DEF ProjectsAt
<1>5. \A k \in AuditLogsAt(r) : k[2] = "audit_logs"
  BY DEF AuditLogsAt
<1>6. \A k \in Table("jti_blocklist", {"id", "jti"}, {}) : k[2] = "jti_blocklist"
  OBVIOUS
<1>7. \A k \in ProjectMembersAt(r) : k[2] = "project_members"
  BY DEF ProjectMembersAt
<1>8. \A k \in AuthIdentities : k[2] = "auth_identities" \/ k = Provider
  BY DEF AuthIdentities
<1> HIDE DEF Table, Column, Stamps, Default, Unique, Type, Index, ForeignKey, UserStatus,
             OrgRole, Provider, From, Until, Rule
<1> QED
  BY <1>1, <1>2, <1>3, <1>4, <1>5, <1>6, <1>7, <1>8, TypeObjects

LEMMA Sorted ==
  ASSUME NEW r \in 0 .. 15, NEW e \in SchemaAt(r)
  PROVE  \/ e[2] = "organizations" /\ e \in OrganizationsAt(r)
         \/ e[2] = "users" /\ e \in UsersAt(r)
         \/ e[2] = "organization_members" /\ e \in OrganizationMembersAt(r)
         \/ e[2] = "projects" /\ e \in ProjectsAt(r)
         \/ e[2] = "audit_logs" /\ e \in AuditLogsAt(r) /\ r >= 3
         \/ e[2] = "jti_blocklist" /\ e \in Table("jti_blocklist", {"id", "jti"}, {}) /\ r >= 7
         \/ e[2] = "project_members" /\ e \in ProjectMembersAt(r) /\ r >= 8
         \/ e[2] = "auth_identities" /\ e \in AuthIdentities /\ r >= 12
         \/ e \in {UserStatus, OrgRole}
         \/ e = Provider /\ r >= 12
  BY Apart DEF SchemaAt, From

\* The tables that keys refer to.
LEMMA Targets ==
  ASSUME NEW r \in 0 .. 15, NEW e \in SchemaAt(r), e[1] = "fk"
  PROVE  \/ e[4][1] \in {"organizations", "users"}
         \/ e[4][1] = "projects" /\ e[2] = "project_members" /\ r >= 8
<1> USE DEF Table, Column, Stamps, Default, Unique, Type, Index, ForeignKey, UserStatus,
            OrgRole, Provider, From, Until, Rule
<1>1. \A k \in OrganizationsAt(r) : k[1] # "fk"
  BY DEF OrganizationsAt
<1>2. \A k \in UsersAt(r) : k[1] # "fk"
  BY DEF UsersAt
<1>3. \A k \in OrganizationMembersAt(r) : k[1] = "fk" => k[4][1] \in {"organizations", "users"}
  BY DEF OrganizationMembersAt
<1>4. \A k \in ProjectsAt(r) : k[1] = "fk" => k[4][1] \in {"organizations", "users"}
  BY DEF ProjectsAt
<1>5. \A k \in AuditLogsAt(r) : k[1] = "fk" => k[4][1] \in {"organizations", "users"}
  BY DEF AuditLogsAt
<1>6. \A k \in Table("jti_blocklist", {"id", "jti"}, {}) : k[1] # "fk"
  OBVIOUS
<1>7. \A k \in ProjectMembersAt(r) : k[1] = "fk" => k[4][1] \in {"projects", "users"}
  BY DEF ProjectMembersAt
<1>8. \A k \in AuthIdentities : k[1] = "fk" => k[4][1] = "users"
  BY DEF AuthIdentities
<1>9. UserStatus[1] # "fk" /\ OrgRole[1] # "fk" /\ Provider[1] # "fk"
  OBVIOUS
<1> HIDE DEF Table, Column, Stamps, Default, Unique, Type, Index, ForeignKey, UserStatus,
            OrgRole, Provider, Until, Rule
<1> QED
  BY <1>1, <1>2, <1>3, <1>4, <1>5, <1>6, <1>7, <1>8, <1>9, Sorted

\* No other type has the name of one of the three.
LEMMA TypeFree ==
  ASSUME NEW r \in 0 .. 15, NEW E \in SUBSET SchemaAt(r), NEW db, Fits(db, E),
         NEW type \in AllTypes, type \notin db.schema
  PROVE  type[1] = "type" /\ Object(type) \notin Objects(db.schema)
<1>1. \A e : Object(e) = Object(type) => e[1] = "type" /\ e[3] = type[3]
  BY TypeObjects DEF Object
<1>2. \A e \in SchemaAt(r) : e[1] = "type" => e \in AllTypes
  <2> USE DEF Table, Column, Stamps, Default, Unique, Type, Index, ForeignKey, UserStatus,
              OrgRole, Provider, From, Until, Rule
  <2>1. \A e \in OrganizationsAt(r) : e[1] # "type"
    BY DEF OrganizationsAt
  <2>2. \A e \in UsersAt(r) : e[1] = "type" => e = UserStatus
    BY DEF UsersAt
  <2>3. \A e \in OrganizationMembersAt(r) : e[1] = "type" => e = OrgRole
    BY DEF OrganizationMembersAt
  <2>4. \A e \in ProjectsAt(r) : e[1] # "type"
    BY DEF ProjectsAt
  <2>5. \A e \in AuditLogsAt(r) : e[1] # "type"
    BY DEF AuditLogsAt
  <2>6. \A e \in Table("jti_blocklist", {"id", "jti"}, {}) : e[1] # "type"
    OBVIOUS
  <2>7. \A e \in ProjectMembersAt(r) : e[1] # "type"
    BY DEF ProjectMembersAt
  <2>8. \A e \in AuthIdentities : e[1] = "type" => e = Provider
    BY DEF AuthIdentities
  <2> HIDE DEF Table, UserStatus, OrgRole, Provider, From
  <2> QED
    BY <2>1, <2>2, <2>3, <2>4, <2>5, <2>6, <2>7, <2>8, Sorted DEF AllTypes
<1>3. \A e1, e2 \in AllTypes : e1[3] = e2[3] => e1 = e2
  BY DEF AllTypes, UserStatus, OrgRole, Provider, Type
<1>4. \A e \in db.schema : e[1] = "type" => e \in AllTypes
  BY <1>2 DEF Fits
<1> QED
  BY <1>1, <1>3, <1>4, TypeObjects DEF Objects

\* Most revisions leave most tables alone.
LEMMA Unchanged ==
  ASSUME NEW r \in 1 .. 15
  PROVE  /\ r \notin {2, 10} => OrganizationsAt(r) = OrganizationsAt(r - 1)
         /\ r \notin {9, 10, 14, 15} => UsersAt(r) = UsersAt(r - 1)
         /\ r # 15 => OrganizationMembersAt(r) = OrganizationMembersAt(r - 1)
         /\ r \notin {10, 15} => ProjectsAt(r) = ProjectsAt(r - 1)
         /\ r \notin {4, 5, 6} => AuditLogsAt(r) = AuditLogsAt(r - 1)
         /\ r # 15 => ProjectMembersAt(r) = ProjectMembersAt(r - 1)
<1> USE DEF From, Until, Rule
<1>1. r \notin {2, 10} => OrganizationsAt(r) = OrganizationsAt(r - 1)
  BY DEF OrganizationsAt
<1>2. r \notin {9, 10, 14, 15} => UsersAt(r) = UsersAt(r - 1)
  BY DEF UsersAt
<1>3. r # 15 => OrganizationMembersAt(r) = OrganizationMembersAt(r - 1)
  BY DEF OrganizationMembersAt
<1>4. r \notin {10, 15} => ProjectsAt(r) = ProjectsAt(r - 1)
  BY DEF ProjectsAt
<1>5. r \notin {4, 5, 6} => AuditLogsAt(r) = AuditLogsAt(r - 1)
  BY DEF AuditLogsAt
<1>6. r # 15 => ProjectMembersAt(r) = ProjectMembersAt(r - 1)
  BY DEF ProjectMembersAt
<1> QED
  BY <1>1, <1>2, <1>3, <1>4, <1>5, <1>6

\* The elements of a table that is created are objects of their own.
LEMMA ProperTables ==
  /\ Proper(Create(OrganizationsAt(1)))
  /\ Proper(Create(UsersAt(1)))
  /\ Proper(Create(OrganizationMembersAt(1)))
  /\ Proper(Create(ProjectsAt(1)))
  /\ Proper(Create(AuditLogsAt(3)))
  /\ Proper(Create(Table("jti_blocklist", {"id", "jti"}, {})))
  /\ Proper(Create(ProjectMembersAt(8)))
  /\ Proper(Create(AuthIdentities))
<1> USE DEF Proper, Create, Object, TableOf, Table, Column, Stamps, Default, Unique, Type,
            Index, ForeignKey, UserStatus, OrgRole, Provider, From, Until, Rule
<1>1. Proper(Create(OrganizationsAt(1)))
  BY DEF OrganizationsAt
<1>2. Proper(Create(UsersAt(1)))
  BY DEF UsersAt
<1>3. Proper(Create(OrganizationMembersAt(1)))
  BY DEF OrganizationMembersAt
<1>4. Proper(Create(ProjectsAt(1)))
  BY DEF ProjectsAt
<1>5. Proper(Create(AuditLogsAt(3)))
  BY DEF AuditLogsAt
<1>6. Proper(Create(Table("jti_blocklist", {"id", "jti"}, {})))
  OBVIOUS
<1>7. Proper(Create(ProjectMembersAt(8)))
  BY DEF ProjectMembersAt
<1>8. Proper(Create(AuthIdentities))
  BY DEF AuthIdentities
<1> QED
  BY <1>1, <1>2, <1>3, <1>4, <1>5, <1>6, <1>7, <1>8

\* What a revision adds, replaces or removes, and that what it adds is new.
LEMMA Revision1 ==
  /\ SchemaAt(0) = {}
  /\ SchemaAt(1) = OrganizationsAt(1) \union UsersAt(1)
                      \union OrganizationMembersAt(1) \union ProjectsAt(1)
  BY DEF SchemaAt, From

LEMMA Revision2 ==
  LET slug == Column("organizations", "slug", "not_null")
  IN  /\ SchemaAt(2) = SchemaAt(1) \union {slug}
      /\ \A e \in SchemaAt(1) : Object(e) # Object(slug)
<1> DEFINE slug == Column("organizations", "slug", "not_null")
<1>1. /\ OrganizationsAt(2) = OrganizationsAt(1) \union {slug}
      /\ \A e \in OrganizationsAt(1) : Object(e) # Object(slug)
  BY DEF OrganizationsAt, Object, Table, Column, Stamps, Default, Unique, Type, Index, ForeignKey,
         UserStatus, OrgRole, Provider, From, Until, Rule
<1>2. \A e : Object(e) = Object(slug) => e[2] = "organizations" /\ e \notin AllTypes
  BY TypeObjects DEF Object, Column
<1> HIDE DEF slug
<1>3. SchemaAt(2) = SchemaAt(1) \union {slug}
  BY <1>1, Unchanged DEF SchemaAt, From
<1>4. \A e \in SchemaAt(1) : Object(e) # Object(slug)
  BY <1>1, <1>2, Sorted DEF AllTypes
<1> QED
  BY <1>3, <1>4 DEF slug

LEMMA Revision3 ==
  /\ SchemaAt(3) = SchemaAt(2) \union AuditLogsAt(3)
  /\ \A e \in SchemaAt(2) : e[2] # "audit_logs"
  /\ \A e \in AuditLogsAt(3) : e[2] = "audit_logs"
<1>1. SchemaAt(3) = SchemaAt(2) \union AuditLogsAt(3)
  BY Unchanged DEF SchemaAt, From
<1> QED
  BY <1>1, Sorted, Apart DEF AllTypes

LEMMA Revision4 ==
  LET actor(null) == Column("audit_logs", "actor_user_id", null)
      org(null) == Column("audit_logs", "organization_id", null)
  IN  /\ SchemaAt(4) = (SchemaAt(3) \ {actor("not_null"), org("not_null")})
                          \union {actor("null"), org("null")}
      /\ actor("not_null") \in SchemaAt(3) /\ org("not_null") \in SchemaAt(3)
      /\ actor("null") \notin SchemaAt(3) /\ org("null") \notin SchemaAt(3)
<1> DEFINE actor(null) == Column("audit_logs", "actor_user_id", null)
           org(null) == Column("audit_logs", "organization_id", null)
           old == {actor("not_null"), org("not_null")}
           new == {actor("null"), org("null")}
<1>1. /\ AuditLogsAt(4) = (AuditLogsAt(3) \ old) \union new
      /\ old \subseteq AuditLogsAt(3)
      /\ \A e \in AuditLogsAt(3) : e \notin new
  BY DEF AuditLogsAt, Object, Table, Column, Stamps, Default, Unique, Type, Index, ForeignKey,
         UserStatus, OrgRole, Provider, From, Until, Rule
<1>2. \A e \in old \union new : e[2] = "audit_logs" /\ e \notin AllTypes
  BY TypeObjects DEF Column
<1> HIDE DEF old, new
<1>3. SchemaAt(4) = (SchemaAt(3) \ old) \union new
  BY <1>1, <1>2, Unchanged, Apart DEF SchemaAt, From, AllTypes
<1>4. old \subseteq SchemaAt(3) /\ \A e \in SchemaAt(3) : e \notin new
  BY <1>1, <1>2, Sorted DEF SchemaAt, From, AllTypes
<1> QED
  BY <1>3, <1>4 DEF old, new

LEMMA Revision5 ==
  LET actor == ForeignKey("audit_logs", "actor_user_id", "users", "NO_ACTION")
      org == ForeignKey("audit_logs", "organization_id", "organizations", "NO_ACTION")
  IN  /\ SchemaAt(5) = SchemaAt(4) \ {actor, org}
      /\ actor \in SchemaAt(4) /\ org \in SchemaAt(4)
      /\ \A e \in SchemaAt(5) : Object(e) \notin {Object(actor), Object(org)}
<1> DEFINE actor == ForeignKey("audit_logs", "actor_user_id", "users", "NO_ACTION")
           org == ForeignKey("audit_logs", "organization_id", "organizations", "NO_ACTION")
<1>1. /\ AuditLogsAt(5) = AuditLogsAt(4) \ {actor, org}
      /\ actor \in AuditLogsAt(4) /\ org \in AuditLogsAt(4)
      /\ \A e \in AuditLogsAt(5) : Object(e) \notin {Object(actor), Object(org)}
  BY DEF AuditLogsAt, Object, Table, Column, Stamps, Default, Unique, Type, Index, ForeignKey,
         UserStatus, OrgRole, Provider, From, Until, Rule
<1>2. \A e : Object(e) \in {Object(actor), Object(org)} =>
               e[2] = "audit_logs" /\ e \notin AllTypes
  BY TypeObjects DEF Object, ForeignKey
<1> HIDE DEF actor, org
<1>3. SchemaAt(5) = SchemaAt(4) \ {actor, org}
  BY <1>1, <1>2, Unchanged, Apart DEF SchemaAt, From, AllTypes
<1>4. actor \in SchemaAt(4) /\ org \in SchemaAt(4)
  BY <1>1 DEF SchemaAt, From
<1>5. \A e \in SchemaAt(5) : Object(e) \notin {Object(actor), Object(org)}
  BY <1>1, <1>2, Sorted DEF AllTypes
<1> QED
  BY <1>3, <1>4, <1>5 DEF actor, org

LEMMA Revision6 ==
  LET resource(null) == Column("audit_logs", "resource_id", null)
  IN  /\ SchemaAt(6) = (SchemaAt(5) \ {resource("not_null")}) \union {resource("null")}
      /\ resource("not_null") \in SchemaAt(5) /\ resource("null") \notin SchemaAt(5)
<1> DEFINE resource(null) == Column("audit_logs", "resource_id", null)
           old == resource("not_null")
           new == resource("null")
<1>1. /\ AuditLogsAt(6) = (AuditLogsAt(5) \ {old}) \union {new}
      /\ old \in AuditLogsAt(5)
      /\ \A e \in AuditLogsAt(5) : e # new
  BY DEF AuditLogsAt, Object, Table, Column, Stamps, Default, Unique, Type, Index, ForeignKey,
         UserStatus, OrgRole, Provider, From, Until, Rule
<1>2. \A e \in {old, new} : e[2] = "audit_logs" /\ e \notin AllTypes
  BY TypeObjects DEF Column
<1> HIDE DEF old, new
<1>3. SchemaAt(6) = (SchemaAt(5) \ {old}) \union {new}
  BY <1>1, <1>2, Unchanged, Apart DEF SchemaAt, From, AllTypes
<1>4. old \in SchemaAt(5) /\ \A e \in SchemaAt(5) : e # new
  BY <1>1, <1>2, Sorted DEF SchemaAt, From, AllTypes
<1> QED
  BY <1>3, <1>4 DEF old, new

LEMMA Revision7 ==
  LET blocklist == Table("jti_blocklist", {"id", "jti"}, {})
  IN  /\ SchemaAt(7) = SchemaAt(6) \union blocklist
      /\ \A e \in SchemaAt(6) : e[2] # "jti_blocklist"
      /\ \A e \in blocklist : e[2] = "jti_blocklist"
<1>1. SchemaAt(7) = SchemaAt(6) \union Table("jti_blocklist", {"id", "jti"}, {})
  BY Unchanged DEF SchemaAt, From
<1> QED
  BY <1>1, Sorted, Apart DEF AllTypes

LEMMA Revision8 ==
  /\ SchemaAt(8) = SchemaAt(7) \union ProjectMembersAt(8)
  /\ \A e \in SchemaAt(7) : e[2] # "project_members"
  /\ \A e \in ProjectMembersAt(8) : e[2] = "project_members"
<1>1. SchemaAt(8) = SchemaAt(7) \union ProjectMembersAt(8)
  BY Unchanged DEF SchemaAt, From
<1> QED
  BY <1>1, Sorted, Apart DEF AllTypes

LEMMA Revision9 ==
  LET verified == Column("users", "is_verified", "null")
  IN  /\ SchemaAt(9) = SchemaAt(8) \union {verified}
      /\ \A e \in SchemaAt(8) : Object(e) # Object(verified)
<1> DEFINE verified == Column("users", "is_verified", "null")
<1>1. /\ UsersAt(9) = UsersAt(8) \union {verified}
      /\ \A e \in UsersAt(8) : Object(e) # Object(verified)
  BY DEF UsersAt, Object, Table, Column, Stamps, Default, Unique, Type, Index, ForeignKey,
         UserStatus, OrgRole, Provider, From, Until, Rule
<1>2. \A e : Object(e) = Object(verified) => e[2] = "users" /\ e \notin AllTypes
  BY TypeObjects DEF Object, Column
<1> HIDE DEF verified
<1>3. SchemaAt(9) = SchemaAt(8) \union {verified}
  BY <1>1, Unchanged DEF SchemaAt, From
<1>4. \A e \in SchemaAt(8) : Object(e) # Object(verified)
  BY <1>1, <1>2, Sorted DEF AllTypes
<1> QED
  BY <1>3, <1>4 DEF verified

LEMMA Revision10 ==
  LET flag(t) == Column(t, "is_deleted", "null")
      tables == {"organizations", "projects", "users"}
  IN  /\ SchemaAt(10) = SchemaAt(9) \union {flag(t) : t \in tables}
      /\ \A e \in SchemaAt(9) : \A t \in tables : Object(e) # Object(flag(t))
<1> DEFINE flag(t) == Column(t, "is_deleted", "null")
           o == flag("organizations")
           p == flag("projects")
           u == flag("users")
<1>1. /\ OrganizationsAt(10) = OrganizationsAt(9) \union {o}
      /\ \A e \in OrganizationsAt(9) : Object(e) # Object(o)
  BY DEF OrganizationsAt, Object, Table, Column, Stamps, Default, Unique, Type, Index, ForeignKey,
         UserStatus, OrgRole, Provider, From, Until, Rule
<1>2. /\ ProjectsAt(10) = ProjectsAt(9) \union {p}
      /\ \A e \in ProjectsAt(9) : Object(e) # Object(p)
  BY DEF ProjectsAt, Object, Table, Column, Stamps, Default, Unique, Type, Index, ForeignKey,
         UserStatus, OrgRole, Provider, From, Until, Rule
<1>3. /\ UsersAt(10) = UsersAt(9) \union {u}
      /\ \A e \in UsersAt(9) : Object(e) # Object(u)
  BY DEF UsersAt, Object, Table, Column, Stamps, Default, Unique, Type, Index, ForeignKey,
         UserStatus, OrgRole, Provider, From, Until, Rule
<1>4. \A e : /\ Object(e) = Object(o) => e[2] = "organizations" /\ e \notin AllTypes
             /\ Object(e) = Object(p) => e[2] = "projects" /\ e \notin AllTypes
             /\ Object(e) = Object(u) => e[2] = "users" /\ e \notin AllTypes
  BY TypeObjects DEF Object, Column
<1>5. {flag(t) : t \in {"organizations", "projects", "users"}} = {o, p, u}
  OBVIOUS
<1> HIDE DEF o, p, u
<1>6. SchemaAt(10) = SchemaAt(9) \union {o, p, u}
  BY <1>1, <1>2, <1>3, Unchanged DEF SchemaAt, From
<1>7. \A e \in SchemaAt(9) : Object(e) \notin {Object(o), Object(p), Object(u)}
  BY <1>1, <1>2, <1>3, <1>4, Sorted DEF AllTypes
<1> QED
  BY <1>5, <1>6, <1>7 DEF o, p, u

\* ba475f162065 and acc5f9c0f8d2 are empty.
LEMMA EmptyRevisions ==
  SchemaAt(11) = SchemaAt(10) /\ SchemaAt(13) = SchemaAt(12)
  BY Unchanged DEF SchemaAt, From

LEMMA Revision12 ==
  /\ SchemaAt(12) = SchemaAt(11) \union AuthIdentities
  /\ \A e \in SchemaAt(11) : e[2] # "auth_identities" /\ e # Provider
  /\ \A e \in AuthIdentities : e[2] = "auth_identities" \/ e = Provider
  /\ Provider \in AuthIdentities
<1>1. SchemaAt(12) = SchemaAt(11) \union AuthIdentities
  BY Unchanged DEF SchemaAt, From
<1>2. Provider[2] = "-" /\ Provider \notin {UserStatus, OrgRole}
  BY DEF Provider, UserStatus, OrgRole, Type
<1>3. \A e \in SchemaAt(11) : e[2] # "auth_identities" /\ e # Provider
  BY <1>2, Sorted, Apart DEF AllTypes
<1> QED
  BY <1>1, <1>3, Apart DEF AuthIdentities

LEMMA Revision14 ==
  LET hash == Column("users", "password_hash", "not_null")
  IN  /\ SchemaAt(14) = SchemaAt(13) \ {hash}
      /\ hash \in SchemaAt(13)
      /\ \A e \in SchemaAt(14) : Object(e) # Object(hash)
<1> DEFINE hash == Column("users", "password_hash", "not_null")
<1>1. /\ UsersAt(14) = UsersAt(13) \ {hash} /\ hash \in UsersAt(13)
      /\ \A e \in UsersAt(14) : Object(e) # Object(hash)
  BY DEF UsersAt, Object, Table, Column, Stamps, Default, Unique, Type, Index, ForeignKey,
         UserStatus, OrgRole, Provider, From, Until, Rule
<1>2. \A e : Object(e) = Object(hash) => e[2] = "users" /\ e \notin AllTypes
  BY TypeObjects DEF Object, Column
<1> HIDE DEF hash
<1>3. SchemaAt(14) = SchemaAt(13) \ {hash} /\ hash \in SchemaAt(13)
  BY <1>1, <1>2, Unchanged, Apart DEF SchemaAt, From, AllTypes
<1>4. \A e \in SchemaAt(14) : Object(e) # Object(hash)
  BY <1>1, <1>2, Sorted DEF AllTypes
<1> QED
  BY <1>3, <1>4 DEF hash

\* 098e90f0e870: six keys change their rule, a constraint becomes an index, and
\* two indexes are new.
StrictKeys ==
  {ForeignKey("organization_members", "user_id", "users", "CASCADE"),
   ForeignKey("organization_members", "organization_id", "organizations", "CASCADE"),
   ForeignKey("project_members", "user_id", "users", "CASCADE"),
   ForeignKey("project_members", "project_id", "projects", "CASCADE"),
   ForeignKey("projects", "organization_id", "organizations", "CASCADE"),
   ForeignKey("projects", "created_by", "users", "RESTRICT")}

LooseKeys ==
  {ForeignKey("organization_members", "user_id", "users", "NO_ACTION"),
   ForeignKey("organization_members", "organization_id", "organizations", "NO_ACTION"),
   ForeignKey("project_members", "user_id", "users", "NO_ACTION"),
   ForeignKey("project_members", "project_id", "projects", "NO_ACTION"),
   ForeignKey("projects", "organization_id", "organizations", "NO_ACTION"),
   ForeignKey("projects", "created_by", "users", "NO_ACTION")}

EmailKey == Unique("users", "users_email_key", <<"email">>)

NewIndexes == {Index("projects", "id", "plain"), Index("users", "email", "unique"),
               Index("users", "id", "plain")}

LEMMA Revision15 ==
  /\ SchemaAt(15) = (SchemaAt(14) \ (StrictKeys \union {EmailKey}))
                       \union (LooseKeys \union NewIndexes)
  /\ StrictKeys \union {EmailKey} \subseteq SchemaAt(14)
  /\ \A e \in SchemaAt(14) : \A i \in NewIndexes : Object(e) # Object(i)
<1> DEFINE members == {e \in StrictKeys : e[2] = "organization_members"}
           m2 == {e \in LooseKeys : e[2] = "organization_members"}
           projects == {e \in StrictKeys : e[2] = "projects"}
           p2 == {e \in LooseKeys : e[2] = "projects"}
           pm == {e \in StrictKeys : e[2] = "project_members"}
           pm2 == {e \in LooseKeys : e[2] = "project_members"}
           ip == Index("projects", "id", "plain")
           iu == {Index("users", "email", "unique"), Index("users", "id", "plain")}
<1>1. /\ OrganizationMembersAt(15) = (OrganizationMembersAt(14) \ members) \union m2
      /\ members \subseteq OrganizationMembersAt(14)
  BY DEF OrganizationMembersAt, StrictKeys, LooseKeys, Object, Table, Column, Stamps, Default, Unique, Type, Index, ForeignKey,
         UserStatus, OrgRole, Provider, From, Until, Rule
<1>2. /\ ProjectsAt(15) = (ProjectsAt(14) \ projects) \union p2 \union {ip}
      /\ projects \subseteq ProjectsAt(14)
      /\ \A e \in ProjectsAt(14) : Object(e) # Object(ip)
  BY DEF ProjectsAt, StrictKeys, LooseKeys, Object, Table, Column, Stamps, Default, Unique, Type, Index, ForeignKey,
         UserStatus, OrgRole, Provider, From, Until, Rule
<1>3. /\ ProjectMembersAt(15) = (ProjectMembersAt(14) \ pm) \union pm2
      /\ pm \subseteq ProjectMembersAt(14)
  BY DEF ProjectMembersAt, StrictKeys, LooseKeys, Object, Table, Column, Stamps, Default, Unique, Type, Index, ForeignKey,
         UserStatus, OrgRole, Provider, From, Until, Rule
<1>4. /\ UsersAt(15) = (UsersAt(14) \ {EmailKey}) \union iu
      /\ EmailKey \in UsersAt(14)
      /\ \A e \in UsersAt(14) : \A i \in iu : Object(e) # Object(i)
  BY DEF UsersAt, EmailKey, Object, Table, Column, Stamps, Default, Unique, Type, Index, ForeignKey,
         UserStatus, OrgRole, Provider, From, Until, Rule
<1>5. /\ StrictKeys = members \union projects \union pm
      /\ LooseKeys = m2 \union p2 \union pm2
  BY DEF StrictKeys, LooseKeys, ForeignKey
<1>6. NewIndexes = {ip} \union iu
  BY DEF NewIndexes
<1>7. /\ \A e \in StrictKeys \union {EmailKey} : e \notin AllTypes
      /\ \A e : Object(e) = Object(ip) => e[2] = "projects" /\ e \notin AllTypes
      /\ \A e : Object(e) \in {Object(i) : i \in iu} => e[2] = "users" /\ e \notin AllTypes
      /\ EmailKey[2] = "users"
  BY TypeObjects DEF StrictKeys, EmailKey, ForeignKey, Unique, Index, Object
<1> HIDE DEF ip, iu
<1>8. SchemaAt(15) = (SchemaAt(14) \ (StrictKeys \union {EmailKey}))
                       \union (LooseKeys \union NewIndexes)
  <2> DEFINE rest(r) == OrganizationsAt(r) \union AuditLogsAt(r)
                          \union Table("jti_blocklist", {"id", "jti"}, {}) \union AuthIdentities
  <2>1. SchemaAt(15) = UsersAt(15) \union OrganizationMembersAt(15) \union ProjectsAt(15)
                         \union ProjectMembersAt(15) \union rest(15)
    BY DEF SchemaAt, From
  <2>2. SchemaAt(14) = UsersAt(14) \union OrganizationMembersAt(14) \union ProjectsAt(14)
                         \union ProjectMembersAt(14) \union rest(14)
    BY DEF SchemaAt, From
  <2>3. rest(15) = rest(14)
    BY Unchanged
  <2>4. /\ \A e \in rest(14) : e \notin StrictKeys \union {EmailKey}
        /\ \A e \in UsersAt(14) : e \notin StrictKeys
        /\ \A e \in OrganizationMembersAt(14) : e \notin projects \union pm \union {EmailKey}
        /\ \A e \in ProjectsAt(14) : e \notin members \union pm \union {EmailKey}
        /\ \A e \in ProjectMembersAt(14) : e \notin members \union projects \union {EmailKey}
    BY <1>5, <1>7, Apart DEF AllTypes
  <2> HIDE DEF rest, members, m2, projects, p2, pm, pm2
  <2> QED
    BY <1>1, <1>2, <1>3, <1>4, <1>5, <1>6, <2>1, <2>2, <2>3, <2>4
<1>9. StrictKeys \union {EmailKey} \subseteq SchemaAt(14)
  BY <1>1, <1>2, <1>3, <1>4, <1>5 DEF SchemaAt, From
<1>10. \A e \in SchemaAt(14) : \A i \in NewIndexes : Object(e) # Object(i)
  BY <1>2, <1>4, <1>6, <1>7, Sorted DEF AllTypes
<1> QED
  BY <1>8, <1>9, <1>10

-----------------------------------------------------------------------------
(* Upgrades, revision by revision.                                         *)

LEMMA Chain ==
  /\ Newest = 15
  /\ Revisions[1] = AddTables /\ Revisions[2] = AddSlug /\ Revisions[3] = AddAuditLogs
  /\ Revisions[4] = OptionalActor /\ Revisions[5] = DropAuditKeys
  /\ Revisions[6] = OptionalResource /\ Revisions[7] = AddJtiBlocklist
  /\ Revisions[8] = AddProjectMembers /\ Revisions[9] = AddVerified
  /\ Revisions[10] = SoftDelete /\ Revisions[11] = OauthPlaceholder
  /\ Revisions[12] = AddAuthIdentities /\ Revisions[13] = UuidDefault
  /\ Revisions[14] = DropPasswordHash /\ Revisions[15] = DbChanges
  BY DEF Revisions, Newest

\* What an upgrade to revision r trips over: the types it creates, and rows
\* without a slug.
BlockedUp(db, r) ==
  \/ r = 1 /\ (UserStatus \in db.schema \/ OrgRole \in db.schema)
  \/ r = 2 /\ <<"row", "organizations", "-">> \in db.rows
  \/ r = 12 /\ Provider \in db.schema

Rises(db, r) ==
  LET d == Executed(db, Revisions[r].up)
  IN  /\ IsDb(d)
      /\ d.failed <=> BlockedUp(db, r)
      /\ ~d.failed => Leads(db, SchemaAt(r - 1), d, SchemaAt(r))

LEMMA Up1 ==
  ASSUME NEW db, Fits(db, {})
  PROVE  Rises(db, 1)
<1> DEFINE ss == AddTables.up
           im1 == Index("organization_members", "organization_id", "plain")
           im2 == Index("organization_members", "user_id", "plain")
           ip == Index("projects", "organization_id", "plain")
           organizations == OrganizationsAt(1)
           users == UsersAt(1)
           members == OrganizationMembersAt(1) \ {im1, im2}
           projects == ProjectsAt(1) \ {ip}
           E2 == organizations \union users
           E3 == E2 \union members
           E4 == E3 \union {im1}
           E5 == E4 \union {im2}
           E6 == E5 \union projects
<1>1. /\ Len(ss) = 7
      /\ ss[1] = Create(organizations) /\ ss[2] = Create(users) /\ ss[3] = Create(members)
      /\ ss[4] = Create({im1}) /\ ss[5] = Create({im2}) /\ ss[6] = Create(projects)
      /\ ss[7] = Create({ip})
  <2> USE DEF Table, Column, Stamps, Default, Unique, Type, Index, ForeignKey, UserStatus,
              OrgRole, From, Until, Rule
  <2>1. organizations = Table("organizations", {"id", "name"}, {})
                          \union Stamps("organizations", "updated_at")
    BY DEF OrganizationsAt
  <2>2. users = Table("users", {"id", "name", "email", "password_hash", "status"}, {})
                  \union Stamps("users", "updated_at_time")
                  \union {UserStatus, Default("users", "status", "active"),
                          Unique("users", "users_email_key", <<"email">>)}
    BY DEF UsersAt
  <2>3. members = Table("organization_members", {"id", "user_id", "organization_id", "role"}, {})
                    \union Stamps("organization_members", "updated_at")
                    \union {OrgRole, Default("organization_members", "role", "member"),
                            ForeignKey("organization_members", "organization_id",
                                       "organizations", "CASCADE"),
                            ForeignKey("organization_members", "user_id", "users", "CASCADE"),
                            Unique("organization_members", "uq_user_org",
                                   <<"user_id", "organization_id">>)}
    BY DEF OrganizationMembersAt
  <2>4. projects = Table("projects", {"id", "name", "organization_id", "created_by"}, {})
                     \union Stamps("projects", "updated_at")
                     \union {ForeignKey("projects", "created_by", "users", "RESTRICT"),
                             ForeignKey("projects", "organization_id", "organizations", "CASCADE"),
                             Unique("projects", "uq_org_project_name",
                                    <<"organization_id", "name">>)}
    BY DEF ProjectsAt
  <2> HIDE DEF Table, Column, Stamps, Default, Unique, Type, Index, ForeignKey, UserStatus,
               OrgRole, From, Until, Rule, organizations, users, members, projects, im1, im2, ip
  <2> QED
    BY <2>1, <2>2, <2>3, <2>4 DEF AddTables, im1, im2, ip
<1>l. Len(ss) = 7 /\ Len(ss) \in Nat
  BY <1>1
<1>2. PICK a : Statementwise(a, db, ss) /\ Executed(db, ss) = a[Len(ss)]
  <2> HIDE DEF ss
  <2> QED
    BY <1>l, ExecutedSteps
<1>3. /\ a[0] = db
      /\ a[1] = Execute(a[0], Create(organizations)) /\ a[2] = Execute(a[1], Create(users))
      /\ a[3] = Execute(a[2], Create(members)) /\ a[4] = Execute(a[3], Create({im1}))
      /\ a[5] = Execute(a[4], Create({im2})) /\ a[6] = Execute(a[5], Create(projects))
      /\ a[7] = Execute(a[6], Create({ip}))
  <2> HIDE DEF ss, organizations, users, members, projects, im1, im2, ip
  <2> QED
    BY <1>1, <1>2 DEF Statementwise
<1>4. ASSUME NEW n \in 0 .. 7, IsDb(a[n]), a[n].failed
      PROVE  IsDb(a[7]) /\ a[7].failed
  <2> HIDE DEF ss
  <2>1. IsDb(a[Len(ss)]) /\ a[Len(ss)].failed
    BY <1>l, <1>2, <1>4, FailedRun
  <2> QED
    BY <1>l, <2>1
<1>5. Executed(db, Revisions[1].up) = a[7]
  BY <1>l, <1>2, Chain
<1> HIDE DEF ss
<1>6. /\ \A e \in organizations : e[2] = "organizations"
      /\ \A e \in users : e[2] = "users" \/ e = UserStatus
      /\ \A e \in members : e[2] = "organization_members" \/ e = OrgRole
      /\ \A e \in projects : e[2] = "projects"
      /\ UserStatus \in AllTypes /\ OrgRole \in AllTypes
      /\ UserStatus[2] = "-" /\ OrgRole[2] = "-" /\ UserStatus # OrgRole
      /\ UserStatus \in users
  <2>1. UserStatus # OrgRole /\ UserStatus \in users
    BY DEF UserStatus, OrgRole, Type, UsersAt
  <2> QED
    BY <2>1, Apart DEF AllTypes
<1>7. /\ im1[1] = "index" /\ im1[2] = "organization_members"
      /\ im2[1] = "index" /\ im2[2] = "organization_members"
      /\ ip[1] = "index" /\ ip[2] = "projects" /\ Object(im1) # Object(im2)
      /\ OrgRole \in members
      /\ im1 \in OrganizationMembersAt(1) /\ im2 \in OrganizationMembersAt(1)
      /\ ip \in ProjectsAt(1)
  BY DEF Index, Object, OrganizationMembersAt, ProjectsAt, OrgRole, Type
<1>8. \A e \in members \union projects : e[1] # "index"
  BY DEF OrganizationMembersAt, ProjectsAt, Table, Column, Stamps, Default, Unique, Type, Index,
         ForeignKey, OrgRole, From, Rule
<1>9. /\ Proper(Create(organizations)) /\ Proper(Create(users))
      /\ Proper(Create(members)) /\ Proper(Create(projects))
  BY ProperTables DEF Proper, Create
<1>10. SchemaAt(1) = E6 \union {ip} /\ SchemaAt(0) = {}
  BY <1>7, Revision1
<1> HIDE DEF organizations, users, members, projects, im1, im2, ip
<1>11. Leads(db, {}, a[1], organizations)
  <2>1. Missing(db, {}, "organizations", organizations)
    BY <1>6, <1>9 DEF Missing
  <2>2. Leads(db, {}, a[1], {} \union organizations)
    BY <1>3, <2>1, CreateTable
  <2> QED
    BY <2>2
<1>12. UserStatus \in db.schema <=> UserStatus \in a[1].schema
  BY <1>6, <1>11 DEF Leads
<1>13. CASE UserStatus \in db.schema
  <2>1. IsDb(a[2]) /\ a[2].failed
    BY <1>3, <1>6, <1>11, <1>12, <1>13, Arrived, TypeTaken
  <2> QED
    BY <1>4, <1>5, <1>13, <2>1 DEF Rises, BlockedUp
<1>14. CASE UserStatus \notin db.schema
  <2>1. Leads(a[1], organizations, a[2], E2)
    <3>1. Fits(a[1], organizations) /\ organizations \subseteq SchemaAt(1)
      BY <1>10, <1>11, Arrived
    <3>2. UserStatus[1] = "type" /\ Object(UserStatus) \notin Objects(a[1].schema)
      <4>1. UserStatus \in AllTypes /\ UserStatus \notin a[1].schema
        BY <1>6, <1>12, <1>14
      <4> QED
        BY <3>1, <4>1, TypeFree
    <3>3. Missing(a[1], organizations, "users", users)
      BY <1>6, <1>9, <3>1, <3>2 DEF Missing
    <3> QED
      BY <1>3, <3>3, CreateTable
  <2>2. Leads(db, {}, a[2], E2)
    BY <1>11, <2>1, LeadsOn
  <2>3. OrgRole \in db.schema <=> OrgRole \in a[2].schema
    BY <1>6, <2>2 DEF Leads
  <2>4. Fits(a[2], E2) /\ E2 \subseteq SchemaAt(1)
    BY <1>10, <2>1, Arrived
  <2>5. CASE OrgRole \in db.schema
    <3>1. IsDb(a[3]) /\ a[3].failed
      BY <1>3, <1>6, <1>7, <2>3, <2>4, <2>5, TypeTaken
    <3> QED
      BY <1>4, <1>5, <2>5, <3>1 DEF Rises, BlockedUp
  <2>6. CASE OrgRole \notin db.schema
    <3>1. Leads(a[2], E2, a[3], E3)
      <4>1. OrgRole[1] = "type" /\ Object(OrgRole) \notin Objects(a[2].schema)
        BY <1>6, <2>3, <2>4, <2>6, TypeFree
      <4>2. Missing(a[2], E2, "organization_members", members)
        BY <1>6, <1>9, <2>4, <4>1 DEF Missing
      <4> QED
        BY <1>3, <4>2, CreateTable
    <3>2. /\ Object(im1) \notin Objects(E3) /\ Object(im2) \notin Objects(E4)
          /\ Object(ip) \notin Objects(E6)
      <4>1. \A e \in E3 : ~(e[1] = "index" /\ e[2] = "organization_members")
        BY <1>6, <1>8
      <4>2. \A e \in E6 : ~(e[1] = "index" /\ e[2] = "projects")
        BY <1>6, <1>7, <1>8
      <4>3. Object(im1) \notin Objects(E3) /\ Object(im2) \notin Objects(E4)
        BY <1>7, <4>1 DEF Objects, Object
      <4>4. Object(ip) \notin Objects(E6)
        BY <1>7, <4>2 DEF Objects, Object
      <4> QED
        BY <4>3, <4>4
    <3>3. \A e \in E5 : e[2] # "projects"
      BY <1>6, <1>7
    <3> HIDE DEF E3
    <3>4. Fits(a[3], E3)
      BY <3>1, Arrived
    <3>5. Leads(a[3], E3, a[4], E4)
      BY <1>3, <1>7, <3>2, <3>4, CreateHarmless
    <3> HIDE DEF E4
    <3>6. Fits(a[4], E4)
      BY <3>5, Arrived
    <3>7. Leads(a[4], E4, a[5], E5)
      BY <1>3, <1>7, <3>2, <3>6, CreateHarmless
    <3> HIDE DEF E5
    <3>8. Fits(a[5], E5)
      BY <3>7, Arrived
    <3>9. Missing(a[5], E5, "projects", projects)
      BY <1>6, <1>9, <3>3, <3>8 DEF Missing
    <3>10. Leads(a[5], E5, a[6], E6)
      BY <1>3, <3>9, CreateTable
    <3> HIDE DEF E6
    <3>11. Fits(a[6], E6)
      BY <3>10, Arrived
    <3>12. Leads(a[6], E6, a[7], SchemaAt(1))
      BY <1>3, <1>7, <1>10, <3>2, <3>11, CreateHarmless
    <3>13. Leads(db, {}, a[7], SchemaAt(1))
      BY <2>2, <3>1, <3>5, <3>7, <3>10, <3>12, LeadsOn
    <3> QED
      BY <1>5, <1>10, <1>14, <2>6, <3>13, Arrived DEF Rises, BlockedUp
  <2> QED
    BY <2>5, <2>6
<1> QED
  BY <1>13, <1>14

LEMMA Up2 ==
  ASSUME NEW db, Fits(db, SchemaAt(1))
  PROVE  Rises(db, 2)
<1> DEFINE slug == Column("organizations", "slug", "not_null")
<1>1. Executed(db, Revisions[2].up) = Execute(db, Create({slug}))
  BY Chain, ShortRuns DEF AddSlug
<1>2. slug[1] = "column" /\ slug[2] = "organizations" /\ slug[4] = "not_null"
  BY DEF Column
<1>3. Object(slug) \notin Objects(SchemaAt(1)) /\ SchemaAt(2) = SchemaAt(1) \union {slug}
  BY Revision2 DEF Objects
<1> HIDE DEF slug
<1>4. IsDb(Execute(db, Create({slug})))
  BY <1>2, <1>3, CreateOne
<1>5. Execute(db, Create({slug})).failed <=> <<"row", "organizations", "-">> \in db.rows
  BY <1>2, <1>3, CreateOne
<1>6. ~Execute(db, Create({slug})).failed =>
        Leads(db, SchemaAt(1), Execute(db, Create({slug})), SchemaAt(2))
  BY <1>2, <1>3, CreateOne
<1> QED
  BY <1>1, <1>4, <1>5, <1>6 DEF Rises, BlockedUp

LEMMA Up3 ==
  ASSUME NEW db, Fits(db, SchemaAt(2))
  PROVE  Rises(db, 3)
<1>1. Executed(db, Revisions[3].up) = Execute(db, Create(AuditLogsAt(3)))
  <2>1. AuditLogsAt(3) =
          Table("audit_logs",
                {"id", "timestamp", "actor_user_id", "organization_id", "action",
                 "resource_type", "resource_id"},
                {"status", "meta_data", "ip_address", "user_agent", "endpoint"})
            \union {Default("audit_logs", "timestamp", "now()"),
                    ForeignKey("audit_logs", "actor_user_id", "users", "NO_ACTION"),
                    ForeignKey("audit_logs", "organization_id", "organizations", "NO_ACTION")}
    BY DEF AuditLogsAt, From, Until, Table, Column, Default, ForeignKey
  <2>2. Revisions[3].up = << Create(AuditLogsAt(3)) >>
    BY <2>1, Chain DEF AddAuditLogs
  <2> QED
    BY <2>2, ShortRuns
<1>2. Leads(db, SchemaAt(2), Execute(db, Create(AuditLogsAt(3))), SchemaAt(3))
  <2> DEFINE new == AuditLogsAt(3)
  <2>1. Missing(db, SchemaAt(2), "audit_logs", new) /\ SchemaAt(3) = SchemaAt(2) \union new
    BY ProperTables, Revision3 DEF Missing
  <2> HIDE DEF new
  <2>2. Leads(db, SchemaAt(2), Execute(db, Create(new)), SchemaAt(2) \union new)
    BY <2>1, CreateTable
  <2> QED
    BY <2>1, <2>2 DEF new
<1> QED
  BY <1>1, <1>2, Arrived DEF Rises, BlockedUp

LEMMA Up4 ==
  ASSUME NEW db, Fits(db, SchemaAt(3))
  PROVE  Rises(db, 4)
<1> DEFINE actor(null) == Column("audit_logs", "actor_user_id", null)
           org(null) == Column("audit_logs", "organization_id", null)
           d1 == Execute(db, Alter("audit_logs", "actor_user_id", "not_null", "null"))
           d2 == Execute(d1, Alter("audit_logs", "organization_id", "not_null", "null"))
           E1 == (SchemaAt(3) \ {actor("not_null")}) \union {actor("null")}
           E2 == (E1 \ {org("not_null")}) \union {org("null")}
<1>1. Executed(db, Revisions[4].up) = d2
  BY Chain, ShortRuns DEF OptionalActor
<1>2. actor("not_null") # org("not_null") /\ actor("null") # org("null")
      /\ actor("null") # org("not_null")
  BY DEF Column
<1>3. SchemaAt(4) = E2 /\ org("not_null") \in E1
  BY <1>2, Revision4
<1>4. Leads(db, SchemaAt(3), d1, E1)
  BY Revision4, Loosen
<1> HIDE DEF d1, E1
<1>5. Leads(d1, E1, d2, E2)
  BY <1>3, <1>4, Arrived, Loosen
<1>6. Leads(db, SchemaAt(3), d2, SchemaAt(4))
  BY <1>3, <1>4, <1>5, LeadsOn
<1> QED
  BY <1>1, <1>6, Arrived DEF Rises, BlockedUp

LEMMA Up5 ==
  ASSUME NEW db, Fits(db, SchemaAt(4))
  PROVE  Rises(db, 5)
<1> DEFINE actor == ForeignKey("audit_logs", "actor_user_id", "users", "NO_ACTION")
           org == ForeignKey("audit_logs", "organization_id", "organizations", "NO_ACTION")
           d1 == Execute(db, Drop({actor}))
           d2 == Execute(d1, Drop({org}))
<1>1. Executed(db, Revisions[5].up) = d2
  BY Chain, ShortRuns DEF DropAuditKeys
<1>2. actor # org /\ actor[1] = "fk" /\ org[1] = "fk"
  BY DEF ForeignKey
<1>3. actor \in SchemaAt(4) /\ org \in SchemaAt(4) /\ SchemaAt(5) = SchemaAt(4) \ {actor, org}
  BY Revision5
<1> HIDE DEF actor, org
<1>4. Leads(db, SchemaAt(4), d1, SchemaAt(4) \ {actor})
  BY <1>2, <1>3, DropOne
<1> HIDE DEF d1
<1>5. Leads(d1, SchemaAt(4) \ {actor}, d2, (SchemaAt(4) \ {actor}) \ {org})
  BY <1>2, <1>3, <1>4, Arrived, DropOne
<1>6. SchemaAt(5) = (SchemaAt(4) \ {actor}) \ {org}
  BY <1>3
<1>7. Leads(db, SchemaAt(4), d2, SchemaAt(5))
  BY <1>4, <1>5, <1>6, LeadsOn
<1> QED
  BY <1>1, <1>7, Arrived DEF Rises, BlockedUp

LEMMA Up6 ==
  ASSUME NEW db, Fits(db, SchemaAt(5))
  PROVE  Rises(db, 6)
<1> DEFINE d == Execute(db, Alter("audit_logs", "resource_id", "not_null", "null"))
<1>1. Executed(db, Revisions[6].up) = d
  BY Chain, ShortRuns DEF OptionalResource
<1>2. Leads(db, SchemaAt(5), d, SchemaAt(6))
  BY Revision6, Loosen
<1> QED
  BY <1>1, <1>2, Arrived DEF Rises, BlockedUp

LEMMA Up7 ==
  ASSUME NEW db, Fits(db, SchemaAt(6))
  PROVE  Rises(db, 7)
<1>1. Executed(db, Revisions[7].up) = Execute(db, Create(Table("jti_blocklist", {"id", "jti"}, {})))
  BY Chain, ShortRuns DEF AddJtiBlocklist
<1>2. Leads(db, SchemaAt(6), Execute(db, Create(Table("jti_blocklist", {"id", "jti"}, {}))),
            SchemaAt(7))
  <2> DEFINE new == Table("jti_blocklist", {"id", "jti"}, {})
  <2>1. Missing(db, SchemaAt(6), "jti_blocklist", new) /\ SchemaAt(7) = SchemaAt(6) \union new
    BY ProperTables, Revision7 DEF Missing
  <2> HIDE DEF new
  <2>2. Leads(db, SchemaAt(6), Execute(db, Create(new)), SchemaAt(6) \union new)
    BY <2>1, CreateTable
  <2> QED
    BY <2>1, <2>2 DEF new
<1> QED
  BY <1>1, <1>2, Arrived DEF Rises, BlockedUp

LEMMA Up8 ==
  ASSUME NEW db, Fits(db, SchemaAt(7))
  PROVE  Rises(db, 8)
<1> DEFINE i1 == Index("project_members", "project_id", "plain")
           i2 == Index("project_members", "user_id", "plain")
           new == ProjectMembersAt(8) \ {i1, i2}
           d1 == Execute(db, Create(new))
           d2 == Execute(d1, Create({i1}))
           d3 == Execute(d2, Create({i2}))
           E1 == SchemaAt(7) \union new
           E2 == E1 \union {i1}
<1>1. /\ AddProjectMembers.up = << Create(new), Create({i1}), Create({i2}) >>
      /\ \A e \in new : e[1] # "index"
      /\ i1 \in ProjectMembersAt(8) /\ i2 \in ProjectMembersAt(8)
  BY DEF AddProjectMembers, ProjectMembersAt, Table, Column, Stamps, Default, Unique, Index,
         ForeignKey, Rule
<1>2. Executed(db, Revisions[8].up) = d3
  <2>1. Revisions[8].up = << Create(new), Create({i1}), Create({i2}) >>
    BY <1>1, Chain
  <2> HIDE DEF new, i1, i2
  <2> QED
    BY <2>1, ShortRuns
<1>3. /\ i1[1] = "index" /\ i2[1] = "index" /\ Object(i1) # Object(i2)
      /\ i1[2] = "project_members" /\ i2[2] = "project_members"
  BY DEF Index, Object
<1> HIDE DEF i1, i2
<1>4. /\ Missing(db, SchemaAt(7), "project_members", new)
      /\ SchemaAt(8) = E2 \union {i2}
  <2>1. Proper(Create(new))
    BY ProperTables DEF Proper, Create
  <2> QED
    BY <1>1, <2>1, Revision8 DEF Missing
<1> HIDE DEF new
<1>5. Leads(db, SchemaAt(7), d1, E1)
  BY <1>4, CreateTable
<1>6. Object(i1) \notin Objects(E1) /\ Object(i2) \notin Objects(E2)
  <2>1. \A e \in E1 : ~(e[1] = "index" /\ e[2] = "project_members")
    BY <1>1, <1>4 DEF Missing
  <2> QED
    BY <1>3, <2>1 DEF Objects, Object
<1> HIDE DEF d1, E1
<1>7. Fits(d1, E1)
  BY <1>5, Arrived
<1>8. Leads(d1, E1, d2, E2)
  BY <1>3, <1>6, <1>7, CreateHarmless
<1> HIDE DEF d2, E2
<1>9. Fits(d2, E2)
  BY <1>8, Arrived
<1>10. Leads(d2, E2, d3, SchemaAt(8))
  BY <1>3, <1>4, <1>6, <1>9, CreateHarmless
<1>11. Leads(db, SchemaAt(7), d3, SchemaAt(8))
  BY <1>5, <1>8, <1>10, LeadsOn
<1> QED
  BY <1>2, <1>11, Arrived DEF Rises, BlockedUp

LEMMA Up9 ==
  ASSUME NEW db, Fits(db, SchemaAt(8))
  PROVE  Rises(db, 9)
<1> DEFINE verified == Column("users", "is_verified", "null")
<1>1. Executed(db, Revisions[9].up) = Execute(db, Create({verified}))
  BY Chain, ShortRuns DEF AddVerified
<1>2. verified[1] = "column" /\ verified[4] = "null"
  BY DEF Column
<1>3. Object(verified) \notin Objects(SchemaAt(8)) /\ SchemaAt(9) = SchemaAt(8) \union {verified}
  BY Revision9 DEF Objects
<1> HIDE DEF verified
<1>4. Leads(db, SchemaAt(8), Execute(db, Create({verified})), SchemaAt(9))
  BY <1>2, <1>3, CreateHarmless
<1> QED
  BY <1>1, <1>4, Arrived DEF Rises, BlockedUp

LEMMA Up10 ==
  ASSUME NEW db, Fits(db, SchemaAt(9))
  PROVE  Rises(db, 10)
<1> DEFINE o == Column("organizations", "is_deleted", "null")
           p == Column("projects", "is_deleted", "null")
           u == Column("users", "is_deleted", "null")
           d1 == Execute(db, Create({o}))
           d2 == Execute(d1, Create({p}))
           d3 == Execute(d2, Create({u}))
           E1 == SchemaAt(9) \union {o}
           E2 == E1 \union {p}
           E3 == E2 \union {u}
<1>1. Executed(db, Revisions[10].up) = d3
  BY Chain, ShortRuns DEF SoftDelete
<1>2. /\ o[1] = "column" /\ p[1] = "column" /\ u[1] = "column"
      /\ o[4] = "null" /\ p[4] = "null" /\ u[4] = "null"
      /\ Object(o) # Object(p) /\ Object(o) # Object(u) /\ Object(p) # Object(u)
  BY DEF Column, Object
<1>3. /\ SchemaAt(10) = E3
      /\ \A e \in SchemaAt(9) : Object(e) \notin {Object(o), Object(p), Object(u)}
  BY Revision10
<1> HIDE DEF o, p, u
<1>4. /\ Object(o) \notin Objects(SchemaAt(9)) /\ Object(p) \notin Objects(E1)
      /\ Object(u) \notin Objects(E2)
  BY <1>2, <1>3 DEF Objects
<1>5. Leads(db, SchemaAt(9), d1, E1)
  BY <1>2, <1>4, CreateHarmless
<1> HIDE DEF d1, E1
<1>6. Leads(d1, E1, d2, E2)
  BY <1>2, <1>4, <1>5, Arrived, CreateHarmless
<1> HIDE DEF d2, E2
<1>7. Leads(d2, E2, d3, E3)
  BY <1>2, <1>4, <1>6, Arrived, CreateHarmless
<1>8. Leads(db, SchemaAt(9), d3, SchemaAt(10))
  BY <1>3, <1>5, <1>6, <1>7, LeadsOn
<1> QED
  BY <1>1, <1>8, Arrived DEF Rises, BlockedUp

LEMMA Up11 ==
  ASSUME NEW db, NEW r \in {11, 13}, Fits(db, SchemaAt(r - 1))
  PROVE  Rises(db, r)
<1>1. Executed(db, Revisions[r].up) = db
  BY Chain, ShortRuns DEF OauthPlaceholder, UuidDefault
<1>2. SchemaAt(r) = SchemaAt(r - 1)
  BY EmptyRevisions
<1> QED
  BY <1>1, <1>2 DEF Rises, BlockedUp, Leads, Fits

LEMMA Up12 ==
  ASSUME NEW db, Fits(db, SchemaAt(11))
  PROVE  Rises(db, 12)
<1> DEFINE new == AuthIdentities
           d == Execute(db, Create(new))
<1>1. Executed(db, Revisions[12].up) = d
  <2>1. Revisions[12].up = << Create(new) >>
    BY Chain DEF AddAuthIdentities, AuthIdentities
  <2> HIDE DEF new
  <2> QED
    BY <2>1, ShortRuns
<1>2. Provider \in AllTypes /\ Provider \in new
  BY Revision12 DEF AllTypes
<1>3. CASE Provider \in db.schema
  <2>1. IsDb(d) /\ d.failed
    BY <1>2, <1>3, TypeTaken
  <2> QED
    BY <1>1, <1>3, <2>1 DEF Rises, BlockedUp
<1>4. CASE Provider \notin db.schema
  <2>1. Provider[1] = "type" /\ Object(Provider) \notin Objects(db.schema)
    BY <1>2, <1>4, TypeFree
  <2>2. Missing(db, SchemaAt(11), "auth_identities", new) /\ SchemaAt(12) = SchemaAt(11) \union new
    BY <2>1, ProperTables, Revision12 DEF Missing
  <2> HIDE DEF new
  <2>3. Leads(db, SchemaAt(11), d, SchemaAt(12))
    BY <2>2, CreateTable
  <2> QED
    BY <1>1, <1>4, <2>3, Arrived DEF Rises, BlockedUp
<1> QED
  BY <1>3, <1>4

LEMMA Up14 ==
  ASSUME NEW db, Fits(db, SchemaAt(13))
  PROVE  Rises(db, 14)
<1> DEFINE hash == Column("users", "password_hash", "not_null")
<1>1. Executed(db, Revisions[14].up) = Execute(db, Drop({hash}))
  BY Chain, ShortRuns DEF DropPasswordHash
<1>2. hash[1] = "column"
  BY DEF Column
<1>3. hash \in SchemaAt(13) /\ SchemaAt(14) = SchemaAt(13) \ {hash}
  BY Revision14
<1> HIDE DEF hash
<1>4. Leads(db, SchemaAt(13), Execute(db, Drop({hash})), SchemaAt(14))
  BY <1>2, <1>3, DropOne
<1> QED
  BY <1>1, <1>4, Arrived DEF Rises, BlockedUp

LEMMA Up15 ==
  ASSUME NEW db, Fits(db, SchemaAt(14))
  PROVE  Rises(db, 15)
<1> DEFINE ss == DbChanges.up
           s1 == ForeignKey("organization_members", "user_id", "users", "CASCADE")
           s2 == ForeignKey("organization_members", "organization_id", "organizations", "CASCADE")
           s3 == ForeignKey("project_members", "user_id", "users", "CASCADE")
           s4 == ForeignKey("project_members", "project_id", "projects", "CASCADE")
           s5 == ForeignKey("projects", "organization_id", "organizations", "CASCADE")
           s6 == ForeignKey("projects", "created_by", "users", "RESTRICT")
           l1 == ForeignKey("organization_members", "user_id", "users", "NO_ACTION")
           l2 == ForeignKey("organization_members", "organization_id", "organizations", "NO_ACTION")
           l3 == ForeignKey("project_members", "user_id", "users", "NO_ACTION")
           l4 == ForeignKey("project_members", "project_id", "projects", "NO_ACTION")
           l5 == ForeignKey("projects", "organization_id", "organizations", "NO_ACTION")
           l6 == ForeignKey("projects", "created_by", "users", "NO_ACTION")
           i1 == Index("projects", "id", "plain")
           i2 == Index("users", "email", "unique")
           i3 == Index("users", "id", "plain")
           Swap(s, l) == [drop |-> {s}, make |-> {l}]
           E0 == SchemaAt(14)
           E1 == (E0 \ {s1}) \union {l1}
           E2 == (E1 \ {s2}) \union {l2}
           E3 == (E2 \ {s3}) \union {l3}
           E4 == (E3 \ {s4}) \union {l4}
           E5 == E4 \union {i1}
           E6 == (E5 \ {s5}) \union {l5}
           E7 == (E6 \ {s6}) \union {l6}
           E8 == E7 \ {EmailKey}
           E9 == E8 \union {i2}
           E10 == E9 \union {i3}
<1>1. /\ Len(ss) = 10
      /\ ss[1] = Swap(s1, l1) /\ ss[2] = Swap(s2, l2) /\ ss[3] = Swap(s3, l3)
      /\ ss[4] = Swap(s4, l4) /\ ss[5] = Create({i1}) /\ ss[6] = Swap(s5, l5)
      /\ ss[7] = Swap(s6, l6) /\ ss[8] = Drop({EmailKey}) /\ ss[9] = Create({i2})
      /\ ss[10] = Create({i3})
  BY DEF DbChanges, EmailKey
<1>l. Len(ss) = 10 /\ Len(ss) \in Nat
  BY <1>1
<1>2. PICK a : Statementwise(a, db, ss) /\ Executed(db, ss) = a[Len(ss)]
  <2> HIDE DEF ss
  <2> QED
    BY <1>l, ExecutedSteps
<1>3. Executed(db, Revisions[15].up) = a[10]
  BY <1>l, <1>2, Chain
<1>4. /\ a[0] = db
      /\ a[1] = Execute(a[0], Swap(s1, l1)) /\ a[2] = Execute(a[1], Swap(s2, l2))
      /\ a[3] = Execute(a[2], Swap(s3, l3)) /\ a[4] = Execute(a[3], Swap(s4, l4))
      /\ a[5] = Execute(a[4], Create({i1})) /\ a[6] = Execute(a[5], Swap(s5, l5))
      /\ a[7] = Execute(a[6], Swap(s6, l6)) /\ a[8] = Execute(a[7], Drop({EmailKey}))
      /\ a[9] = Execute(a[8], Create({i2})) /\ a[10] = Execute(a[9], Create({i3}))
  <2> HIDE DEF ss, Swap, s1, s2, s3, s4, s5, s6, l1, l2, l3, l4, l5, l6, i1, i2, i3
  <2> QED
    BY <1>1, <1>2 DEF Statementwise
<1> HIDE DEF ss
<1>5. /\ s1[1] = "fk" /\ s2[1] = "fk" /\ s3[1] = "fk" /\ s4[1] = "fk" /\ s5[1] = "fk"
      /\ s6[1] = "fk"
      /\ Object(l1) = Object(s1) /\ Object(l2) = Object(s2) /\ Object(l3) = Object(s3)
      /\ Object(l4) = Object(s4) /\ Object(l5) = Object(s5) /\ Object(l6) = Object(s6)
      /\ i1[1] = "index" /\ i2[1] = "index" /\ i3[1] = "index" /\ EmailKey[1] = "unique"
      /\ Object(i1) # Object(i2) /\ Object(i1) # Object(i3) /\ Object(i2) # Object(i3)
  BY DEF ForeignKey, Index, Unique, EmailKey, Object
<1>6. /\ s1 # s2 /\ s1 # s3 /\ s1 # s4 /\ s1 # s5 /\ s1 # s6
      /\ s2 # s3 /\ s2 # s4 /\ s2 # s5 /\ s2 # s6
      /\ s3 # s4 /\ s3 # s5 /\ s3 # s6
      /\ s4 # s5 /\ s4 # s6 /\ s5 # s6
  BY DEF ForeignKey
<1>7. \A s \in {s1, s2, s3, s4, s5, s6} : \A l \in {l1, l2, l3, l4, l5, l6} : s # l
  BY DEF ForeignKey
<1>8. \A k \in {s1, s2, s3, s4, s5, s6, l1, l2, l3, l4, l5, l6} : k[1] = "fk"
  BY DEF ForeignKey
<1>9. /\ SchemaAt(15) = (E0 \ {s1, s2, s3, s4, s5, s6, EmailKey})
                          \union {l1, l2, l3, l4, l5, l6, i1, i2, i3}
      /\ {s1, s2, s3, s4, s5, s6, EmailKey} \subseteq E0
      /\ \A e \in E0 : \A i \in {i1, i2, i3} : Object(e) # Object(i)
  BY Revision15 DEF StrictKeys, LooseKeys, NewIndexes
<1> HIDE DEF s1, s2, s3, s4, s5, s6, l1, l2, l3, l4, l5, l6, i1, i2, i3, E0
<1>10. SchemaAt(15) = E10
  BY <1>5, <1>7, <1>8, <1>9
<1>11. /\ s1 \in E0 /\ s2 \in E1 /\ s3 \in E2 /\ s4 \in E3 /\ s5 \in E5 /\ s6 \in E6
       /\ EmailKey \in E7
  BY <1>5, <1>6, <1>8, <1>9
<1>12. Object(i1) \notin Objects(E4) /\ Object(i2) \notin Objects(E8) /\ Object(i3) \notin Objects(E9)
  <2>1. \A k \in {l1, l2, l3, l4, l5, l6} : \A i \in {i1, i2, i3} : Object(k) # Object(i)
    BY <1>5, <1>8 DEF Object
  <2> QED
    BY <1>5, <1>9, <2>1 DEF Objects
<1> HIDE DEF Swap
<1>13. \A d, E, e, f : Fits(d, E) /\ e \in E /\ e[1] = "fk" /\ Object(f) = Object(e) =>
         LET x == Execute(d, Swap(e, f))
         IN  Fits(x, (E \ {e}) \union {f}) /\ Leads(d, E, x, (E \ {e}) \union {f})
  BY ReplaceKey DEF Swap
<1>14. Fits(a[1], E1) /\ Leads(db, E0, a[1], E1)
  BY <1>4, <1>5, <1>11, <1>13 DEF E0
<1> HIDE DEF E1
<1>15. Fits(a[2], E2) /\ Leads(a[1], E1, a[2], E2)
  BY <1>4, <1>5, <1>11, <1>13, <1>14
<1> HIDE DEF E2
<1>16. Fits(a[3], E3) /\ Leads(a[2], E2, a[3], E3)
  BY <1>4, <1>5, <1>11, <1>13, <1>15
<1> HIDE DEF E3
<1>17. Fits(a[4], E4) /\ Leads(a[3], E3, a[4], E4)
  BY <1>4, <1>5, <1>11, <1>13, <1>16
<1> HIDE DEF E4
<1>18. Leads(a[4], E4, a[5], E5)
  BY <1>4, <1>5, <1>12, <1>17, CreateHarmless
<1>19. Fits(a[5], E5)
  BY <1>18, Arrived
<1> HIDE DEF E5
<1>20. Fits(a[6], E6) /\ Leads(a[5], E5, a[6], E6)
  BY <1>4, <1>5, <1>11, <1>13, <1>19
<1> HIDE DEF E6
<1>21. Fits(a[7], E7) /\ Leads(a[6], E6, a[7], E7)
  BY <1>4, <1>5, <1>11, <1>13, <1>20
<1> HIDE DEF E7
<1>22. Leads(a[7], E7, a[8], E8)
  <2>1. Fits(a[7], E7) /\ EmailKey \in E7 /\ EmailKey[1] # "type" /\ EmailKey[1] # "table"
    BY <1>5, <1>11, <1>21
  <2>2. Leads(a[7], E7, Execute(a[7], Drop({EmailKey})), E7 \ {EmailKey})
    BY <2>1, DropOne
  <2> QED
    BY <1>4, <2>2
<1>23. Fits(a[8], E8)
  BY <1>22, Arrived
<1> HIDE DEF E8
<1>24. Leads(a[8], E8, a[9], E9)
  BY <1>4, <1>5, <1>12, <1>23, CreateHarmless
<1>25. Fits(a[9], E9)
  BY <1>24, Arrived
<1> HIDE DEF E9
<1>26. Leads(a[9], E9, a[10], E10)
  BY <1>4, <1>5, <1>12, <1>25, CreateHarmless
<1> HIDE DEF E10
<1>27. Leads(db, E0, a[4], E4)
  BY <1>14, <1>15, <1>16, <1>17, LeadsOn
<1>28. Leads(a[4], E4, a[7], E7)
  BY <1>18, <1>20, <1>21, LeadsOn
<1>29. Leads(a[7], E7, a[10], E10)
  BY <1>22, <1>24, <1>26, LeadsOn
<1>30. Leads(db, E0, a[10], E10)
  BY <1>27, <1>28, <1>29, LeadsOn
<1>31. Leads(db, SchemaAt(14), a[10], SchemaAt(15))
  BY <1>10, <1>30 DEF E0
<1> QED
  BY <1>3, <1>31, Arrived DEF Rises, BlockedUp

LEMMA Up ==
  ASSUME NEW db, NEW r \in 1 .. 15, Fits(db, SchemaAt(r - 1))
  PROVE  Rises(db, r)
<1>1. CASE r \in 1 .. 5
  BY <1>1, Revision1, Up1, Up2, Up3, Up4, Up5
<1>2. CASE r \in 6 .. 10
  BY <1>2, Up6, Up7, Up8, Up9, Up10
<1>3. CASE r \in 11 .. 15
  BY <1>3, Up11, Up12, Up14, Up15
<1> QED
  BY <1>1, <1>2, <1>3

-----------------------------------------------------------------------------
(* Downgrades, revision by revision.                                       *)

\* What a downgrade of revision r trips over: NULLs and references in the audit
\* log, users without a password hash, and keys without a name.
BlockedDown(db, r) ==
  LET audit(kind, c) == <<kind, "audit_logs", c>> \in db.rows
  IN  \/ r = 4 /\ (audit("null", "actor_user_id") \/ audit("null", "organization_id"))
      \/ r = 5 /\ (audit("dangling", "actor_user_id") \/ audit("dangling", "organization_id"))
      \/ r = 6 /\ audit("null", "resource_id")
      \/ r = 14 /\ <<"row", "users", "-">> \in db.rows
      \/ r = 15

Falls(db, r) ==
  LET d == Executed(db, Revisions[r].down)
  IN  /\ IsDb(d)
      /\ d.failed <=> BlockedDown(db, r)
      /\ ~d.failed => /\ Fits(d, SchemaAt(r - 1))
                      /\ r >= 4 => About(d, "audit_logs") = About(db, "audit_logs")

LEMMA Falling ==
  ASSUME NEW db, NEW r \in 1 .. 14 , r \notin {4, 5, 6, 14}, NEW d,
         d = Executed(db, Revisions[r].down), Fits(d, SchemaAt(r - 1)),
         r >= 4 => About(d, "audit_logs") = About(db, "audit_logs")
  PROVE  Falls(db, r)
  BY DEF Falls, BlockedDown, Fits

LEMMA AboutFact ==
  ASSUME NEW db1, NEW db2, NEW t, About(db1, t) = About(db2, t)
  PROVE  \A kind, c : <<kind, t, c>> \in db1.rows <=> <<kind, t, c>> \in db2.rows
<1>1. \A kind, c : <<kind, t, c>>[2] = t
  OBVIOUS
<1> QED
  BY <1>1 DEF About

LEMMA Down2 ==
  ASSUME NEW db, Fits(db, SchemaAt(2))
  PROVE  Falls(db, 2)
<1> DEFINE slug == Column("organizations", "slug", "not_null")
           d == Execute(db, Drop({slug}))
<1>1. Executed(db, Revisions[2].down) = d
  BY Chain, ShortRuns DEF AddSlug
<1>2. slug[1] = "column"
  BY DEF Column
<1>3. slug \in SchemaAt(2) /\ SchemaAt(1) = SchemaAt(2) \ {slug}
  BY Revision2
<1> HIDE DEF slug
<1>4. Leads(db, SchemaAt(2), d, SchemaAt(1))
  BY <1>2, <1>3, DropOne
<1> QED
  BY <1>1, <1>4, Arrived, Falling

LEMMA Down3 ==
  ASSUME NEW db, Fits(db, SchemaAt(3))
  PROVE  Falls(db, 3)
<1> DEFINE d == Execute(db, DropTable("audit_logs"))
<1>1. Executed(db, Revisions[3].down) = d
  BY Chain, ShortRuns DEF AddAuditLogs
<1>2. TableOf("audit_logs") \in SchemaAt(3)
  BY Revision3 DEF AuditLogsAt, Table, TableOf
<1>3. \A e \in SchemaAt(3) : e[1] = "fk" /\ e[2] # "audit_logs" => e[4][1] # "audit_logs"
  BY Targets
<1>4. {e \in SchemaAt(3) : e[2] # "audit_logs"} = SchemaAt(2)
  BY Revision3
<1>5. Fits(d, SchemaAt(2))
  BY <1>2, <1>3, <1>4, DropTheTable
<1> QED
  BY <1>1, <1>5, Falling

LEMMA Down4 ==
  ASSUME NEW db, Fits(db, SchemaAt(4))
  PROVE  Falls(db, 4)
<1> DEFINE actor(null) == Column("audit_logs", "actor_user_id", null)
           org(null) == Column("audit_logs", "organization_id", null)
           d1 == Execute(db, Alter("audit_logs", "organization_id", "null", "not_null"))
           d2 == Execute(d1, Alter("audit_logs", "actor_user_id", "null", "not_null"))
           E1 == (SchemaAt(4) \ {org("null")}) \union {org("not_null")}
           E2 == (E1 \ {actor("null")}) \union {actor("not_null")}
<1>1. Executed(db, Revisions[4].down) = d2
  BY Chain, ShortRuns DEF OptionalActor
<1>2. /\ actor("not_null") # org("not_null") /\ actor("null") # org("null")
      /\ actor("null") # org("not_null") /\ actor("not_null") # org("null")
  BY DEF Column
<1>3. org("null") \in SchemaAt(4) /\ actor("null") \in E1 /\ SchemaAt(3) = E2
  BY <1>2, Revision4
<1>4. IsDb(d1) /\ (d1.failed <=> <<"null", "audit_logs", "organization_id">> \in db.rows)
  BY <1>3, Tighten
<1>5. CASE d1.failed
  <2>1. IsDb(d2) /\ d2.failed
    BY <1>4, <1>5, FailureStays
  <2> QED
    BY <1>1, <1>4, <1>5, <2>1 DEF Falls, BlockedDown
<1>6. CASE ~d1.failed
  <2>1. Fits(d1, E1) /\ About(d1, "audit_logs") = About(db, "audit_logs")
    BY <1>3, <1>6, Tighten
  <2> HIDE DEF d1, E1
  <2>2. IsDb(d2) /\ (d2.failed <=> <<"null", "audit_logs", "actor_user_id">> \in d1.rows)
    BY <1>3, <2>1, Tighten
  <2>3. ~d2.failed => Fits(d2, E2) /\ About(d2, "audit_logs") = About(d1, "audit_logs")
    BY <1>3, <2>1, Tighten
  <2>4. <<"null", "audit_logs", "actor_user_id">> \in d1.rows
          <=> <<"null", "audit_logs", "actor_user_id">> \in db.rows
    BY <2>1, AboutFact
  <2> QED
    BY <1>1, <1>3, <1>4, <1>6, <2>1, <2>2, <2>3, <2>4 DEF Falls, BlockedDown
<1> QED
  BY <1>5, <1>6

LEMMA Down5 ==
  ASSUME NEW db, Fits(db, SchemaAt(5))
  PROVE  Falls(db, 5)
<1> DEFINE actor == ForeignKey("audit_logs", "actor_user_id", "users", "NO_ACTION")
           org == ForeignKey("audit_logs", "organization_id", "organizations", "NO_ACTION")
           d1 == Execute(db, Create({org}))
           d2 == Execute(d1, Create({actor}))
           E1 == SchemaAt(5) \union {org}
           E2 == E1 \union {actor}
<1>1. Executed(db, Revisions[5].down) = d2
  BY Chain, ShortRuns DEF DropAuditKeys
<1>2. /\ org[1] = "fk" /\ org[2] = "audit_logs" /\ org[3] = "organization_id"
      /\ actor[1] = "fk" /\ actor[2] = "audit_logs" /\ actor[3] = "actor_user_id"
      /\ Object(org) # Object(actor)
  BY DEF ForeignKey, Object
<1>3. /\ SchemaAt(4) = E2
      /\ Object(org) \notin Objects(SchemaAt(5)) /\ Object(actor) \notin Objects(E1)
  <2>1. /\ SchemaAt(5) = SchemaAt(4) \ {actor, org} /\ actor \in SchemaAt(4) /\ org \in SchemaAt(4)
        /\ \A e \in SchemaAt(5) : Object(e) \notin {Object(actor), Object(org)}
    BY Revision5
  <2> HIDE DEF actor, org
  <2> QED
    BY <1>2, <2>1 DEF Objects
<1> HIDE DEF actor, org
<1>4. IsDb(d1) /\ (d1.failed <=> <<"dangling", "audit_logs", "organization_id">> \in db.rows)
  BY <1>2, <1>3, CreateOne
<1>5. CASE d1.failed
  <2>1. IsDb(d2) /\ d2.failed
    BY <1>4, <1>5, FailureStays
  <2> QED
    BY <1>1, <1>4, <1>5, <2>1 DEF Falls, BlockedDown
<1>6. CASE ~d1.failed
  <2>1. Leads(db, SchemaAt(5), d1, E1) /\ About(d1, "audit_logs") = About(db, "audit_logs")
    BY <1>2, <1>3, <1>6, CreateOne
  <2>2. Fits(d1, E1)
    BY <2>1, Arrived
  <2> HIDE DEF d1, E1
  <2>3. IsDb(d2) /\ (d2.failed <=> <<"dangling", "audit_logs", "actor_user_id">> \in d1.rows)
    BY <1>2, <1>3, <2>2, CreateOne
  <2>4. ~d2.failed => Leads(d1, E1, d2, E2) /\ About(d2, "audit_logs") = About(d1, "audit_logs")
    BY <1>2, <1>3, <2>2, CreateOne
  <2>5. <<"dangling", "audit_logs", "actor_user_id">> \in d1.rows
          <=> <<"dangling", "audit_logs", "actor_user_id">> \in db.rows
    BY <2>1, AboutFact
  <2>6. ~d2.failed => Fits(d2, SchemaAt(4))
    BY <1>3, <2>4, Arrived
  <2> QED
    BY <1>1, <1>4, <1>6, <2>1, <2>3, <2>4, <2>5, <2>6 DEF Falls, BlockedDown
<1> QED
  BY <1>5, <1>6

LEMMA Down6 ==
  ASSUME NEW db, Fits(db, SchemaAt(6))
  PROVE  Falls(db, 6)
<1> DEFINE resource(null) == Column("audit_logs", "resource_id", null)
           d == Execute(db, Alter("audit_logs", "resource_id", "null", "not_null"))
<1>1. Executed(db, Revisions[6].down) = d
  BY Chain, ShortRuns DEF OptionalResource
<1>2. /\ resource("null") \in SchemaAt(6)
      /\ SchemaAt(5) = (SchemaAt(6) \ {resource("null")}) \union {resource("not_null")}
  BY Revision6
<1>3. IsDb(d) /\ (d.failed <=> <<"null", "audit_logs", "resource_id">> \in db.rows)
  BY <1>2, Tighten
<1>4. ~d.failed => Fits(d, SchemaAt(5)) /\ About(d, "audit_logs") = About(db, "audit_logs")
  BY <1>2, Tighten
<1> QED
  BY <1>1, <1>3, <1>4 DEF Falls, BlockedDown

LEMMA Down7 ==
  ASSUME NEW db, Fits(db, SchemaAt(7))
  PROVE  Falls(db, 7)
<1> DEFINE d == Execute(db, DropTable("jti_blocklist"))
<1>1. Executed(db, Revisions[7].down) = d
  BY Chain, ShortRuns DEF AddJtiBlocklist
<1>2. TableOf("jti_blocklist") \in SchemaAt(7)
  BY Revision7 DEF Table, TableOf
<1>3. \A e \in SchemaAt(7) : e[1] = "fk" /\ e[2] # "jti_blocklist" => e[4][1] # "jti_blocklist"
  BY Targets
<1>4. {e \in SchemaAt(7) : e[2] # "jti_blocklist"} = SchemaAt(6)
  BY Revision7
<1>5. Fits(d, SchemaAt(6)) /\ About(d, "audit_logs") = About(db, "audit_logs")
  BY <1>2, <1>3, <1>4, DropTheTable
<1> QED
  BY <1>1, <1>5, Falling

LEMMA Down8 ==
  ASSUME NEW db, Fits(db, SchemaAt(8))
  PROVE  Falls(db, 8)
<1> DEFINE i1 == Index("project_members", "user_id", "plain")
           i2 == Index("project_members", "project_id", "plain")
           E1 == SchemaAt(8) \ {i1}
           E2 == E1 \ {i2}
           d1 == Execute(db, Drop({i1}))
           d2 == Execute(d1, Drop({i2}))
           d3 == Execute(d2, DropTable("project_members"))
<1>1. Executed(db, Revisions[8].down) = d3
  BY Chain, ShortRuns DEF AddProjectMembers
<1>2. /\ i1 # i2 /\ i1[1] = "index" /\ i2[1] = "index" /\ TableOf("project_members")[1] = "table"
      /\ {i1, i2, TableOf("project_members")} \subseteq ProjectMembersAt(8)
  BY DEF Index, TableOf, ProjectMembersAt, Table
<1> HIDE DEF i1, i2
<1>3. i1 \in SchemaAt(8) /\ i2 \in E1 /\ TableOf("project_members") \in E2
  BY <1>2, Revision8
<1>4. \A e \in E2 : e[1] = "fk" /\ e[2] # "project_members" => e[4][1] # "project_members"
  BY Targets
<1>5. {e \in E2 : e[2] # "project_members"} = SchemaAt(7)
  <2>1. i1[2] = "project_members" /\ i2[2] = "project_members"
    BY DEF i1, i2, Index
  <2> QED
    BY <2>1, Revision8
<1>6. Leads(db, SchemaAt(8), d1, E1) /\ About(d1, "audit_logs") = About(db, "audit_logs")
  BY <1>2, <1>3, DropOne
<1>7. Fits(d1, E1)
  BY <1>6, Arrived
<1> HIDE DEF d1, E1
<1>8. Leads(d1, E1, d2, E2) /\ About(d2, "audit_logs") = About(d1, "audit_logs")
  BY <1>2, <1>3, <1>7, DropOne
<1>9. Fits(d2, E2)
  BY <1>8, Arrived
<1> HIDE DEF d2, E2
<1>10. Fits(d3, SchemaAt(7)) /\ About(d3, "audit_logs") = About(d2, "audit_logs")
  BY <1>3, <1>4, <1>5, <1>9, DropTheTable
<1> QED
  BY <1>1, <1>6, <1>8, <1>10, Falling

LEMMA Down9 ==
  ASSUME NEW db, Fits(db, SchemaAt(9))
  PROVE  Falls(db, 9)
<1> DEFINE verified == Column("users", "is_verified", "null")
           d == Execute(db, Drop({verified}))
<1>1. Executed(db, Revisions[9].down) = d
  BY Chain, ShortRuns DEF AddVerified
<1>2. verified[1] = "column" /\ verified[2] = "users"
  BY DEF Column
<1>3. verified \in SchemaAt(9) /\ SchemaAt(8) = SchemaAt(9) \ {verified}
  BY Revision9
<1> HIDE DEF verified
<1>4. Leads(db, SchemaAt(9), d, SchemaAt(8)) /\ About(d, "audit_logs") = About(db, "audit_logs")
  BY <1>2, <1>3, DropOne
<1> QED
  BY <1>1, <1>4, Arrived, Falling

LEMMA Down10 ==
  ASSUME NEW db, Fits(db, SchemaAt(10))
  PROVE  Falls(db, 10)
<1> DEFINE o == Column("organizations", "is_deleted", "null")
           p == Column("projects", "is_deleted", "null")
           u == Column("users", "is_deleted", "null")
           d1 == Execute(db, Drop({u}))
           d2 == Execute(d1, Drop({p}))
           d3 == Execute(d2, Drop({o}))
           E1 == SchemaAt(10) \ {u}
           E2 == E1 \ {p}
           E3 == E2 \ {o}
<1>1. Executed(db, Revisions[10].down) = d3
  BY Chain, ShortRuns DEF SoftDelete
<1>2. /\ o[1] = "column" /\ p[1] = "column" /\ u[1] = "column"
      /\ o[2] = "organizations" /\ p[2] = "projects" /\ u[2] = "users"
  BY DEF Column
<1>3. {o, p, u} \subseteq SchemaAt(10) /\ SchemaAt(9) = SchemaAt(10) \ {o, p, u}
  BY Revision10
<1> HIDE DEF o, p, u
<1>4. u \in SchemaAt(10) /\ p \in E1 /\ o \in E2 /\ SchemaAt(9) = E3
  BY <1>2, <1>3
<1>5. Leads(db, SchemaAt(10), d1, E1) /\ About(d1, "audit_logs") = About(db, "audit_logs")
  BY <1>2, <1>4, DropOne
<1>6. Fits(d1, E1)
  BY <1>5, Arrived
<1> HIDE DEF d1, E1
<1>7. Leads(d1, E1, d2, E2) /\ About(d2, "audit_logs") = About(d1, "audit_logs")
  BY <1>2, <1>4, <1>6, DropOne
<1>8. Fits(d2, E2)
  BY <1>7, Arrived
<1> HIDE DEF d2, E2
<1>9. Leads(d2, E2, d3, E3) /\ About(d3, "audit_logs") = About(d2, "audit_logs")
  BY <1>2, <1>4, <1>8, DropOne
<1>10. Fits(d3, SchemaAt(9))
  BY <1>4, <1>9, Arrived
<1> QED
  BY <1>1, <1>5, <1>7, <1>9, <1>10, Falling

LEMMA Down11 ==
  ASSUME NEW db, NEW r \in {11, 13}, Fits(db, SchemaAt(r))
  PROVE  Falls(db, r)
<1>1. Executed(db, Revisions[r].down) = db
  BY Chain, ShortRuns DEF OauthPlaceholder, UuidDefault
<1>2. Fits(db, SchemaAt(r - 1))
  BY EmptyRevisions
<1> QED
  BY <1>1, <1>2, Falling

LEMMA Down12 ==
  ASSUME NEW db, Fits(db, SchemaAt(12))
  PROVE  Falls(db, 12)
<1> DEFINE d == Execute(db, DropTable("auth_identities"))
           E1 == {e \in SchemaAt(12) : e[2] # "auth_identities"}
<1>1. Executed(db, Revisions[12].down) = d
  BY Chain, ShortRuns DEF AddAuthIdentities
<1>2. TableOf("auth_identities") \in SchemaAt(12)
  BY Revision12 DEF AuthIdentities, Table, TableOf
<1>3. \A e \in SchemaAt(12) :
        e[1] = "fk" /\ e[2] # "auth_identities" => e[4][1] # "auth_identities"
  BY Targets
<1>4. SchemaAt(11) \subseteq E1 /\ E1 \ SchemaAt(11) \subseteq AllTypes
  BY Revision12 DEF AllTypes
<1>5. Fits(d, E1)
  BY <1>2, <1>3, DropTheTable
<1>6. About(d, "audit_logs") = About(db, "audit_logs")
  BY <1>2, <1>3, DropTheTable
<1> HIDE DEF d, E1
<1>7. Fits(d, SchemaAt(11))
  BY <1>4, <1>5, LeftBehind
<1> QED
  BY <1>1, <1>6, <1>7, Falling

LEMMA Down14 ==
  ASSUME NEW db, Fits(db, SchemaAt(14))
  PROVE  Falls(db, 14)
<1> DEFINE hash == Column("users", "password_hash", "not_null")
           d == Execute(db, Create({hash}))
<1>1. Executed(db, Revisions[14].down) = d
  BY Chain, ShortRuns DEF DropPasswordHash
<1>2. hash[1] = "column" /\ hash[2] = "users" /\ hash[4] = "not_null"
  BY DEF Column
<1>3. Object(hash) \notin Objects(SchemaAt(14)) /\ SchemaAt(13) = SchemaAt(14) \union {hash}
  BY Revision14 DEF Objects
<1> HIDE DEF hash
<1>4. IsDb(d) /\ (d.failed <=> <<"row", "users", "-">> \in db.rows)
  BY <1>2, <1>3, CreateOne
<1>5. ~d.failed =>
        Leads(db, SchemaAt(14), d, SchemaAt(13)) /\ About(d, "audit_logs") = About(db, "audit_logs")
  BY <1>2, <1>3, CreateOne
<1>6. ~d.failed => Fits(d, SchemaAt(13))
  BY <1>5, Arrived
<1> QED
  BY <1>1, <1>4, <1>5, <1>6 DEF Falls, BlockedDown

LEMMA Down1 ==
  ASSUME NEW db, Fits(db, SchemaAt(1))
  PROVE  Falls(db, 1)
<1> DEFINE ss == AddTables.down
           ip == Index("projects", "organization_id", "plain")
           im1 == Index("organization_members", "user_id", "plain")
           im2 == Index("organization_members", "organization_id", "plain")
           E0 == SchemaAt(1)
           E1 == E0 \ {ip}
           E2 == {e \in E1 : e[2] # "projects"}
           E3 == E2 \ {im1}
           E4 == E3 \ {im2}
           E5 == {e \in E4 : e[2] # "organization_members"}
           E6 == {e \in E5 : e[2] # "users"}
           E7 == {e \in E6 : e[2] # "organizations"}
<1>1. /\ Len(ss) = 7
      /\ ss[1] = Drop({ip}) /\ ss[2] = DropTable("projects") /\ ss[3] = Drop({im1})
      /\ ss[4] = Drop({im2}) /\ ss[5] = DropTable("organization_members")
      /\ ss[6] = DropTable("users") /\ ss[7] = DropTable("organizations")
  BY DEF AddTables
<1>l. Len(ss) = 7 /\ Len(ss) \in Nat
  BY <1>1
<1>2. PICK a : Statementwise(a, db, ss) /\ Executed(db, ss) = a[Len(ss)]
  <2> HIDE DEF ss
  <2> QED
    BY <1>l, ExecutedSteps
<1>3. Executed(db, Revisions[1].down) = a[7]
  BY <1>l, <1>2, Chain
<1>4. /\ a[0] = db
      /\ a[1] = Execute(a[0], Drop({ip})) /\ a[2] = Execute(a[1], DropTable("projects"))
      /\ a[3] = Execute(a[2], Drop({im1})) /\ a[4] = Execute(a[3], Drop({im2}))
      /\ a[5] = Execute(a[4], DropTable("organization_members"))
      /\ a[6] = Execute(a[5], DropTable("users"))
      /\ a[7] = Execute(a[6], DropTable("organizations"))
  <2> HIDE DEF ss, ip, im1, im2
  <2> QED
    BY <1>1, <1>2 DEF Statementwise
<1> HIDE DEF ss
<1>5. /\ ip[1] = "index" /\ ip[2] = "projects"
      /\ im1[1] = "index" /\ im1[2] = "organization_members"
      /\ im2[1] = "index" /\ im2[2] = "organization_members" /\ im1 # im2
      /\ ip \in ProjectsAt(1) /\ im1 \in OrganizationMembersAt(1)
      /\ im2 \in OrganizationMembersAt(1)
  BY DEF Index, ProjectsAt, OrganizationMembersAt
<1>6. /\ TableOf("organizations") \in OrganizationsAt(1) /\ TableOf("users") \in UsersAt(1)
      /\ TableOf("organization_members") \in OrganizationMembersAt(1)
      /\ TableOf("projects") \in ProjectsAt(1)
  BY DEF TableOf, Table, OrganizationsAt, UsersAt, OrganizationMembersAt, ProjectsAt
<1>7. \A t : TableOf(t)[1] = "table" /\ TableOf(t)[2] = t
  BY DEF TableOf
<1> HIDE DEF ip, im1, im2
<1>8. /\ ip \in E0 /\ TableOf("projects") \in E1 /\ im1 \in E2 /\ im2 \in E3
      /\ TableOf("organization_members") \in E4 /\ TableOf("users") \in E5
      /\ TableOf("organizations") \in E6
  BY <1>5, <1>6, <1>7, Revision1
<1>9. \A e \in E0 : e[1] = "fk" => /\ e[4][1] \in {"organizations", "users"}
                                 /\ e[2] \in {"projects", "organization_members"}
  <2>1. \A e \in OrganizationsAt(1) \union UsersAt(1) : e[1] # "fk"
    BY DEF OrganizationsAt, UsersAt, Table, Column, Stamps, Default, Unique, Type, Index,
           UserStatus, From, Until
  <2>2. \A e \in E0 : e[1] = "fk" => e[4][1] \in {"organizations", "users"}
    BY Targets
  <2>3. \A e \in AllTypes : e[1] # "fk"
    BY TypeObjects
  <2>4. \A e \in E0 : e[1] = "fk" => e[2] \in {"projects", "organization_members"}
    BY <2>1, <2>3, Sorted DEF AllTypes
  <2> QED
    BY <2>2, <2>4
<1>10. {} \subseteq E7 /\ E7 \ {} \subseteq AllTypes
  BY Sorted DEF AllTypes
<1> HIDE DEF E0
<1>11. Leads(db, E0, a[1], E1)
  BY <1>4, <1>5, <1>8, DropOne DEF E0
<1>12. Fits(a[1], E1)
  BY <1>11, Arrived
<1>13. /\ \A e \in E1 : e[1] = "fk" /\ e[2] # "projects" => e[4][1] # "projects"
       /\ \A e \in E4 : e[1] = "fk" /\ e[2] # "organization_members"
                       => e[4][1] # "organization_members"
       /\ \A e \in E5 : e[1] # "fk"
       /\ \A e \in E6 : e[1] # "fk"
  BY <1>9
<1> HIDE DEF E1
<1>14. Fits(a[2], E2)
  BY <1>4, <1>8, <1>12, <1>13, DropTheTable
<1> HIDE DEF E2
<1>15. Leads(a[2], E2, a[3], E3)
  BY <1>4, <1>5, <1>8, <1>14, DropOne
<1>16. Fits(a[3], E3)
  BY <1>15, Arrived
<1> HIDE DEF E3
<1>17. Leads(a[3], E3, a[4], E4)
  BY <1>4, <1>5, <1>8, <1>16, DropOne
<1>18. Fits(a[4], E4)
  BY <1>17, Arrived
<1> HIDE DEF E4
<1>19. Fits(a[5], E5)
  BY <1>4, <1>8, <1>13, <1>18, DropTheTable
<1> HIDE DEF E5
<1>20. Fits(a[6], E6)
  BY <1>4, <1>8, <1>13, <1>19, DropTheTable
<1> HIDE DEF E6
<1>21. Fits(a[7], E7)
  BY <1>4, <1>8, <1>13, <1>20, DropTheTable
<1> HIDE DEF E7
<1>22. Fits(a[7], SchemaAt(0))
  BY <1>10, <1>21, LeftBehind, Revision1
<1> QED
  BY <1>3, <1>22, Falling

\* Whatever the rows: the fourth statement names no constraint.
LEMMA Down15 ==
  ASSUME NEW db, Fits(db, SchemaAt(15))
  PROVE  Falls(db, 15)
<1> DEFINE ss == DbChanges.down
           none == <<"fk", "projects", "None", <<"None", "NO_ACTION">>>>
           i1 == Index("users", "id", "plain")
           i2 == Index("users", "email", "unique")
<1>1. /\ Len(ss) = 4
      /\ ss[1] = Drop({i1}) /\ ss[2] = Drop({i2}) /\ ss[3] = Create({EmailKey})
      /\ ss[4] = Drop({none})
  BY DEF DbChanges, EmailKey
<1>l. Len(ss) = 4 /\ Len(ss) \in Nat
  BY <1>1
<1>2. PICK a : Statementwise(a, db, ss) /\ Executed(db, ss) = a[Len(ss)]
  <2> HIDE DEF ss
  <2> QED
    BY <1>l, ExecutedSteps
<1>3. Executed(db, Revisions[15].down) = a[4]
  BY <1>l, <1>2, Chain
<1>4. /\ a[0] = db
      /\ a[1] = Execute(a[0], Drop({i1})) /\ a[2] = Execute(a[1], Drop({i2}))
      /\ a[3] = Execute(a[2], Create({EmailKey})) /\ a[4] = Execute(a[3], Drop({none}))
  <2> HIDE DEF ss, i1, i2, none
  <2> QED
    BY <1>1, <1>2 DEF Statementwise
<1> HIDE DEF ss
<1>5. IsDb(db)
  BY DEF Fits
<1>a. IsDb(a[1]) /\ a[1].schema \subseteq db.schema
  <2>1. IsDb(a[1]) /\ a[1].schema \subseteq db.schema \union Drop({i1}).make
    BY <1>4, <1>5, Grows
  <2> QED
    BY <2>1 DEF Drop
<1>b. IsDb(a[2]) /\ a[2].schema \subseteq a[1].schema
  <2>1. IsDb(a[2]) /\ a[2].schema \subseteq a[1].schema \union Drop({i2}).make
    BY <1>4, <1>a, Grows
  <2> QED
    BY <2>1 DEF Drop
<1>c. IsDb(a[3]) /\ a[3].schema \subseteq a[2].schema \union {EmailKey}
  <2>1. IsDb(a[3]) /\ a[3].schema \subseteq a[2].schema \union Create({EmailKey}).make
    BY <1>4, <1>b, Grows
  <2> QED
    BY <2>1 DEF Create
<1>6. none \notin db.schema /\ none # EmailKey
  <2>1. none[1] = "fk" /\ none[2] = "projects" /\ none \notin ProjectsAt(15)
    BY DEF ProjectsAt, Table, Column, Stamps, Default, Unique, Index, ForeignKey, From, Rule
  <2>2. EmailKey[1] = "unique"
    BY DEF EmailKey, Unique
  <2> HIDE DEF none
  <2>3. none \notin SchemaAt(15) /\ none \notin AllTypes
    BY <2>1, Sorted, TypeObjects DEF AllTypes
  <2> QED
    BY <2>1, <2>2, <2>3 DEF Fits
<1>7. IsDb(a[4]) /\ a[4].failed
  <2> HIDE DEF none
  <2>1. Drop({none}).drop = {none}
    BY DEF Drop
  <2>2. none \notin a[3].schema
    BY <1>6, <1>a, <1>b, <1>c
  <2> QED
    BY <1>4, <1>c, <2>1, <2>2, Grows
<1> QED
  BY <1>3, <1>7 DEF Falls, BlockedDown

LEMMA Down ==
  ASSUME NEW db, NEW r \in 1 .. 15, Fits(db, SchemaAt(r))
  PROVE  Falls(db, r)
<1>1. CASE r \in 1 .. 5
  BY <1>1, Down1, Down2, Down3, Down4, Down5
<1>2. CASE r \in 6 .. 10
  BY <1>2, Down6, Down7, Down8, Down9, Down10
<1>3. CASE r \in 11 .. 15
  BY <1>3, Down11, Down12, Down14, Down15
<1> QED
  BY <1>1, <1>2, <1>3

-----------------------------------------------------------------------------
(* Commands, over any distance.                                            *)

\* The statements of a revision can be counted.
Countable(ddl) ==
  Len(ddl.up) \in Nat /\ Len(ddl.down) \in Nat

LEMMA Runs ==
  ASSUME NEW r \in 1 .. 15
  PROVE  Countable(Revisions[r])
<1>1. Countable(AddTables)
  BY DEF Countable, AddTables
<1>2. Countable(AddSlug)
  BY DEF Countable, AddSlug
<1>3. Countable(AddAuditLogs)
  BY DEF Countable, AddAuditLogs
<1>4. Countable(OptionalActor)
  BY DEF Countable, OptionalActor
<1>5. Countable(DropAuditKeys)
  BY DEF Countable, DropAuditKeys
<1>6. Countable(OptionalResource)
  BY DEF Countable, OptionalResource
<1>7. Countable(AddJtiBlocklist)
  BY DEF Countable, AddJtiBlocklist
<1>8. Countable(AddProjectMembers)
  BY DEF Countable, AddProjectMembers
<1>9. Countable(AddVerified)
  BY DEF Countable, AddVerified
<1>10. Countable(SoftDelete)
  BY DEF Countable, SoftDelete
<1>11. Countable(OauthPlaceholder)
  BY DEF Countable, OauthPlaceholder
<1>12. Countable(AddAuthIdentities)
  BY DEF Countable, AddAuthIdentities
<1>13. Countable(UuidDefault)
  BY DEF Countable, UuidDefault
<1>14. Countable(DropPasswordHash)
  BY DEF Countable, DropPasswordHash
<1>15. Countable(DbChanges)
  BY DEF Countable, DbChanges
<1>16. CASE r \in 1 .. 5
  BY <1>1, <1>2, <1>3, <1>4, <1>5, <1>16, Chain
<1>17. CASE r \in 6 .. 10
  BY <1>6, <1>7, <1>8, <1>9, <1>10, <1>17, Chain
<1>18. CASE r \in 11 .. 15
  BY <1>11, <1>12, <1>13, <1>14, <1>15, <1>18, Chain
<1> QED
  BY <1>16, <1>17, <1>18

\* What stands in the way of a revision was there when the command began.
LEMMA BlockedFromTheStart ==
  ASSUME NEW from \in 0 .. 15, NEW db, Fits(db, SchemaAt(from)), NEW r \in from + 1 .. 15,
         NEW d, Leads(db, SchemaAt(from), d, SchemaAt(r - 1)), r = from + 1 => d = db
  PROVE  BlockedUp(d, r) <=> BlockedUp(db, r)
<1>1. CASE r = from + 1
  BY <1>1
<1>2. CASE r = 2 /\ from = 0
  <2>1. db.rows = {}
    BY <1>2, Revision1, NoTablesNoRows
  <2>2. d.rows = {}
    BY <2>1 DEF Leads
  <2> QED
    BY <1>2, <2>1, <2>2 DEF BlockedUp
<1>3. CASE r = 12
  <2>1. Provider \notin SchemaAt(11) /\ Provider \in AllTypes
    BY Revision12 DEF AllTypes
  <2>2. Leads(db, SchemaAt(from), d, SchemaAt(11))
    BY <1>3
  <2>3. Provider \in d.schema <=> Provider \in db.schema
    BY <2>1, <2>2 DEF Leads
  <2> QED
    BY <1>3, <2>3 DEF BlockedUp
<1>4. CASE r \notin {1, 2, 12}
  BY <1>4 DEF BlockedUp
<1> QED
  BY <1>1, <1>2, <1>3, <1>4

LEMMA Upgraded ==
  ASSUME NEW db, NEW from \in 0 .. 15, NEW to \in from .. 15, Fits(db, SchemaAt(from))
  PROVE  LET d == Migrated(db, from, to)
         IN  /\ IsDb(d)
             /\ d.failed <=> \E r \in from + 1 .. to : BlockedUp(db, r)
             /\ ~d.failed => Leads(db, SchemaAt(from), d, SchemaAt(to))
<1> DEFINE k == to - from
<1>1. Distance(from, to) = k /\ k \in Nat
  BY DEF Distance
<1>2. PICK after : Revisionwise(after, db, from, to) /\ Migrated(db, from, to) = after[k]
  BY <1>1, MigratedSteps
<1>3. /\ after[0] = db
      /\ \A n \in 1 .. k : after[n] = Executed(after[n - 1], Revisions[from + n].up)
  BY <1>1, <1>2 DEF Revisionwise, Crossing
<1> DEFINE P(n) ==
             /\ IsDb(after[n])
             /\ after[n].failed <=> \E r \in from + 1 .. from + n : BlockedUp(db, r)
             /\ ~after[n].failed => Leads(db, SchemaAt(from), after[n], SchemaAt(from + n))
           S == {n \in 0 .. k : P(n)}
<1>4. P(0)
  BY <1>3 DEF Fits, Leads
<1>5. ASSUME NEW n \in 1 .. k, P(n - 1)
      PROVE  P(n)
  <2> DEFINE r == from + n
             d == after[n - 1]
  <2>1. /\ r \in 1 .. 15 /\ r \in from + 1 .. 15 /\ from + (n - 1) = r - 1
        /\ after[n] = Executed(d, Revisions[r].up)
    BY <1>1, <1>3
  <2>2. /\ IsDb(d)
        /\ d.failed <=> \E q \in from + 1 .. r - 1 : BlockedUp(db, q)
        /\ ~d.failed => Leads(db, SchemaAt(from), d, SchemaAt(r - 1))
    BY <1>5, <2>1
  <2>3. (\E q \in from + 1 .. r : BlockedUp(db, q))
          <=> (\E q \in from + 1 .. r - 1 : BlockedUp(db, q)) \/ BlockedUp(db, r)
    <3>1. from + 1 .. r = (from + 1 .. r - 1) \union {r}
      BY <2>1
    <3> QED
      BY <3>1
  <2>4. CASE d.failed
    <3>1. IsDb(after[n]) /\ after[n].failed
      BY <2>1, <2>2, <2>4, Runs, FailureStaysOn DEF Countable
    <3> QED
      BY <2>2, <2>3, <2>4, <3>1
  <2>5. CASE ~d.failed
    <3>1. Leads(db, SchemaAt(from), d, SchemaAt(r - 1)) /\ (r = from + 1 => d = db)
      BY <1>3, <2>2, <2>5
    <3> HIDE DEF r, d
    <3>2. BlockedUp(d, r) <=> BlockedUp(db, r)
      BY <2>1, <3>1, BlockedFromTheStart
    <3>3. Fits(d, SchemaAt(r - 1))
      BY <3>1, Arrived
    <3>4. Rises(d, r)
      BY <2>1, <3>3, Up
    <3>5. IsDb(after[n]) /\ (after[n].failed <=> BlockedUp(db, r))
      BY <2>1, <3>2, <3>4 DEF Rises
    <3>6. ~after[n].failed => Leads(db, SchemaAt(from), after[n], SchemaAt(r))
      <4>1. ~after[n].failed => Leads(d, SchemaAt(r - 1), after[n], SchemaAt(r))
        BY <2>1, <3>4 DEF Rises
      <4> QED
        BY <3>1, <4>1, LeadsOn
    <3> QED
      BY <2>2, <2>3, <2>5, <3>5, <3>6 DEF r
  <2> QED
    BY <2>4, <2>5
<1> HIDE DEF P
<1>6. S = 0 .. k
  <2>1. 0 \in S /\ S \in SUBSET (0 .. k)
    BY <1>1, <1>4
  <2>2. \A n \in 1 .. k : n - 1 \in S => n \in S
    BY <1>5
  <2> HIDE DEF S, k
  <2> QED
    BY <1>1, <2>1, <2>2, UpTo
<1>7. P(k)
  BY <1>1, <1>6
<1>8. from + k = to
  OBVIOUS
<1> QED
  BY <1>2, <1>7, <1>8 DEF P

LEMMA Downgraded ==
  ASSUME NEW db, NEW from \in 0 .. 15, NEW to \in 0 .. from - 1, Fits(db, SchemaAt(from))
  PROVE  LET d == Migrated(db, from, to)
         IN  /\ IsDb(d)
             /\ d.failed <=> \E r \in to + 1 .. from : BlockedDown(db, r)
             /\ ~d.failed => Fits(d, SchemaAt(to))
<1> DEFINE k == from - to
<1>1. Distance(from, to) = k /\ k \in Nat
  BY DEF Distance
<1>2. PICK after : Revisionwise(after, db, from, to) /\ Migrated(db, from, to) = after[k]
  BY <1>1, MigratedSteps
<1>3. /\ after[0] = db
      /\ \A n \in 1 .. k : after[n] = Executed(after[n - 1], Revisions[from + 1 - n].down)
  BY <1>1, <1>2 DEF Revisionwise, Crossing
<1> DEFINE P(n) ==
             /\ IsDb(after[n])
             /\ after[n].failed <=> \E r \in from - n + 1 .. from : BlockedDown(db, r)
             /\ ~after[n].failed =>
                  /\ Fits(after[n], SchemaAt(from - n))
                  /\ from - n >= 3 => About(after[n], "audit_logs") = About(db, "audit_logs")
           S == {n \in 0 .. k : P(n)}
<1>4. P(0)
  BY <1>3 DEF Fits
<1>5. ASSUME NEW n \in 1 .. k, P(n - 1)
      PROVE  P(n)
  <2> DEFINE r == from + 1 - n
             d == after[n - 1]
  <2>1. /\ r \in 1 .. 15 /\ r <= from /\ from - (n - 1) = r /\ from - n = r - 1
        /\ after[n] = Executed(d, Revisions[r].down)
        /\ r = from => d = db
    BY <1>1, <1>3
  <2>2. /\ IsDb(d)
        /\ d.failed <=> \E q \in r + 1 .. from : BlockedDown(db, q)
        /\ ~d.failed => /\ Fits(d, SchemaAt(r))
                        /\ r >= 3 => About(d, "audit_logs") = About(db, "audit_logs")
    BY <1>5, <2>1
  <2>3. (\E q \in r .. from : BlockedDown(db, q))
          <=> (\E q \in r + 1 .. from : BlockedDown(db, q)) \/ BlockedDown(db, r)
    <3>1. r .. from = (r + 1 .. from) \union {r}
      BY <2>1
    <3> QED
      BY <3>1
  <2>4. CASE d.failed
    <3>1. IsDb(after[n]) /\ after[n].failed
      BY <2>1, <2>2, <2>4, Runs, FailureStaysOn DEF Countable
    <3>2. from - n + 1 = r
      OBVIOUS
    <3> QED
      BY <2>2, <2>3, <2>4, <3>1, <3>2
  <2>5. CASE ~d.failed
    <3>1. from - n + 1 = r
      OBVIOUS
    <3> HIDE DEF r, d
    <3>2. BlockedDown(d, r) <=> BlockedDown(db, r)
      <4>1. CASE r \in {4, 5, 6}
        <5>1. About(d, "audit_logs") = About(db, "audit_logs")
          BY <2>2, <2>5, <4>1
        <5>2. \A kind, c : <<kind, "audit_logs", c>> \in d.rows
                             <=> <<kind, "audit_logs", c>> \in db.rows
          BY <5>1, AboutFact
        <5> QED
          BY <4>1, <5>2 DEF BlockedDown
      <4>2. CASE r = 14
        <5>1. from # 15
          <6>1. BlockedDown(db, 15)
            BY DEF BlockedDown
          <6> QED
            BY <2>2, <2>5, <4>2, <6>1
        <5>2. r = from
          BY <2>1, <4>2, <5>1
        <5> QED
          BY <2>1, <5>2
      <4>3. CASE r \notin {4, 5, 6, 14}
        BY <4>3 DEF BlockedDown
      <4> QED
        BY <4>1, <4>2, <4>3
    <3>3. Falls(d, r)
      BY <2>1, <2>2, <2>5, Down
    <3>4. IsDb(after[n]) /\ (after[n].failed <=> BlockedDown(db, r))
      BY <2>1, <3>2, <3>3 DEF Falls
    <3>5. ~after[n].failed =>
            /\ Fits(after[n], SchemaAt(r - 1))
            /\ r >= 4 => About(after[n], "audit_logs") = About(d, "audit_logs")
      BY <2>1, <3>3 DEF Falls
    <3>6. from - n >= 3 => r >= 4
      BY <2>1
    <3> QED
      BY <2>1, <2>2, <2>3, <2>5, <3>1, <3>4, <3>5, <3>6
  <2> QED
    BY <2>4, <2>5
<1> HIDE DEF P
<1>6. S = 0 .. k
  <2>1. 0 \in S /\ S \in SUBSET (0 .. k)
    BY <1>1, <1>4
  <2>2. \A n \in 1 .. k : n - 1 \in S => n \in S
    BY <1>5
  <2> HIDE DEF S, k
  <2> QED
    BY <1>1, <2>1, <2>2, UpTo
<1>7. P(k)
  BY <1>1, <1>6
<1>8. from - k = to
  OBVIOUS
<1> QED
  BY <1>2, <1>7, <1>8 DEF P

-----------------------------------------------------------------------------
(* The head revision and the models.                                       *)

LEMMA FreshSchema ==
  ASSUME NEW r \in 0 .. 15
  PROVE  Fresh(r) = SchemaAt(r)
<1> DEFINE none == [schema |-> {}, rows |-> {}, failed |-> FALSE]
           d == Migrated(none, 0, r)
<1>1. Fits(none, SchemaAt(0))
  BY Revision1 DEF Fits, IsDb, WellFormed, Grounded
<1>2. \A q \in 1 .. r : ~BlockedUp(none, q)
  BY DEF BlockedUp
<1> HIDE DEF none
<1>3. /\ d.failed <=> \E q \in 0 + 1 .. r : BlockedUp(none, q)
      /\ ~d.failed => Leads(none, SchemaAt(0), d, SchemaAt(r))
  BY <1>1, Upgraded
<1>4. Leads(none, SchemaAt(0), d, SchemaAt(r))
  BY <1>2, <1>3
<1> HIDE DEF d
<1>5. d.schema \ SchemaAt(r) \subseteq none.schema /\ SchemaAt(r) \subseteq d.schema
  BY <1>4 DEF Leads, Fits
<1>6. d.schema = SchemaAt(r)
  BY <1>5 DEF none
<1> QED
  BY <1>6 DEF Fresh, d, none

LEMMA HeadModels ==
  /\ Models \ Unmigrated = SchemaAt(15)
  /\ AllTypes \subseteq SchemaAt(15)
<1> DEFINE default == Default("auth_identities", "id", "gen_random_uuid()")
<1>1. OrganizationModel = OrganizationsAt(15)
  BY DEF OrganizationModel, OrganizationsAt, From
<1>2. UsersModel = UsersAt(15)
  BY DEF UsersModel, UsersAt, From, Until
<1>3. OrganizationMemberModel = OrganizationMembersAt(15)
  BY DEF OrganizationMemberModel, OrganizationMembersAt, Rule
<1>4. ProjectModel = ProjectsAt(15)
  BY DEF ProjectModel, ProjectsAt, From, Rule
<1>5. ProjectMemberModel = ProjectMembersAt(15)
  BY DEF ProjectMemberModel, ProjectMembersAt, Rule
<1>6. AuditLogModel = AuditLogsAt(15)
  BY DEF AuditLogModel, AuditLogsAt, From, Until, Table, Column
<1>7. AuthIdentityModel = AuthIdentities \union {default}
  BY DEF AuthIdentityModel, AuthIdentities
<1>8. SchemaAt(15) = OrganizationModel \union UsersModel \union OrganizationMemberModel
                       \union ProjectModel \union ProjectMemberModel \union AuditLogModel
                       \union JtiBlocklistModel \union AuthIdentities
  BY <1>1, <1>2, <1>3, <1>4, <1>5, <1>6 DEF SchemaAt, From, JtiBlocklistModel
<1>9. default \notin SchemaAt(15)
  <2>1. default[1] = "default" /\ default[2] = "auth_identities"
    BY DEF Default
  <2>2. default \notin AuthIdentities
    BY DEF AuthIdentities, Table, Column, Stamps, Default, Unique, Type, ForeignKey, Provider
  <2>3. default \notin AllTypes
    BY <2>1, TypeObjects
  <2> HIDE DEF default
  <2> QED
    BY <2>1, <2>2, <2>3, Sorted DEF AllTypes
<1>10. Models \ Unmigrated = SchemaAt(15)
  <2> HIDE DEF default
  <2>1. Models = SchemaAt(15) \union {default}
    BY <1>7, <1>8 DEF Models
  <2>2. Unmigrated = {default}
    BY DEF Unmigrated, default
  <2> QED
    BY <1>9, <2>1, <2>2
<1>11. AllTypes \subseteq SchemaAt(15)
  <2>1. UserStatus \in UsersAt(15) /\ OrgRole \in OrganizationMembersAt(15)
          /\ Provider \in AuthIdentities
    BY DEF UsersAt, OrganizationMembersAt, AuthIdentities
  <2> QED
    BY <2>1 DEF AllTypes, SchemaAt, From
<1> QED
  BY <1>10, <1>11

-----------------------------------------------------------------------------
(* The database through commands and writes.                               *)

Database == [schema |-> schema, rows |-> rows, failed |-> FALSE]

\* The elements of the revision, each once, and types left behind; facts about
\* what exists, and no reference that dangles under a key.
SchemaInv ==
  /\ revision \in 0 .. 15
  /\ Fits(Database, SchemaAt(revision))

LEMMA Initially ==
  ASSUME Init
  PROVE  SchemaInv
  BY Revision1 DEF Init, SchemaInv, Database, Fits, IsDb, WellFormed, Grounded

\* What a command comes to.
LEMMA Outcomes ==
  ASSUME SchemaInv, NEW to \in 0 .. 15, to # revision
  PROVE  /\ IsDb(Outcome(to))
         /\ ~Outcome(to).failed => Fits(Outcome(to), SchemaAt(to))
         /\ to > revision =>
              (Outcome(to).failed <=> \E r \in revision + 1 .. to : BlockedUp(Database, r))
         /\ to < revision =>
              (Outcome(to).failed <=> \E r \in to + 1 .. revision : BlockedDown(Database, r))
<1>1. Outcome(to) = Migrated(Database, revision, to)
  BY DEF Outcome, Database
<1>2. revision \in 0 .. 15 /\ Fits(Database, SchemaAt(revision))
  BY DEF SchemaInv
<1>3. CASE to > revision
  <2>1. to \in revision .. 15
    BY <1>2, <1>3
  <2>2. /\ IsDb(Outcome(to))
        /\ Outcome(to).failed <=> \E r \in revision + 1 .. to : BlockedUp(Database, r)
        /\ ~Outcome(to).failed =>
             Leads(Database, SchemaAt(revision), Outcome(to), SchemaAt(to))
    BY <1>1, <1>2, <2>1, Upgraded
  <2> QED
    BY <1>2, <1>3, <2>2, Arrived
<1>4. CASE to < revision
  <2>1. to \in 0 .. revision - 1
    BY <1>2, <1>4
  <2>2. /\ IsDb(Outcome(to))
        /\ Outcome(to).failed <=> \E r \in to + 1 .. revision : BlockedDown(Database, r)
        /\ ~Outcome(to).failed => Fits(Outcome(to), SchemaAt(to))
    BY <1>1, <1>2, <2>1, Downgraded
  <2> QED
    BY <1>2, <1>4, <2>2
<1> QED
  BY <1>2, <1>3, <1>4

LEMMA RunKeeps ==
  ASSUME SchemaInv, NEW to \in 0 .. 15, to # revision, Run(to)
  PROVE  SchemaInv'
<1>1. CASE Outcome(to).failed
  <2>1. UNCHANGED vars
    BY <1>1 DEF Run
  <2> QED
    BY <2>1 DEF vars, SchemaInv, Database
<1>2. CASE ~Outcome(to).failed
  <2>1. revision' = to /\ schema' = Outcome(to).schema /\ rows' = Outcome(to).rows
    BY <1>2 DEF Run
  <2>2. IsDb(Outcome(to)) /\ Fits(Outcome(to), SchemaAt(to))
    BY <1>2, Outcomes
  <2>3. Database' = Outcome(to)
    BY <1>2, <2>1, <2>2 DEF Database, IsDb
  <2> QED
    BY <2>1, <2>2, <2>3 DEF SchemaInv
<1> QED
  BY <1>1, <1>2

LEMMA WriteKeeps ==
  ASSUME SchemaInv, Write
  PROVE  SchemaInv'
<1>1. PICK f \in Facts : /\ Allowed(f) /\ rows' = rows \union {f}
                         /\ UNCHANGED <<revision, schema>>
  BY DEF Write
<1>2. f = <<f[1], f[2], f[3]>> /\ f[1] \in {"row", "null", "dangling"}
  BY FactsAssumption
<1>3. /\ WellFormed(Database) /\ SchemaAt(revision) \subseteq schema
      /\ schema \ SchemaAt(revision) \subseteq AllTypes
  BY DEF SchemaInv, Fits, Database
<1>4. \E e \in schema : IF f[1] = "row" THEN Object(e) = <<"table", f[2], f[2]>>
                                         ELSE Object(e) = <<"column", f[2], f[3]>>
  <2>1. CASE f[1] = "row"
    <3>1. PICK e \in schema : e[1] = "table" /\ e[2] = f[2]
      BY <1>1, <2>1 DEF Allowed
    <3>2. e = TableOf(f[2])
      BY <1>3, <3>1 DEF WellFormed, Database
    <3>3. Object(e) = <<"table", f[2], f[2]>>
      BY <3>2 DEF Object, TableOf
    <3> QED
      BY <2>1, <3>3
  <2>2. CASE f[1] = "null"
    <3>1. Column(f[2], f[3], "null") \in schema
      BY <1>1, <2>2 DEF Allowed
    <3>2. Object(Column(f[2], f[3], "null")) = <<"column", f[2], f[3]>>
      BY DEF Object, Column
    <3> QED
      BY <2>2, <3>1, <3>2
  <2>3. CASE f[1] = "dangling"
    BY <1>1, <2>3 DEF Allowed
  <2> QED
    BY <1>2, <2>1, <2>2, <2>3
<1>5. \A e \in schema : f[1] = "dangling" => Object(e) # <<"fk", f[2], f[3]>>
  BY <1>1 DEF Allowed
<1>6. /\ Database'.schema = schema /\ Database'.rows = rows \union {f}
      /\ IsDb(Database') /\ ~Database'.failed
  BY <1>1 DEF Database, IsDb
<1>7. WellFormed(Database')
  <2>1. Database.schema = schema /\ Database.rows = rows
    BY DEF Database
  <2> QED
    BY <1>2, <1>3, <1>4, <1>5, <1>6, <2>1 DEF WellFormed, Grounded
<1>8. Fits(Database', SchemaAt(revision'))
  BY <1>1, <1>3, <1>6, <1>7 DEF Fits
<1> QED
  BY <1>1, <1>8 DEF SchemaInv

LEMMA SchemaInvariant == Spec => []SchemaInv
<1>1. Init => SchemaInv
  BY Initially
<1>2. SchemaInv /\ [Next]_vars => SchemaInv'
  <2> SUFFICES ASSUME SchemaInv, [Next]_vars PROVE SchemaInv'
    OBVIOUS
  <2>1. revision \in 0 .. 15
    BY DEF SchemaInv
  <2>2. CASE Upgrade
    <3>1. PICK to \in revision + 1 .. 15 : Run(to)
      BY <2>2, Chain DEF Upgrade
    <3>2. to \in 0 .. 15 /\ to # revision
      BY <2>1
    <3> QED
      BY <3>1, <3>2, RunKeeps
  <2>3. CASE Downgrade
    <3>1. PICK to \in 0 .. revision - 1 : Run(to)
      BY <2>3 DEF Downgrade
    <3>2. to \in 0 .. 15 /\ to # revision
      BY <2>1
    <3> QED
      BY <3>1, <3>2, RunKeeps
  <2>4. CASE Write
    BY <2>4, WriteKeeps
  <2>5. CASE UNCHANGED vars
    BY <2>5 DEF vars, SchemaInv, Database
  <2> QED
    BY <2>2, <2>3, <2>4, <2>5 DEF Next
<1> QED
  BY <1>1, <1>2, PTL DEF Spec

-----------------------------------------------------------------------------
(* Theorems.                                                               *)

\* Whatever commands are run and rows written, the database is at a revision of
\* the chain, and what is known about rows is about tables and columns that
\* exist.
THEOREM TypeCorrect == Spec => []TypeOK
<1>1. SchemaInv => TypeOK
  <2> SUFFICES ASSUME SchemaInv PROVE TypeOK
    OBVIOUS
  <2>1. revision \in 0 .. Newest
    BY Chain DEF SchemaInv
  <2>2. \A f \in rows :
          \E e \in schema : IF f[1] = "row" THEN Object(e) = <<"table", f[2], f[2]>>
                                             ELSE Object(e) = <<"column", f[2], f[3]>>
    BY DEF SchemaInv, Fits, WellFormed, Grounded, Database
  <2> QED
    BY <2>1, <2>2 DEF TypeOK
<1> QED
  BY <1>1, SchemaInvariant, PTL

\* The downgrades of versions/ undo the upgrades: whatever way up and down a
\* database came to its revision, and whatever rows it holds, it has the schema
\* of one upgraded there in one go; only enumeration types may be left behind.
THEOREM SchemaFollowsRevision == Spec => []SchemaIsThatOfRevision
<1>1. SchemaInv => SchemaIsThatOfRevision
  <2> SUFFICES ASSUME SchemaInv PROVE SchemaIsThatOfRevision
    OBVIOUS
  <2>1. Fresh(revision) = SchemaAt(revision)
    BY FreshSchema DEF SchemaInv
  <2>2. SchemaAt(revision) \subseteq schema /\ schema \ SchemaAt(revision) \subseteq AllTypes
    BY DEF SchemaInv, Fits, Database
  <2>3. \A e \in AllTypes : e[1] = "type"
    BY TypeObjects
  <2> QED
    BY <2>1, <2>2, <2>3 DEF SchemaIsThatOfRevision, Types
<1> QED
  BY <1>1, SchemaInvariant, PTL

\* At the head revision the database is the one database/models describe, but
\* for the one default no revision creates; nothing is left behind there,
\* however often the database went down and up.
THEOREM HeadIsModels == Spec => []HeadMatchesModels
<1>1. SchemaInv => HeadMatchesModels
  <2> SUFFICES ASSUME SchemaInv, revision = 15 PROVE schema = Models \ Unmigrated
    BY Chain DEF HeadMatchesModels
  <2>1. SchemaAt(15) \subseteq schema /\ schema \ SchemaAt(15) \subseteq AllTypes
    BY DEF SchemaInv, Fits, Database
  <2> QED
    BY <2>1, HeadModels
<1> QED
  BY <1>1, SchemaInvariant, PTL

\* A command, over any distance, fails exactly when it crosses one of the eight
\* obstacles: in every other case each statement finds what it drops or alters,
\* no name is taken, and the rows satisfy what is created.
THEOREM ExactlyTheObstacles == Spec => []FailsOnlyAtObstacles
<1>1. SchemaInv => FailsOnlyAtObstacles
  <2> SUFFICES ASSUME SchemaInv, NEW to \in 0 .. 15, to # revision
               PROVE  Outcome(to).failed <=> Obstacle(to)
    BY Chain DEF FailsOnlyAtObstacles
  <2>1. revision \in 0 .. 15
    BY DEF SchemaInv
  <2>2. Types(schema) \intersect {UserStatus, OrgRole} # {}
          <=> UserStatus \in schema \/ OrgRole \in schema
    BY TypeObjects DEF Types, AllTypes
  <2>3. Database.schema = schema /\ Database.rows = rows
    BY DEF Database
  <2>4. CASE to > revision
    <3>1. Outcome(to).failed <=> \E r \in revision + 1 .. to : BlockedUp(Database, r)
      BY <2>4, Outcomes
    <3>2. \A r \in Nat : r \in revision + 1 .. to <=> revision < r /\ r <= to
      BY <2>1
    <3>3. (\E r \in revision + 1 .. to : BlockedUp(Database, r)) <=>
            \/ /\ 1 \in revision + 1 .. to
               /\ UserStatus \in schema \/ OrgRole \in schema
            \/ 2 \in revision + 1 .. to /\ <<"row", "organizations", "-">> \in rows
            \/ 12 \in revision + 1 .. to /\ Provider \in schema
      BY <2>3 DEF BlockedUp
    <3>4. \A r \in Nat : ~(to < r /\ r <= revision)
      BY <2>1, <2>4
    <3> QED
      BY <2>2, <3>1, <3>2, <3>3, <3>4, Chain DEF Obstacle
  <2>5. CASE to < revision
    <3> DEFINE audit(kind, c) == <<kind, "audit_logs", c>> \in rows
    <3>1. Outcome(to).failed <=> \E r \in to + 1 .. revision : BlockedDown(Database, r)
      BY <2>5, Outcomes
    <3>2. \A r \in Nat : r \in to + 1 .. revision <=> to < r /\ r <= revision
      BY <2>1
    <3>3. (\E r \in to + 1 .. revision : BlockedDown(Database, r)) <=>
            \/ /\ 4 \in to + 1 .. revision
               /\ audit("null", "actor_user_id") \/ audit("null", "organization_id")
            \/ /\ 5 \in to + 1 .. revision
               /\ audit("dangling", "actor_user_id") \/ audit("dangling", "organization_id")
            \/ 6 \in to + 1 .. revision /\ audit("null", "resource_id")
            \/ 14 \in to + 1 .. revision /\ <<"row", "users", "-">> \in rows
            \/ 15 \in to + 1 .. revision
      BY <2>3 DEF BlockedDown
    <3>4. \A r \in Nat : ~(revision < r /\ r <= to)
      BY <2>1, <2>5
    <3> QED
      BY <3>1, <3>2, <3>3, <3>4, Chain DEF Obstacle
  <2> QED
    BY <2>1, <2>4, <2>5
<1> QED
  BY <1>1, SchemaInvariant, PTL
====
