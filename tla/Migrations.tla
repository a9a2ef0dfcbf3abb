---- MODULE Migrations ----
(***************************************************************************)
(* The Alembic revisions of database/alembic/versions and what happens to  *)
(* a database that is upgraded and downgraded along them while it holds    *)
(* rows.  A revision is two sequences of DDL statements.  env.py runs all  *)
(* revisions of one command in one transaction (no transaction_per_        *)
(* migration), and DDL is transactional in PostgreSQL: a run changes the   *)
(* database entirely or not at all.                                        *)
(*                                                                         *)
(* A schema is a set of elements <<kind, table, name, detail>>, "-" where  *)
(* there is nothing to say.  Column types are left out, except the         *)
(* enumerations, which are objects of their own in PostgreSQL.  Of the     *)
(* rows only what a statement can trip over is kept: that a table has any  *)
(* (<<"row", t, "-">>), that a column has NULLs (<<"null", t, c>>) and     *)
(* that it names rows that are not there (<<"dangling", t, c>>).           *)
(***************************************************************************)
EXTENDS Naturals, Sequences

CONSTANTS
  Facts        \* What the rows of the instance may come to be like.

ASSUME FactsAssumption ==
  Facts \subseteq {"row", "null", "dangling"} \X STRING \X STRING

VARIABLES
  revision,    \* How many revisions of the chain the database is at.
  schema,      \* The elements that exist.
  rows         \* The facts about the rows.

vars == <<revision, schema, rows>>

(***************************************************************************)
(* The vocabulary of a revision.                                           *)
(***************************************************************************)
Column(t, c, null) == <<"column", t, c, null>>
Default(t, c, value) == <<"default", t, c, value>>
ForeignKey(t, c, target, rule) == <<"fk", t, c, <<target, rule>>>>
Unique(t, name, columns) == <<"unique", t, name, columns>>
Index(t, c, unique) == <<"index", t, c, unique>>
Type(name, values) == <<"type", "-", name, values>>

Object(e) == <<e[1], e[2], e[3]>>
Objects(elements) == {Object(e) : e \in elements}

\* A table with the columns that are NOT NULL and those that are not.
Table(t, required, optional) ==
  {<<"table", t, t, "-">>} \union {Column(t, c, "not_null") : c \in required}
                          \union {Column(t, c, "null") : c \in optional}

\* The two timestamps nearly every table has.
Stamps(t, updated) ==
  {Column(t, c, "not_null") : c \in {"created_at", updated}}
    \union {Default(t, c, "now()") : c \in {"created_at", updated}}

Create(elements) == [drop |-> {}, make |-> elements]
Drop(elements) == [drop |-> elements, make |-> {}]
DropTable(t) == Drop({<<"table", t, t, "-">>})
Alter(t, c, from, to) ==
  [drop |-> {Column(t, c, from)}, make |-> {Column(t, c, to)}]

UserStatus == Type("user_status", <<"active", "inactive">>)
OrgRole == Type("org_role", <<"owner", "admin", "member">>)
Provider == Type("provider", <<"password", "google">>)

(***************************************************************************)
(* The revisions.  drop_table drops no type: the Table it is given has no  *)
(* columns.  create_table creates the types of its columns and fails when  *)
(* they exist.                                                             *)
(***************************************************************************)

\* 837af02fa771, "add tables".
AddTables ==
  [up |->
    << Create(Table("organizations", {"id", "name"}, {})
                \union Stamps("organizations", "updated_at")),
       Create(Table("users", {"id", "name", "email", "password_hash", "status"}, {})
                \union Stamps("users", "updated_at_time")
                \union {UserStatus, Default("users", "status", "active"),
                        Unique("users", "users_email_key", <<"email">>)}),
       Create(Table("organization_members",
                    {"id", "user_id", "organization_id", "role"}, {})
                \union Stamps("organization_members", "updated_at")
                \union {OrgRole, Default("organization_members", "role", "member"),
                        ForeignKey("organization_members", "organization_id",
                                   "organizations", "CASCADE"),
                        ForeignKey("organization_members", "user_id", "users", "CASCADE"),
                        Unique("organization_members", "uq_user_org",
                               <<"user_id", "organization_id">>)}),
       Create({Index("organization_members", "organization_id", "plain")}),
       Create({Index("organization_members", "user_id", "plain")}),
       Create(Table("projects", {"id", "name", "organization_id", "created_by"}, {})
                \union Stamps("projects", "updated_at")
                \union {ForeignKey("projects", "created_by", "users", "RESTRICT"),
                        ForeignKey("projects", "organization_id", "organizations", "CASCADE"),
                        Unique("projects", "uq_org_project_name",
                               <<"organization_id", "name">>)}),
       Create({Index("projects", "organization_id", "plain")}) >>,
   down |->
    << Drop({Index("projects", "organization_id", "plain")}),
       DropTable("projects"),
       Drop({Index("organization_members", "user_id", "plain")}),
       Drop({Index("organization_members", "organization_id", "plain")}),
       DropTable("organization_members"),
       DropTable("users"),
       DropTable("organizations") >>]

\* b5c5cf72e793: a NOT NULL column without a default.
AddSlug ==
  [up |-> << Create({Column("organizations", "slug", "not_null")}) >>,
   down |-> << Drop({Column("organizations", "slug", "not_null")}) >>]

\* 37ce5bcc402c.
AddAuditLogs ==
  [up |->
    << Create(Table("audit_logs",
                    {"id", "timestamp", "actor_user_id", "organization_id", "action",
                     "resource_type", "resource_id"},
                    {"status", "meta_data", "ip_address", "user_agent", "endpoint"})
                \union {Default("audit_logs", "timestamp", "now()"),
                        ForeignKey("audit_logs", "actor_user_id", "users", "NO_ACTION"),
                        ForeignKey("audit_logs", "organization_id",
                                   "organizations", "NO_ACTION")}) >>,
   down |-> << DropTable("audit_logs") >>]

\* Mutant: the downgrade restores one of the two columns.
OptionalActorHalfUndone ==
  [up |-> << Alter("audit_logs", "actor_user_id", "not_null", "null"),
             Alter("audit_logs", "organization_id", "not_null", "null") >>,
   down |-> << Alter("audit_logs", "organization_id", "null", "not_null") >>]

\* 5f3c0b005ccc.
OptionalActor ==
  [up |-> << Alter("audit_logs", "actor_user_id", "not_null", "null"),
             Alter("audit_logs", "organization_id", "not_null", "null") >>,
   down |-> << Alter("audit_logs", "organization_id", "null", "not_null"),
               Alter("audit_logs", "actor_user_id", "null", "not_null") >>]

\* Mutant: one of the two keys is forgotten.
DropAuditKeysHalf ==
  LET Actor == ForeignKey("audit_logs", "actor_user_id", "users", "NO_ACTION")
      Org == ForeignKey("audit_logs", "organization_id", "organizations", "NO_ACTION")
  IN  [up |-> << Drop({Actor}) >>, down |-> << Create({Org}), Create({Actor}) >>]

\* 4ab173f88517.
DropAuditKeys ==
  LET Actor == ForeignKey("audit_logs", "actor_user_id", "users", "NO_ACTION")
      Org == ForeignKey("audit_logs", "organization_id", "organizations", "NO_ACTION")
  IN  [up |-> << Drop({Actor}), Drop({Org}) >>,
       down |-> << Create({Org}), Create({Actor}) >>]

\* aebf426c90d4.
OptionalResource ==
  [up |-> << Alter("audit_logs", "resource_id", "not_null", "null") >>,
   down |-> << Alter("audit_logs", "resource_id", "null", "not_null") >>]

\* 629b7cac1920, "added jti blocklist table".
AddJtiBlocklist ==
  [up |-> << Create(Table("jti_blocklist", {"id", "jti"}, {})) >>,
   down |-> << DropTable("jti_blocklist") >>]

\* c61a89663551, "added project_members table".
AddProjectMembers ==
  [up |->
    << Create(Table("project_members", {"id", "user_id", "project_id"}, {})
                \union Stamps("project_members", "updated_at")
                \union {ForeignKey("project_members", "project_id", "projects", "CASCADE"),
                        ForeignKey("project_members", "user_id", "users", "CASCADE"),
                        Unique("project_members", "uq_user_project",
                               <<"user_id", "project_id">>)}),
       Create({Index("project_members", "project_id", "plain")}),
       Create({Index("project_members", "user_id", "plain")}) >>,
   down |->
    << Drop({Index("project_members", "user_id", "plain")}),
       Drop({Index("project_members", "project_id", "plain")}),
       DropTable("project_members") >>]

\* b4bfea01adfb, "added verified status column to users".
AddVerified ==
  [up |-> << Create({Column("users", "is_verified", "null")}) >>,
   down |-> << Drop({Column("users", "is_verified", "null")}) >>]

\* Mutant: projects are forgotten.
SoftDeleteButProjects ==
  LET Flag(t) == Column(t, "is_deleted", "null")
  IN  [up |-> << Create({Flag("organizations")}), Create({Flag("users")}) >>,
       down |-> << Drop({Flag("users")}), Drop({Flag("organizations")}) >>]

\* af50e7ca8027, "soft delete": the rows that exist get NULL, not FALSE.
SoftDelete ==
  LET Flag(t) == Column(t, "is_deleted", "null")
  IN  [up |-> << Create({Flag("organizations")}), Create({Flag("projects")}),
                 Create({Flag("users")}) >>,
       down |-> << Drop({Flag("users")}), Drop({Flag("projects")}),
                   Drop({Flag("organizations")}) >>]

\* ba475f162065, "added auth_identities table for oauth".
OauthPlaceholder == [up |-> <<>>, down |-> <<>>]

\* 0adfe0ba480b, "added auth_identities table for oauth".
AddAuthIdentities ==
  [up |->
    << Create(Table("auth_identities", {"id", "provider"},
                    {"user_id", "provider_user_id", "password_hash"})
                \union Stamps("auth_identities", "updated_at_time")
                \union {Provider,
                        ForeignKey("auth_identities", "user_id", "users", "NO_ACTION"),
                        Unique("auth_identities", "uq_provider_providerid",
                               <<"provider", "provider_user_id">>)}) >>,
   down |-> << DropTable("auth_identities") >>]

\* acc5f9c0f8d2, "added server default for uuid".
UuidDefault == [up |-> <<>>, down |-> <<>>]

\* bd634bb7bee1, "removed password_hash from users".
DropPasswordHash ==
  [up |-> << Drop({Column("users", "password_hash", "not_null")}) >>,
   down |-> << Create({Column("users", "password_hash", "not_null")}) >>]

\* 098e90f0e870, "db changes": keys without a deletion rule.  Its downgrade
\* drops constraints whose name is None, which cannot be compiled: no statement
\* after the first of them is reached.
DbChanges ==
  LET Loosen(t, c, target, from) ==
        [drop |-> {ForeignKey(t, c, target, from)},
         make |-> {ForeignKey(t, c, target, "NO_ACTION")}]
      NamedNone(t) == Drop({<<"fk", t, "None", <<"None", "NO_ACTION">>>>})
      EmailKey == Unique("users", "users_email_key", <<"email">>)
  IN  [up |->
        << Loosen("organization_members", "user_id", "users", "CASCADE"),
           Loosen("organization_members", "organization_id", "organizations", "CASCADE"),
           Loosen("project_members", "user_id", "users", "CASCADE"),
           Loosen("project_members", "project_id", "projects", "CASCADE"),
           Create({Index("projects", "id", "plain")}),
           Loosen("projects", "organization_id", "organizations", "CASCADE"),
           Loosen("projects", "created_by", "users", "RESTRICT"),
           Drop({EmailKey}),
           Create({Index("users", "email", "unique")}),
           Create({Index("users", "id", "plain")}) >>,
       down |->
        << Drop({Index("users", "id", "plain")}),
           Drop({Index("users", "email", "unique")}),
           Create({EmailKey}),
           NamedNone("projects") >>]

\* The chain of down_revision links.
Revisions ==
  << AddTables, AddSlug, AddAuditLogs, OptionalActor, DropAuditKeys, OptionalResource,
     AddJtiBlocklist, AddProjectMembers, AddVerified, SoftDelete, OauthPlaceholder,
     AddAuthIdentities, UuidDefault, DropPasswordHash, DbChanges >>

Newest == Len(Revisions)

(***************************************************************************)
(* What PostgreSQL makes of a statement.                                   *)
(***************************************************************************)

\* A table takes its columns, keys and indexes with it.  Types stay.
DropsTable(s, t) == <<"table", t, t, "-">> \in s.drop

Kept(db, s) == {e \in db.schema \ s.drop : ~ DropsTable(s, e[2])}

\* Mutant: a dropped column leaves its facts behind.
ForgottenTables(db, s) == {f \in db.rows : DropsTable(s, f[2])}

\* The facts that end with what they are about.
Forgotten(db, s) ==
  {f \in db.rows : DropsTable(s, f[2])
                \/ <<"column", f[2], f[3]>> \in Objects(s.drop) \ Objects(s.make)}

\* A nullable column that is new to a table with rows is NULL in all of them.
Unfilled(db, s) ==
  {<<"null", e[2], e[3]>> : e \in {e \in s.make :
     /\ e[1] = "column" /\ e[4] = "null"
     /\ <<"row", e[2], "-">> \in db.rows
     /\ Object(e) \notin Objects(s.drop)}}

\* A NOT NULL column needs a value in every row, a key a row to refer to.
Unsatisfied(db, s, e) ==
  \/ /\ e[1] = "column" /\ e[4] = "not_null"
     /\ IF Object(e) \in Objects(s.drop)
          THEN <<"null", e[2], e[3]>> \in db.rows
          ELSE <<"row", e[2], "-">> \in db.rows
  \/ e[1] = "fk" /\ <<"dangling", e[2], e[3]>> \in db.rows

Refused(db, s) ==
  \/ ~ (s.drop \subseteq db.schema)
  \/ Objects(s.make) \intersect Objects(Kept(db, s)) # {}
  \/ \E e \in Kept(db, s) : e[1] = "fk" /\ DropsTable(s, e[4][1])
  \/ \E e \in s.make : Unsatisfied(db, s, e)

Execute(db, s) ==
  IF db.failed \/ Refused(db, s)
    THEN [db EXCEPT !.failed = TRUE]
    ELSE [db EXCEPT !.schema = Kept(db, s) \union s.make,
                    !.rows = (@ \ Forgotten(db, s)) \union Unfilled(db, s)]

\* Statement by statement.
Executed(db, statements) ==
  LET after[n \in 0 .. Len(statements)] ==
        IF n = 0 THEN db ELSE Execute(after[n - 1], statements[n])
  IN  after[Len(statements)]

Distance(from, to) == IF from <= to THEN to - from ELSE from - to

\* What a command runs of the n-th revision it crosses.
Crossing(from, to, n) ==
  IF from <= to THEN Revisions[from + n].up ELSE Revisions[from + 1 - n].down

\* Revision by revision.
Migrated(db, from, to) ==
  LET after[n \in 0 .. Distance(from, to)] ==
        IF n = 0 THEN db ELSE Executed(after[n - 1], Crossing(from, to, n))
  IN  after[Distance(from, to)]

(***************************************************************************)
(* Commands and the rows that the program writes between them.             *)
(***************************************************************************)
Init ==
  /\ revision = 0
  /\ schema = {}
  /\ rows = {}

Outcome(to) == Migrated([schema |-> schema, rows |-> rows, failed |-> FALSE], revision, to)

\* A failed command is rolled back.
Run(to) ==
  LET db == Outcome(to)
  IN  IF db.failed
        THEN UNCHANGED vars
        ELSE /\ revision' = to
             /\ schema' = db.schema
             /\ rows' = db.rows

\* alembic upgrade +n, or head.
Upgrade == \E to \in revision + 1 .. Newest : Run(to)

\* alembic downgrade -n, or base.
Downgrade == \E to \in 0 .. revision - 1 : Run(to)

\* The program of that day writes to a table of that day.
Allowed(f) ==
  CASE f[1] = "row" -> \E e \in schema : e[1] = "table" /\ e[2] = f[2]
    [] f[1] = "null" -> /\ Column(f[2], f[3], "null") \in schema
                        /\ <<"row", f[2], "-">> \in rows
    [] f[1] = "dangling" -> /\ \E e \in schema : Object(e) = <<"column", f[2], f[3]>>
                            /\ \A e \in schema : Object(e) # <<"fk", f[2], f[3]>>
                            /\ <<"row", f[2], "-">> \in rows

\* A row needs the rows its NOT NULL keys refer to.
Referred(f) ==
  f[1] = "row" =>
    \A e \in schema : /\ e[1] = "fk" /\ e[2] = f[2]
                      /\ Column(e[2], e[3], "not_null") \in schema
                      => <<"row", e[4][1], "-">> \in rows

Write ==
  \E f \in Facts \ rows :
    /\ Allowed(f) /\ Referred(f)
    /\ rows' = rows \union {f}
    /\ UNCHANGED <<revision, schema>>

Next == Upgrade \/ Downgrade \/ Write

Spec == Init /\ [][Next]_vars

(***************************************************************************)
(* The schema the program expects: database/models.                        *)
(***************************************************************************)
OrganizationModel ==
  Table("organizations", {"id", "name", "slug"}, {"is_deleted"})
    \union Stamps("organizations", "updated_at")

UsersModel ==
  Table("users", {"id", "name", "email", "status"}, {"is_verified", "is_deleted"})
    \union Stamps("users", "updated_at_time")
    \union {UserStatus, Default("users", "status", "active"),
            Index("users", "id", "plain"), Index("users", "email", "unique")}

OrganizationMemberModel ==
  LET t == "organization_members"
  IN  Table(t, {"id", "user_id", "organization_id", "role"}, {})
        \union Stamps(t, "updated_at")
        \union {ForeignKey(t, "user_id", "users", "NO_ACTION"),
                ForeignKey(t, "organization_id", "organizations", "NO_ACTION"),
                Index(t, "user_id", "plain"), Index(t, "organization_id", "plain"),
                OrgRole, Default(t, "role", "member"),
                Unique(t, "uq_user_org", <<"user_id", "organization_id">>)}

ProjectModel ==
  LET t == "projects"
  IN  Table(t, {"id", "name", "organization_id", "created_by"}, {"is_deleted"})
        \union Stamps(t, "updated_at")
        \union {ForeignKey(t, "organization_id", "organizations", "NO_ACTION"),
                ForeignKey(t, "created_by", "users", "NO_ACTION"),
                Index(t, "id", "plain"), Index(t, "organization_id", "plain"),
                Unique(t, "uq_org_project_name", <<"organization_id", "name">>)}

ProjectMemberModel ==
  LET t == "project_members"
  IN  Table(t, {"id", "user_id", "project_id"}, {})
        \union Stamps(t, "updated_at")
        \union {ForeignKey(t, "user_id", "users", "NO_ACTION"),
                ForeignKey(t, "project_id", "projects", "NO_ACTION"),
                Index(t, "user_id", "plain"), Index(t, "project_id", "plain"),
                Unique(t, "uq_user_project", <<"user_id", "project_id">>)}

AuditLogModel ==
  Table("audit_logs", {"id", "timestamp", "action", "resource_type"},
        {"actor_user_id", "organization_id", "resource_id", "status", "meta_data",
         "ip_address", "user_agent", "endpoint"})
    \union {Default("audit_logs", "timestamp", "now()")}

JtiBlocklistModel == Table("jti_blocklist", {"id", "jti"}, {})

AuthIdentityModel ==
  LET t == "auth_identities"
  IN  Table(t, {"id", "provider"}, {"user_id", "provider_user_id", "password_hash"})
        \union Stamps(t, "updated_at_time")
        \union {Provider, Default(t, "id", "gen_random_uuid()"),
                ForeignKey(t, "user_id", "users", "NO_ACTION"),
                Unique(t, "uq_provider_providerid", <<"provider", "provider_user_id">>)}

Models ==
  OrganizationModel \union UsersModel \union OrganizationMemberModel
    \union ProjectModel \union ProjectMemberModel \union AuditLogModel
    \union JtiBlocklistModel \union AuthIdentityModel

(***************************************************************************)
(* Properties.                                                             *)
(***************************************************************************)

\* Rows, NULLs and references are those of tables and columns that exist.
TypeOK ==
  /\ revision \in 0 .. Newest
  /\ \A f \in rows :
       \E e \in schema : IF f[1] = "row" THEN Object(e) = <<"table", f[2], f[2]>>
                                         ELSE Object(e) = <<"column", f[2], f[3]>>

\* Types outlive the tables they were created for.
Types(db) == {e \in db : e[1] = "type"}

Fresh(r) == Migrated([schema |-> {}, rows |-> {}, failed |-> FALSE], 0, r).schema

\* Downgrades undo upgrades (the pairs of upgrade and downgrade in versions/):
\* whatever way a database came to its revision, up and down, it has the schema
\* of one that was upgraded there in one go, but for types left behind.
SchemaIsThatOfRevision ==
  LET fresh == Fresh(revision)
  IN  /\ fresh \subseteq schema
      /\ schema \ fresh \subseteq Types(schema)

\* The one thing the models declare and no revision creates: acc5f9c0f8d2 is
\* called "added server default for uuid" and is empty.
Unmigrated == {Default("auth_identities", "id", "gen_random_uuid()")}

\* At the head revision the database is the one database/models describe.
HeadMatchesModels == revision = Newest => schema = Models \ Unmigrated

\* What stands in the way of a command: a type that a downgrade left; rows
\* without a slug; NULLs or references that a constraint to be restored does
\* not allow; rows without a password hash; and the downgrade of the head.
Obstacle(to) ==
  LET crosses(r) == revision < r /\ r <= to
      undoes(r) == to < r /\ r <= revision
      audit(kind, c) == <<kind, "audit_logs", c>> \in rows
  IN  \/ crosses(1) /\ Types(schema) \intersect {UserStatus, OrgRole} # {}
      \/ crosses(2) /\ <<"row", "organizations", "-">> \in rows
      \/ crosses(12) /\ Provider \in schema
      \/ undoes(4) /\ (audit("null", "actor_user_id") \/ audit("null", "organization_id"))
      \/ undoes(5) /\ (audit("dangling", "actor_user_id") \/ audit("dangling", "organization_id"))
      \/ undoes(6) /\ audit("null", "resource_id")
      \/ undoes(14) /\ <<"row", "users", "-">> \in rows
      \/ undoes(Newest)

\* A command fails exactly when one of those obstacles is there, so a command
\* that meets none reaches its revision (the statements' order and names fit).
FailsOnlyAtObstacles ==
  \A to \in (0 .. Newest) \ {revision} : Outcome(to).failed <=> Obstacle(to)

(***************************************************************************)
(* What does not hold; see the README.                                     *)
(***************************************************************************)

\* "Downgrade schema." (the docstring of every downgrade): a downgrade works.
DowngradeWorks == \A to \in 0 .. Newest : to < revision => ~ Outcome(to).failed

\* A row that was visible stays visible: the handlers ask for is_deleted = FALSE.
NothingDisappears ==
  \A t \in {"organizations", "projects", "users"} : <<"null", t, "is_deleted">> \notin rows

\* The models' defaults exist in the migrated database.
DefaultsMigrated == revision = Newest => Models \subseteq schema
====
