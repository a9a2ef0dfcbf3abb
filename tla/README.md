# Verification of the multi-tenant SaaS backend

TLA+ models, TLC configurations and TLAPS proofs for the FastAPI backend in
`src/`: API v2 (`api/v2`), its shared code (`core`), its tables
(`database/models`) and their migrations (`database/alembic`). API v1 is not
imported by `main.py` and is dead code.

## 1. The system

One uvicorn worker runs every request as an asyncio coroutine. A coroutine can
be overtaken by any other at each `await`: a SELECT, a COMMIT, a Redis call, a
password hash in the thread pool. PostgreSQL runs at READ COMMITTED, sessions do
not flush by themselves (`database/db/session.py:23-30`), no handler locks a
row, and Redis shares no transaction with the database.

| Component | State it keeps | Operations | Correct when |
|---|---|---|---|
| Organizations API | `organizations`, `organization_members` | register, update, delete, add and remove member, select | only owners make owners; a deletion is complete and final; slugs are unique |
| Projects API | `projects`, `project_members` | create, rename, delete, add and remove member | names unique per organization; a tenant's rows change only by its own managers; project members are organization members |
| Membership authorization (`core/oauth2.py`) | cached membership entries, `org_id:{id}:version` | `get_membership` before every tenant request | no request is authorized by an outdated role once the change was invalidated |
| Cached list views (`list_users`, `list_orgs`, `list_projects`, `list_members`) | cached lists, version keys | read with fill; INCR after each COMMIT (`core/utils.py:115-141`) | a read after a reply reflects the write |
| Transactions of the two APIs | row locks of PostgreSQL | DELETE, UPDATE, INSERT, COMMIT, deadlock victims | others see a handler's writes at once or not at all; every transaction ends |
| Authentication | `users`, `auth_identities`, refresh tokens, `jti_blocklist`, the browser's cookie | Google callback, login, refresh, logout | one live token per session; logout ends the session; a browser is not stranded |
| Users | `users`, `auth_identities` | register, update password | one password per user, and the latest one; nobody without a way to sign in |
| Rate limiter | times of accepted calls per address | `__call__` on every auth route | no window with too many calls, no unjustified 429 |
| Audit log, Kafka | `audit_logs`, the topic | `audit_logs()` and the Kafka publication, in background tasks | what is recorded happened; what happened is recorded unless a failure took it |
| Sessions and pool | connections | `get_db`, the session of the audit task | no connection is lost; every request gets one or gives up |
| Migrations | the schema, `alembic_version` | upgrade and downgrade along 15 revisions, by hand (`README.md:216`) | the schema depends on the revision only; at the head it is that of the models |
| Application, health, logging, configuration | none of interest | wiring, formatting | not modelled |

How they interact: a tenant request passes `get_current_user` and
`get_membership` (which reads or fills the cache), then its handler's checks, one
SELECT each, then the writes and the COMMIT, then the INCRs that outdate cached
entries, then the reply. Account requests share the users and identities, the
blocklist, and the cookie the browser sends with the next request.

What is hard: every check is separated from its write by awaits (roles,
memberships, slugs, the blocklist); the cache is filled from a SELECT
that may be older than a COMMIT; the invalidation comes after the COMMIT and may
be lost; responses may be lost or overtake each other. `PROJECT.json` lists each
hazard at its line with the properties that cover it.

## 2. Modules

- `Tenancy`: the organization and project handlers and the membership cache.
  The tables are `organization`, `role`, `project` and `projectMembers`. Each
  request has a `pc`, the `call` it serves and the `actor` role it was
  authorized with. One action per SELECT (`...Lookup`, `...Project`, `...Name`,
  `...Already`), one for the statements up to the COMMIT
  (`...Write`), one for the invalidation (`Invalidate`, or `InvalidateFails`),
  and `RequestFails` for every error before the COMMIT. The two unique
  constraints that the handlers rely on at their INSERT are guards of the
  writes. The cache is abstract here: `cached` is the entry under the current
  version of the organization, and authorization is one step. That abstraction
  is what `VersionedCache` and its proofs justify.
- `TenantCalls`: the abstract specification of `Tenancy`. A call is one step that
  looks at the tables as they are, the role of its caller included, and has its
  whole effect or none; there are no tokens, no cache and no coroutines. `Tenancy`
  implements it (`CallsAreAtomic`) wherever no two requests are at work in one
  organization (`OrgsApart`) or claim one slug (`SlugsApart`), and Redis answers.
- `VersionedCache`: one cached read at the grain of single Redis calls: version
  GETs in order, the SET of a missing key, lookup, query, fill, TTL; writers
  commit, then INCR key by key, then reply. A crash anywhere is a coroutine
  that takes no further step.
- `CachePromise`: what such a read owes its clients, without any cache: it
  reflects every write acknowledged before it began and none that was not
  committed. `VersionedCache` implements it (property `Implements`).
- `CachedViews`: the five cached reads and nine invalidating handlers of the API
  as values of `ViewOrder` and `BumpOrder`, and which handler changes which view.
- `AtomicWrites`: what the transactions of the handlers owe one another. A
  transaction begins with the rows it finds, and its commit removes at once all
  of those that are still there, nothing outside its handler's scope, and adds
  its own row if that is not there.
- `RowLocks`: the same transactions as PostgreSQL runs them. `Plan` lists the
  statements of a handler with the rows each writes, in the order in which they
  reach the database: the sessions do not autoflush, so `existing_org.is_deleted
  = True` is written by the flush of the COMMIT, after the DELETEs that stand
  below it. `Execute` takes a statement's snapshot, `Lock` and `Wait` meet its
  rows one by one in any order, `Commit` lets waiting statements skip the rows it
  has deleted, `Refused` is the unique constraint, `Victim` the deadlock detector,
  `Abort` every other error. It implements `AtomicWrites` (`WritesAreAtomic`),
  which is why `Tenancy` may take a handler's writes as one step.
- `Accounts`: users, password and Google identities, refresh tokens, the
  blocklist, and cookies. `Deliver` and `LoseReply` are the two fates of a
  response. `latest`, `token`, `ended`, `missed` and `raced` are history. A
  session or user is in `raced` once two requests that spend its tokens, or set
  its password, were under way together; what the code guarantees without a lock
  is stated for those that are not.
- `AuditTrail`: a request from its first query to the end of its background task.
  `path` is its way through the handler; `CheckOut`, `Release` and `free` are the
  connection pool; `Raise` drops the task, as an exception handler's response
  has none; `AuditCheckOut`, `AuditInsert` and `Publish` are the task, each with
  its failure; `Crash` is the end of the worker.
- `Migrations`: the DDL of each revision as sets of elements that a statement
  drops and makes, and a run of Alembic from any revision to any other, revision by
  revision and statement by statement. `rows` keeps the facts about rows that a statement can
  trip over; `Write` is the application writing rows in between. The elements of
  `database/models` are `Models`.
- `RateLimiter`: the sliding-window log. `__call__` has no await and is one step.
  `now` is the wall clock that `time.time()` reads; `SetBack` and `SetForward` are
  its corrections, and `elapsed` the time that really passes.
- `MC*`: instances for TLC (symmetry sets, initial databases, sets of facts). A
  definition introduced as `Mutant` is a deliberately broken variant of the one
  after it, kept to show that the properties notice it. No specification uses it.
- `TenancyProofs`, `TenantCallsProofs`, `CacheProofs`, `RowLocksProofs`, `AccountsProofs`,
  `AuditTrailProofs`, `RateLimiterProofs`, `MigrationsProofs`: theorems.

## 3. Runs

Passing:

| Run | Question | Bounds |
|---|---|---|
| `tenancy_membership` | Do concurrent membership changes, cache fills and deletions ever leave an outdated role, revive a deleted organization, or give an owner to one that has lost its owners? | 3 users, 1 organization, 2 requests in flight. Two users act while a third is added or removed; a cached role needs one reader and one writer. |
| `tenancy_projects` | Do projects of two tenants stay apart, and names unique, with invalidations that may be lost? | 2 organizations (one slug, reused after a deletion or by the slug race), 2 projects, 2 names, 2 requests. One user managing both organizations is the worst case: it always has tokens for both. |
| `tenancy_serial` | Is every legal sequence of calls, one at a time, safe for project members, deletions and slugs? Is each call one atomic step, authorized by the role of that moment, and is a deleted organization refused? | all ten handlers, 2 users, 2 organizations, 1 project, 1 request. |
| `cache_members` | Does the cache with two version keys implement its promise? | `list_members`, 2 readers, 2 writers with three INCRs between them. |
| `cache_ttl` | Does an outdated entry go away although keys are missing and handlers may stop anywhere? | `list_users`, cold keys, 2 readers, 1 writer: one fills what the other outdated. |
| `rate_limiter` | Are windows bounded and rejections justified, up to what the clock was set? | 2 clients, 2 calls per 2 ticks, 3 ticks: two windows and the boundary between them; the clock one tick back and one forward. |
| `accounts` | Are sessions and passwords sound for whatever is not raced, with two requests at once, lost responses and failures? | 1 email, 2 passwords, 1 browser, 3 tokens (a session, its successor and one more), 2 identities (the race of two registrations needs both), 2 requests. |
| `row_locks` | Do interleaved, waiting, deadlocking and failing transactions still write atomically, and does each end? | 3 transactions (one more than a deadlock needs), 2 users, 1 project, any initial project memberships, 5 of the 6 handlers; `add_member` is proved about but left out for size. |
| `audit_trail` | Is every connection returned, is the trail true and complete, does every request end? | 3 requests on a pool of 2, so that all connections can be held by requests whose audit waits; one path for each combination of commit, second query and task. |
| `migrations` | Do all upgrades and downgrades fit together, and with the models? | all 15 revisions and every fact about rows that some statement looks at. |

Deadlock is checked in every run but `row_locks` and `audit_trail`, where each
request is used once and the system ends. The bounds on ids (`Orgs`,
`Projects`, `Tokens`, `Identities`) are bounds on what is ever created: when they
are used up the creating request can only fail. `MaxTime` bounds the time that
passes for the limiter, `MaxShift` how far its clock is set either way.

Violations, each a disagreement between the code and what it says of itself (see
`findings` in `PROJECT.json`):

- `tenancy_last_owner`: one removal leaves members without an owner, although the
  handler has a reply for it ("Cannot remove the last owner of the organization").
  `user_in_org.role` is a member of the `enum.Enum` `OrgRole`, and
  `remove_member.py:129` compares it with the string `"owner"`, which is false of
  every row; the count of owners behind it is dead code. The same comparison at :111
  lets an admin remove owners.
- `accounts_logout`: a refresh that overlaps a logout mints a token that outlives
  the session.

Further configurations are kept for exploration, not listed as runs. Those that
end in a counterexample explain why the passing runs claim no more than they do:

| Configuration | Property | What happens |
|---|---|---|
| `tenancy_update` | `UpdateChangesOwnOrg` | `PUT /organizations/update` inserts a new, memberless organization and leaves the caller's own unchanged (`update.py:84`). |
| `tenancy_orphan` | `ProjectMembersBelong` | A user is added to a project while being removed from the organization. |
| `tenancy_deleted_org` | `DeletedOrgIsRefused` | A member added by a request that was in flight during the deletion still passes `get_membership`. |
| `tenancy_slugs` | `SlugsUnique` | Two registrations check the slug before either commits. |
| `tenancy_tombstone` | `NameCheckIsComplete` | The name of a deleted project passes the handler's check and fails at the constraint. |
| `cache_register` | `Implements` | A registered organization is missing from the cached list of its owner (`register.py:107` invalidates nothing). |
| `cache_cold` | `Implements` | With missing version keys, the SET of 1 undoes an INCR. |
| `accounts_rotation` | `OneLiveToken` | Two exchanges of one token. |
| `accounts_register` | `OnePasswordIdentity` | Two registrations of one Google account. |
| `rate_limiter_clock` | `WindowBoundByAnyClock` | A clock set forward prunes calls that are younger than the time frame. |
| `row_locks_deadlock` | `NoDeadlock` | `remove_member` and `delete_project` lock memberships before what `delete_organization` locks first. |
| `audit_refused` | `RefusalsAreRecorded` | The `login.failed` record is a task of a response that the exception replaces (`login.py:50-66`). |
| `audit_kafka` | `EventsReachKafka` | Only `password.changed` is published. |
| `migrations_downgrade` | `DowngradeWorks` | The downgrade of the head revision fails. |
| `migrations_soft_delete` | `NothingDisappears` | Rows from before `af50e7ca8027` get `is_deleted` NULL, and every handler asks for FALSE. |
| `migrations_defaults` | `DefaultsMigrated` | The default of `auth_identities.id` is in the model and in no revision. |

Four more pass: `accounts_serial` (one request at a time, where `OneLiveToken` and
`LogoutEndsSession` hold without exception), `accounts_concurrent` (the bounds
on exchanges with 4 tokens), `tenancy_apart` (all that `tenancy_serial` checks, for
two requests at once under the constraint `Apart`: different organizations and
different slugs) and `cache_growing` (`Implements` with missing version keys, for
the behaviours in which no SET of a key takes an INCR back).

**Fairness.** `cache_ttl` assumes weak fairness of `Expire` for each label: Redis
expires what was SET with `ex=60 * 5`; nothing is assumed of clients or handlers,
which may stop at any step. `row_locks` and `audit_trail` assume one weak fairness
each, of some request taking its next step: the event loop and PostgreSQL do not
stop while one of the requests can go on. Timeouts of the pool and of the deadlock
detector count as steps, since both are configured; new requests, errors and
crashes do not. As each request takes finitely many steps no fairness between
them is needed.

## 4. Proofs

Every theorem is for all values of the constants.

- `TenancyProofs`. `Typing` is inductive by itself. `CacheCurrent`, `NamesUnique`
  and `Isolation` follow from `IInv`: a request past authorization holds a token
  for its organization and a role its handler permits (`Authorized`); an unused
  organization has no members, cache entries or requests (`UnusedIsEmpty`,
  without which creating a row could collide with a request at work); and a
  request past its project check addresses a project of its own organization,
  which stays true because no write moves a project (`ProjectsPlaced`). The
  `HandlerFrame` and `LookupReads` lemmas reduce the handler steps to those
  that write. `Finality` adds that a sealed organization offers no request a
  membership to be authorized with. `OnlyOwnersMakeOwners` likewise: where no row
  and no entry says "owner", nobody is authorized as one, and `add_member` by an
  admin adds none. It needs no condition on overlaps or on Redis.
- `TenantCallsProofs`. How far the rules that overlapping requests break do hold.
  `tenancy_orphan`, `tenancy_deleted_org` and `tenancy_slugs` break them with two requests in one organization or with one slug, so the
  hypothesis is that such two are never at work together: `Alone(o)` for one
  organization, `OrgsApart` for all, `SlugsApart` for slugs, `Apart` for both. Any
  number of requests may overlap in different organizations. Then what a handler
  has checked is still so when it writes: `KnowsIn` says it for the role it was
  authorized with (the cached one is current, as nobody else is between a COMMIT
  and its invalidation), the user and the project; `SlugsKnown`
  says it for the slug. `SoundIn` is what each call keeps: project members inside the
  organization, nothing alive below a deleted row. `ATenantOfItsOwn` proves it of a single organization, whatever happens in
  the others; `NobodyIsLeftBehind` and `DeletionIsComplete` follow for
  all of them, `DeletedMeansRefused` since a deletion leaves no role to be
  authorized with, and `SlugsStayUnique` for slugs. `CallsHappenAtOnce` is the
  refinement of `TenantCalls`: every write is one call of it, every other step
  changes no table. All but `SlugsStayUnique` assume that Redis does not fail
  (`~RedisMayFail`): a lost invalidation leaves a removed manager authorized.
- `CacheProofs`. `CacheInv` says that versions only grow and that what a reader or an
  entry carries is older than the stamp of any write its query did not see. The
  only step that breaks it is the SET of a missing version key over an INCR, which
  `cache_cold` shows. `VersionsGrow` says that this step does not occur; under it
  `UnreachableWhileGrowing` and `RefinementWhileGrowing` hold, missing keys included.
  If the keys are there from the start it holds by itself (`WarmKeysGrow`), hence
  `Unreachable` and `Refinement`. The refinement also needs that each write INCRs
  a key of the view (`Covered`); `cache_register` shows why. Without any condition,
  `OnlyCommittedIsShown`, and `StragglersRunOut`: after the last COMMIT only readers
  that queried before it bring outdated entries, each one at most. Last, each of the
  five views of `CachedViews` meets `Covered` for all writes that change it, except the
  two pairs in `Uninvalidated`; hence `ViewsWhileGrowing` and, with keys there from
  the start, `ViewsKeepThePromise`.
- `RateLimiterProofs`. What pruning leaves of the log lies between two windows of
  accepted calls, one shorter by what the clock was set forward and one longer by
  what it was set back (`RecentIsNearlyWindow`), because a logged time is wrong by
  no more than that; hence `WindowIsBounded` and `RejectionsAreJustified`. With a
  clock that is never set, both windows are the time frame.
- `AccountsProofs`. The invariant `Safe` has five layers, each proved with the help
  of those before it. `Types` says what a request knows in each phase. `Cookies`:
  a token is in one browser or on its way to one (`InOneJar`, `OnItsWay`), without
  which a spent token could turn up in a second browser; hence `NoDeadCookie`.
  `Sessions`: two requests about one session at once have raced (`Meetings`), so
  outside a race nobody blocks a token between its check and its exchange
  (`Checked`), and a token with a successor is blocked and has only that one
  (`Successors`); hence `OneTokenAtATime` and `LogoutIsFinal`. `Counted`: the
  successors of a token and the requests that have checked it and not yet
  exchanged it are together no more than the requests, as each exchange moves one
  from the second set to the first; hence `FewSuccessors`. `Credible` does for
  password identities what `Sessions` does for tokens; hence `LastPasswordWins`
  and `NobodyLockedOut`. A race concerns only whom it is about: a session or user
  that never has two requests about it at once (`OneAbout`) is never in `raced`,
  whatever the others do. Hence `ASessionOfItsOwn`, `AUserOfItsOwn`, and `LogoutEnds`,
  which is `LogoutEndsSession` and `OneLiveToken` without exception.
- `AuditTrailProofs`. `Pool` counts connections: those left, those of requests and
  those of audits are the pool, and only in certain phases does a request have one.
  `Story` follows each request: what it has committed, which task its response
  has, and what the trail must tell if no failure has hit it. Steps of other
  requests leave its story alone (`ApartKeepsStory`). From the two,
  `PoolBlockedBySignIns`: if all who hold a connection wait for another, they are
  as many sign-ins as the pool has connections. `NothingIsRepeated`: every step
  takes one from the at most nine that its request has `Left`, and gives none to
  another request.
- `RowLocksProofs`. For each row that a transaction found, has to remove and that
  is still there: the statement for it is yet to come (`Stage`), or still has to
  lock it, or it is locked (`Working`). So at the COMMIT all are locked, which is
  what `AtomicWrites` asks; the rows it locks are within its scope, and a row it
  inserts cannot have appeared since it locked it. Deadlock victims and errors map
  to `Abort`; every other step changes nothing `AtomicWrites` speaks of. That gives
  `Atomicity`, the refinement, for all handlers, `add_member` included.
  `DeadlocksAreFound`: transactions none of which can go on each wait for a row that
  another of them holds, and among finitely many such waits lead into a circle
  (`CycleAmongWaiting`), which has a victim. `NothingIsRepeated`: each step uses up
  the begin, a statement, a row, the start of a wait or the end of a transaction,
  and the others at most have rows skipped for them.

- `MigrationsProofs`. `SchemaAt(r)` writes down the schema of revision r, table by
  table. `Fits` says that a database has it and besides it only enumeration types
  left behind, that no name is taken twice, that the facts about rows are about what
  exists, and that no key has rows that dangle. There is one lemma for each kind
  of statement (`CreateTable`, `CreateOne`, `AlterOne`, `ReplaceKey`, `DropTheTable` and
  so on), saying when it is refused and what it makes of a database that fits; one
  for what each revision changes (`Revision1` to `Revision15`); and from those `Up` and
  `Down`: revision r leads from a database that fits `SchemaAt(r - 1)` to one that fits
  `SchemaAt(r)`, and back, or fails at its obstacle. For a command over any distance
  this is repeated by `UpTo` (a set of numbers with 0 and the successors of its
  members has all), and it must be shown that what stands in a later revision's way
  was there when the command began. `SchemaInv`, that the database fits its revision,
  is inductive under commands and writes: hence `SchemaFollowsRevision`,
  `ExactlyTheObstacles` and, as `SchemaAt(15)` is the models without the one default,
  `HeadIsModels`, for any set of facts about rows.

Assumptions are those named in the modules: `Nil` differs from all data, `Ops`
and `Paths` name handlers, `Start` is a set of databases, sequences of keys are
sequences of keys, facts about rows are of one of three kinds, limits and pool sizes are naturals, and the requests or
transactions that are counted are finitely many. Conditions on the behaviour
(`OrgsApart`, `SlugsApart`, `OneAbout`, `VersionsGrow`) and on Redis stand in the
theorems that need them, and a configuration shows what happens without each.

Only model-checked are the liveness properties (`StaleEntriesExpire`,
`EveryTransactionEnds`, `EveryRequestEnds`), which are outside what the prover handles.
The safety half of each is proved: nothing goes round in circles (`StragglersRunOut`
and `NothingIsRepeated`, twice), and no set of waiting transactions is left without a
step (`DeadlocksAreFound`). That some step is enabled and that fairness takes it is
left to TLC.

## 5. Abstractions

- Ids, names, slugs and passwords are model values. Hashing is the identity on
  equality (a hash matches its own password only); slugification is done before a
  request is modelled.
- Roles are strings in the models. In the code the caller's `membership.role` is one
  (`OrganizationMemberSchema` makes it one, from the row or from the cache), and so is
  the `role` of a request; the role of a row that a handler has loaded is a member of
  `OrgRole`, which equals no string. Only `remove_member` compares such a role, and
  `RemoveMemberLookup` and `RemoveMember` have the outcome: its two rules about
  owners never apply.
- In `Tenancy`, the statements between a handler's last check and its COMMIT are
  one step: other transactions see nothing earlier, and a row inserted behind the
  snapshot of a DELETE is a row inserted just after it. `RowLocks` has them one
  by one.
- In `RowLocks`, a handler's SELECTs see one snapshot (`Passes`); that they are
  taken one after the other is in `Tenancy`. `create_project` and `update_project`
  write one row each and are left out, and so are locks that conflict with none
  of the statements (KEY SHARE on the parents of an inserted row).
- In `AuditTrail`, the content of a record is the request it is of, and
  `pool_recycle` and pre-ping, which replace a connection, change no count.
- In `Migrations`, a run is one action: `env.py` runs a command in one transaction,
  and rows written while it waits might as well have been written before it. Column
  types other than enumerations are left out. Offline mode only prints SQL.
- Access and refresh tokens do not expire in the models. A client that stops using a
  token is already a behaviour.
- `users.is_deleted` is never set by any handler, and users never change, so
  `users` rows and their cache (`user_id:{id}`) are constants of `Tenancy`.

## 6. Not modelled

- API v1: not imported by `main.py`.
- The wiring of the application, `GET /health`, logging, configuration, the HTML of
  the Google callback: formatting and I/O without state. `GET /health/db` is a request
  of `AuditTrail` that only reads.
- JWT encoding and expiry, password hashing, the OAuth exchange with Google, and
  the cache of user rows: inputs or constants of the models, see above.
- Load tests and the test suite: clients of the API, read for what they expect.

## 7. Plan

Done: all modules and proofs above. Still worth proving: that the `cached` entry of
`Tenancy` is what `VersionedCache` promises of `get_membership`, as a refinement
instead of an argument in prose. What else remains is listed under "Not modelled",
with the reasons.
