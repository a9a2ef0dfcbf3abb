----------------------------- MODULE AuditTrail -----------------------------
(***************************************************************************)
(* What a request leaves behind: the life of a request from its first      *)
(* query to the end of its background task, the database connections it    *)
(* takes from the pool, and the audit record of what it did.               *)
(*                                                                         *)
(* The session of a request (get_db) takes a connection from the pool of   *)
(* database/db/session.py at its first query and gives it back at COMMIT,  *)
(* at ROLLBACK, or when the dependency is closed: after the response and   *)
(* its background tasks.  The audit task (audit_logs in core/utils.py)     *)
(* opens a session, and so takes a connection, of its own.  A task is      *)
(* added to the response the handler returns; the response made for an     *)
(* exception has none.                                                     *)
(*                                                                         *)
(* The content of a request is abstracted to its path through the handler. *)
(***************************************************************************)
EXTENDS Naturals, FiniteSets

CONSTANTS
  Requests,  \* requests: each one is handled once
  Paths,     \* the paths through handlers that this instance takes
  PoolSize,  \* pool_size + max_overflow
  Nil

ASSUME PoolAssumption == PoolSize \in Nat \ {0}
ASSUME RequestsAssumption == IsFiniteSet(Requests)

\* The handlers by what they do.  A path through auth_google: the account is
\* known, it is linked to a known user, or a user is created; the handler then
\* queries the identity it has committed, in a new transaction.
ReadingPaths == {"me", "select_organization", "list_users", "list_orgs",
                 "list_projects", "list_members", "health_db"}
CachedPaths == {"me", "list_users", "list_orgs", "list_projects",
                "list_members"}
SignInPaths  == {"login", "auth_google_known", "auth_google_linked",
                 "auth_google_new"}
SessionPaths == {"refresh_token", "logout", "update_password"}
QuietPaths   == {"register_user", "register_organization",
                 "update_organization"}
LoudPaths    == {"add_member", "remove_member", "delete_organization",
                 "create_project", "update_project", "delete_project",
                 "add_project_member", "remove_project_member"}
AllPaths == UNION {ReadingPaths, SignInPaths, SessionPaths, QuietPaths,
                   LoudPaths}

ASSUME PathsAssumption == Paths \subseteq AllPaths
ASSUME NilAssumption == Nil \notin AllPaths

Commits(p) ==
  p \in UNION {SessionPaths, QuietPaths, LoudPaths,
               {"auth_google_linked", "auth_google_new"}}

\* The background task of the response, if the handler gets that far.
Task(p) ==
  CASE p = "update_password" -> "publish"
    [] p \in UNION {QuietPaths, LoudPaths, {"login", "auth_google_linked",
                    "auth_google_new"}} -> "audit"
    [] OTHER -> "none"

Phases == {"idle", "connect", "run", "invalidate", "reply", "task", "insert",
           "close", "done"}

VARIABLES
  phase,      \* per request: where it stands
  path,       \* per request: its path through the handler
  task,       \* per request: the background task of its response
  outcome,    \* per request: "none", "ok", or "error" for a 4xx or 5xx reply
  holds,      \* the requests whose session has a connection
  auditing,   \* the requests whose audit session has a connection
  free,       \* the connections left in the pool
  committed,  \* the requests whose change is in the database
  table,      \* audit_logs: the requests it has a row of
  topic,      \* Kafka: the requests it has an event of
  faulted     \* history: the requests some failure has hit

pool    == <<holds, auditing, free>>
stores  == <<committed, table, topic>>
request == <<phase, path, task, outcome>>
vars    == <<request, pool, stores, faulted>>

Init ==
  /\ phase = [r \in Requests |-> "idle"]
  /\ path = [r \in Requests |-> Nil]
  /\ task = [r \in Requests |-> "none"]
  /\ outcome = [r \in Requests |-> "none"]
  /\ holds = {}
  /\ auditing = {}
  /\ free = PoolSize
  /\ committed = {}
  /\ table = {}
  /\ topic = {}
  /\ faulted = {}

Goto(r, p) == phase' = [phase EXCEPT ![r] = p]

\* The session gives its connection back, if it has one.
Release(r) ==
  /\ holds' = holds \ {r}
  /\ free' = IF r \in holds THEN free + 1 ELSE free
  /\ UNCHANGED auditing

\* Mutant: the tasks added before an exception run with the error response.
RaiseKeepingTasks(r) ==
  /\ Goto(r, "reply")
  /\ outcome' = [outcome EXCEPT ![r] = "error"]
  /\ task' = [task EXCEPT ![r] = Task(path[r])]
  /\ UNCHANGED path

\* An exception: the reply is an error, and it has no background tasks.
Raise(r) ==
  /\ Goto(r, "reply")
  /\ outcome' = [outcome EXCEPT ![r] = "error"]
  /\ task' = [task EXCEPT ![r] = "none"]
  /\ UNCHANGED path

Fault(r) == faulted' = faulted \cup {r}

-----------------------------------------------------------------------------
(* The handler.                                                            *)

Begin(r, p) ==
  /\ phase[r] = "idle"
  /\ Goto(r, "connect")
  /\ path' = [path EXCEPT ![r] = p]
  /\ UNCHANGED <<task, outcome, pool, stores, faulted>>

\* The first query of a transaction.  A second transaction only reads.
CheckOut(r) ==
  /\ phase[r] = "connect"
  /\ free > 0
  /\ free' = free - 1
  /\ holds' = holds \cup {r}
  /\ IF r \in committed
       THEN /\ Goto(r, "reply")
            /\ outcome' = [outcome EXCEPT ![r] = "ok"]
       ELSE Goto(r, "run") /\ UNCHANGED outcome
  /\ UNCHANGED <<path, task, auditing, stores, faulted>>

\* pool_timeout: no connection came back in time.
CheckOutTimeout(r) ==
  /\ phase[r] = "connect"
  /\ free = 0
  /\ Raise(r)
  /\ Fault(r)
  /\ UNCHANGED <<pool, stores>>

\* A check of the handler fails: HTTPException, before or after the task that
\* records the refusal has been added.
Refuse(r) ==
  /\ \/ phase[r] = "run"
     \/ phase[r] = "connect" /\ r \notin committed
  /\ Raise(r)
  /\ UNCHANGED <<pool, stores, faulted>>

\* A handler that changes nothing returns, with its transaction still open.
Answer(r) ==
  /\ \/ phase[r] = "run"
     \/ phase[r] = "connect" /\ path[r] \in CachedPaths
  /\ ~Commits(path[r])
  /\ Goto(r, "reply")
  /\ outcome' = [outcome EXCEPT ![r] = "ok"]
  /\ task' = [task EXCEPT ![r] = Task(path[r])]
  /\ UNCHANGED <<path, pool, stores, faulted>>

\* Where a handler goes on after its commit.
AfterCommit(r) ==
  CASE path[r] = "auth_google_new" -> "connect"
    [] path[r] \in LoudPaths       -> "invalidate"
    [] OTHER                       -> "reply"

\* Mutant: no task is added.
CommitUnrecorded(r) ==
  /\ phase[r] = "run"
  /\ Commits(path[r])
  /\ committed' = committed \cup {r}
  /\ Release(r)
  /\ Goto(r, AfterCommit(r))
  /\ outcome' = [outcome EXCEPT ![r] = IF AfterCommit(r) = "reply" THEN "ok" ELSE @]
  /\ UNCHANGED <<path, task, table, topic, faulted>>

\* db.commit(), and then background_tasks.add_task.
Commit(r) ==
  /\ phase[r] = "run"
  /\ Commits(path[r])
  /\ committed' = committed \cup {r}
  /\ Release(r)
  /\ Goto(r, AfterCommit(r))
  /\ outcome' = [outcome EXCEPT ![r] = IF AfterCommit(r) = "reply" THEN "ok" ELSE @]
  /\ task' = [task EXCEPT ![r] = Task(path[r])]
  /\ UNCHANGED <<path, table, topic, faulted>>

\* Mutant: the handler goes on after the rollback.
CommitFailsUnnoticed(r) ==
  /\ phase[r] = "run"
  /\ Commits(path[r])
  /\ Release(r)
  /\ Goto(r, AfterCommit(r))
  /\ task' = [task EXCEPT ![r] = Task(path[r])]
  /\ Fault(r)
  /\ UNCHANGED <<path, outcome, stores>>

\* except SQLAlchemyError: rollback, 500.  If the connection broke during the
\* COMMIT, the change may be there.
CommitFails(r) ==
  /\ phase[r] = "run"
  /\ Commits(path[r])
  /\ committed' \in {committed, committed \cup {r}}
  /\ Release(r)
  /\ Raise(r)
  /\ Fault(r)
  /\ UNCHANGED <<table, topic>>

\* The INCRs of invalidate_redis_keys_*.
Invalidate(r) ==
  /\ phase[r] = "invalidate"
  /\ Goto(r, "reply")
  /\ outcome' = [outcome EXCEPT ![r] = "ok"]
  /\ UNCHANGED <<path, task, pool, stores, faulted>>

\* A Redis error after the commit: 500, and the task is gone.
InvalidateFails(r) ==
  /\ phase[r] = "invalidate"
  /\ Raise(r)
  /\ Fault(r)
  /\ UNCHANGED <<pool, stores>>

\* Any other error, of Redis or of a query.
HandlerFails(r) ==
  /\ phase[r] \in {"connect", "run"}
  /\ Raise(r)
  /\ Fault(r)
  /\ UNCHANGED <<pool, stores>>

-----------------------------------------------------------------------------
(* After the handler.                                                      *)

\* The response is sent, whether or not the client is still there.
Respond(r) ==
  /\ phase[r] = "reply"
  /\ Goto(r, IF task[r] = "none" THEN "close" ELSE "task")
  /\ UNCHANGED <<path, task, outcome, pool, stores, faulted>>

AuditCheckOut(r) ==
  /\ phase[r] = "task"
  /\ task[r] = "audit"
  /\ free > 0
  /\ free' = free - 1
  /\ auditing' = auditing \cup {r}
  /\ Goto(r, "insert")
  /\ UNCHANGED <<path, task, outcome, holds, stores, faulted>>

\* Mutant: the pool has no timeout.
AuditWaitsForEver(r) == FALSE /\ UNCHANGED vars

\* pool_timeout: the exception ends the task.
AuditTimeout(r) ==
  /\ phase[r] = "task"
  /\ task[r] = "audit"
  /\ free = 0
  /\ Goto(r, "close")
  /\ Fault(r)
  /\ UNCHANGED <<path, task, outcome, pool, stores>>

ReleaseAudit(r) ==
  /\ auditing' = auditing \ {r}
  /\ free' = free + 1
  /\ UNCHANGED holds

AuditInsert(r) ==
  /\ phase[r] = "insert"
  /\ table' = table \cup {r}
  /\ ReleaseAudit(r)
  /\ Goto(r, "close")
  /\ UNCHANGED <<path, task, outcome, committed, topic, faulted>>

\* Mutant: the audit session is not closed when its commit fails.
AuditFailsOpen(r) ==
  /\ phase[r] = "insert"
  /\ auditing' = auditing \ {r}
  /\ Goto(r, "close")
  /\ Fault(r)
  /\ UNCHANGED <<path, task, outcome, holds, free, stores>>

\* rollback, log and raise; the session is closed on the way.
AuditFails(r) ==
  /\ phase[r] = "insert"
  /\ table' \in {table, table \cup {r}}
  /\ ReleaseAudit(r)
  /\ Goto(r, "close")
  /\ Fault(r)
  /\ UNCHANGED <<path, task, outcome, committed, topic>>

\* kafka_producer.publish: acknowledged by all replicas.
Publish(r) ==
  /\ phase[r] = "task"
  /\ task[r] = "publish"
  /\ topic' = topic \cup {r}
  /\ Goto(r, "close")
  /\ UNCHANGED <<path, task, outcome, pool, committed, table, faulted>>

\* KafkaError: logged and raised.  The broker may have the event all the same.
PublishFails(r) ==
  /\ phase[r] = "task"
  /\ task[r] = "publish"
  /\ topic' \in {topic, topic \cup {r}}
  /\ Goto(r, "close")
  /\ Fault(r)
  /\ UNCHANGED <<path, task, outcome, pool, committed, table>>

\* Mutant: get_db yields a session and does not close it.
CloseKeepingConnection(r) ==
  /\ phase[r] = "close"
  /\ Goto(r, "done")
  /\ UNCHANGED <<path, task, outcome, pool, stores, faulted>>

\* The session of get_db is closed.
Close(r) ==
  /\ phase[r] = "close"
  /\ Release(r)
  /\ Goto(r, "done")
  /\ UNCHANGED <<path, task, outcome, stores, faulted>>

InFlight == {r \in Requests : phase[r] \notin {"idle", "done"}}

\* The worker is killed and started again: requests, tasks and pool are gone,
\* PostgreSQL drops the connections.
Crash ==
  /\ InFlight # {}
  /\ phase' = [r \in Requests |-> IF r \in InFlight THEN "done" ELSE phase[r]]
  /\ faulted' = faulted \cup InFlight
  /\ holds' = {}
  /\ auditing' = {}
  /\ free' = PoolSize
  /\ UNCHANGED <<path, task, outcome, stores>>

-----------------------------------------------------------------------------
\* How a request goes on: its coroutine is scheduled, its calls are answered,
\* and the pool gives it a connection or, after the timeout, an error.
Advance(r) ==
  \/ CheckOut(r) \/ CheckOutTimeout(r) \/ Answer(r) \/ Commit(r)
  \/ Invalidate(r) \/ Respond(r) \/ AuditCheckOut(r) \/ AuditTimeout(r)
  \/ AuditInsert(r) \/ Publish(r) \/ Close(r)

Next ==
  \/ \E r \in Requests : \E p \in Paths : Begin(r, p)
  \/ \E r \in Requests :
       \/ Advance(r) \/ Refuse(r) \/ HandlerFails(r) \/ CommitFails(r)
       \/ InvalidateFails(r) \/ AuditFails(r) \/ PublishFails(r)
  \/ Crash

Spec == Init /\ [][Next]_vars

\* The event loop does not stop while some request can go on.
FairSpec == Spec /\ WF_vars(\E r \in Requests : Advance(r))
-----------------------------------------------------------------------------
(* Properties.                                                             *)

TypeOK ==
  /\ phase \in [Requests -> Phases]
  /\ path \in [Requests -> Paths \cup {Nil}]
  /\ task \in [Requests -> {"none", "audit", "publish"}]
  /\ outcome \in [Requests -> {"none", "ok", "error"}]
  /\ holds \subseteq InFlight
  /\ auditing \subseteq InFlight
  /\ free \in 0..PoolSize
  /\ committed \subseteq Requests
  /\ table \subseteq Requests
  /\ topic \subseteq Requests
  /\ faulted \subseteq Requests
  /\ \A r \in Requests : path[r] = Nil <=> phase[r] = "idle"

\* No path through a request - reply, refusal, timeout, failed audit, crash -
\* loses a connection of the pool or gives one back twice.
ConnectionsReturned ==
  free + Cardinality(holds) + Cardinality(auditing) = PoolSize

\* "Event records" (README on audit_logs): what the trail says of a change is
\* true.  A record is of a request that was answered with success, and the
\* change it tells of is in the database.
TrailIsTrue ==
  \A r \in table \cup topic :
    outcome[r] = "ok" /\ (Commits(path[r]) => r \in committed)

\* A change or a login is missing from the trail only if some failure hit its
\* request: an error of Redis, Kafka or the database, a crash, or the pool.
TrailIsComplete ==
  \A r \in Requests \ faulted :
    phase[r] = "done" /\ (r \in committed \/ outcome[r] = "ok")
      => CASE Task(path[r]) = "audit"   -> r \in table
           [] Task(path[r]) = "publish" -> r \in topic
           [] OTHER                     -> TRUE

\* A request that waits for a second connection while it has one can block
\* the pool on requests like itself until the timeout.  Those that have
\* committed do not, unless they have queried again since.
CommittedWaitWithoutHolding ==
  \A r \in Requests :
    phase[r] = "task" /\ r \in holds => path[r] \in {"login", "auth_google_new"}

\* Even with every connection held by requests whose audit waits for another
\* one, every request ends: the timeout of the pool lets go of them.
EveryRequestEnds == <>[](InFlight = {})

\* The refusals that handlers mean to record ("login.failed" in
\* database/models/audit_log.py) are recorded.  They are not.
RefusalsAreRecorded ==
  \A r \in Requests \ faulted :
    phase[r] = "done" /\ outcome[r] = "error" /\ Task(path[r]) = "audit"
      => r \in table

\* "Audit events published to Kafka" (README).  One of them is.
EventsReachKafka ==
  \A r \in Requests \ faulted :
    phase[r] = "done" /\ outcome[r] = "ok" /\ Task(path[r]) # "none"
      => r \in topic
=============================================================================
