-------------------------- MODULE AuditTrailProofs --------------------------
(***************************************************************************)
(* AuditTrail for any number of requests, any pool and any set of paths.   *)
(***************************************************************************)
EXTENDS AuditTrail, FiniteSetTheorems, TLAPS

Ending == {"reply", "task", "insert", "close"}

Types ==
  /\ phase \in [Requests -> Phases]
  /\ path \in [Requests -> Paths \cup {Nil}]
  /\ task \in [Requests -> {"none", "audit", "publish"}]
  /\ outcome \in [Requests -> {"none", "ok", "error"}]
  /\ free \in Nat
  /\ holds \in SUBSET Requests
  /\ auditing \in SUBSET Requests
  /\ committed \in SUBSET Requests
  /\ table \in SUBSET Requests
  /\ topic \in SUBSET Requests
  /\ faulted \in SUBSET Requests

\* When a request can have a connection: of its session, of its audit.
Connected ==
  \A r \in Requests :
    /\ path[r] = Nil <=> phase[r] = "idle"
    /\ r \in holds => phase[r] \in {"run"} \cup Ending
    /\ r \in auditing <=> phase[r] = "insert"

Pool == Types /\ Connected /\ ConnectionsReturned

\* What a handler does is settled by its path.
LEMMA PathFacts ==
  ASSUME NEW p \in Paths
  PROVE  /\ Task(p) \in {"none", "audit", "publish"}
         /\ p # Nil
         /\ ~Commits(p) /\ Task(p) # "none" => p = "login"
BY PathsAssumption, NilAssumption
   DEF Task, Commits, AllPaths, ReadingPaths, SignInPaths, SessionPaths, QuietPaths, LoudPaths

LEMMA NextPhase ==
  ASSUME NEW r \in Requests
  PROVE  /\ AfterCommit(r) \in {"connect", "invalidate", "reply"}
         /\ AfterCommit(r) = "connect" <=> path[r] = "auth_google_new"
BY DEF AfterCommit, LoudPaths

\* A request that takes or gives back a connection.
LEMMA Counting ==
  ASSUME NEW S \in SUBSET Requests, NEW r \in Requests
  PROVE  /\ Cardinality(S) \in Nat
         /\ r \notin S => Cardinality(S \cup {r}) = Cardinality(S) + 1
         /\ r \in S => Cardinality(S \ {r}) = Cardinality(S) - 1
         /\ r \notin S => S \ {r} = S
<1>1. IsFiniteSet(S)
  BY RequestsAssumption, FS_Subset
<1> QED
  BY <1>1, FS_CardinalityType, FS_AddElement, FS_RemoveElement

LEMMA PoolInit == Init => Pool
<1> SUFFICES ASSUME Init PROVE Pool
  OBVIOUS
<1>1. Types /\ Connected
  BY PoolAssumption DEF Init, Types, Connected, Phases, Ending
<1>2. ConnectionsReturned
  BY FS_EmptySet, PoolAssumption DEF Init, ConnectionsReturned
<1> QED
  BY <1>1, <1>2 DEF Pool

\* The session gives its connection back: the count stays.
LEMMA ReleaseKeepsCount ==
  ASSUME Pool, NEW r \in Requests, Release(r)
  PROVE  /\ free' \in Nat /\ holds' \in SUBSET Requests
         /\ r \notin holds' /\ holds' \subseteq holds /\ auditing' = auditing
         /\ ConnectionsReturned'
<1>1. holds \in SUBSET Requests /\ free \in Nat /\ auditing \in SUBSET Requests
  BY DEF Pool, Types
<1>2. Cardinality(auditing) \in Nat /\ Cardinality(holds) \in Nat
  BY <1>1, Counting
<1>3. Cardinality(holds') = IF r \in holds THEN Cardinality(holds) - 1 ELSE Cardinality(holds)
  BY <1>1, Counting DEF Release
<1> QED
  BY <1>1, <1>2, <1>3 DEF Pool, Release, ConnectionsReturned

LEMMA PoolStep == Pool /\ [Next]_vars => Pool'
<1> SUFFICES ASSUME Pool, [Next]_vars PROVE Pool'
  OBVIOUS
<1> USE DEF Pool, Types, Phases
<1>1. ASSUME UNCHANGED vars PROVE Pool'
  BY <1>1 DEF vars, pool, stores, request, Connected, ConnectionsReturned, Ending
\* Steps that move no connection.
<1>2. ASSUME NEW r \in Requests, UNCHANGED pool, Types', Connected' PROVE Pool'
  BY <1>2 DEF pool, ConnectionsReturned
<1>3. ASSUME NEW r \in Requests, NEW p \in Paths, Begin(r, p) PROVE Pool'
  <2>1. Types'
    BY <1>3 DEF Begin, Goto, pool, stores
  <2>2. Connected'
    BY <1>3, PathFacts DEF Begin, Goto, pool, Connected, Ending
  <2> QED
    BY <1>3, <2>1, <2>2, <1>2 DEF Begin
<1>4. ASSUME NEW r \in Requests, CheckOut(r) PROVE Pool'
  <2>1. r \notin holds
    BY <1>4 DEF CheckOut, Connected, Ending
  <2>2. Types'
    BY <1>4 DEF CheckOut, Goto, stores
  <2>3. Connected'
    BY <1>4 DEF CheckOut, Goto, stores, Connected, Ending
  <2>4. ConnectionsReturned'
    BY <1>4, <2>1, Counting DEF CheckOut, ConnectionsReturned
  <2> QED
    BY <2>2, <2>3, <2>4
<1>5. ASSUME NEW r \in Requests,
             CheckOutTimeout(r) \/ Refuse(r) \/ InvalidateFails(r) \/ HandlerFails(r)
      PROVE  Pool'
  <2>1. /\ Raise(r) /\ UNCHANGED pool /\ UNCHANGED stores
        /\ faulted' \in SUBSET Requests
        /\ phase[r] \in {"connect", "run", "invalidate"}
    BY <1>5 DEF CheckOutTimeout, Refuse, InvalidateFails, HandlerFails, Fault
  <2>2. Types'
    BY <2>1 DEF Raise, Goto, pool, stores
  <2>3. Connected'
    BY <2>1 DEF Raise, Goto, pool, Connected, Ending
  <2> QED
    BY <2>1, <2>2, <2>3, <1>2
<1>6. ASSUME NEW r \in Requests, Answer(r) \/ Invalidate(r) \/ Respond(r) PROVE Pool'
  <2>1. Types'
    <3>1. path[r] \in Paths
      BY <1>6 DEF Answer, Invalidate, Respond, Connected
    <3> QED
      BY <1>6, <3>1, PathFacts DEF Answer, Invalidate, Respond, Goto, pool, stores
  <2>2. Connected'
    BY <1>6 DEF Answer, Invalidate, Respond, Goto, pool, Connected, Ending
  <2> QED
    BY <1>6, <2>1, <2>2, <1>2 DEF Answer, Invalidate, Respond
<1>7. ASSUME NEW r \in Requests, Commit(r) PROVE Pool'
  <2>1. /\ free' \in Nat /\ holds' \in SUBSET Requests
        /\ r \notin holds' /\ holds' \subseteq holds /\ auditing' = auditing
        /\ ConnectionsReturned'
    BY <1>7, ReleaseKeepsCount DEF Commit
  <2>2. path[r] \in Paths
    BY <1>7 DEF Commit, Connected
  <2>3. Types'
    BY <1>7, <2>1, <2>2, PathFacts, NextPhase DEF Commit, Goto
  <2>4. Connected'
    BY <1>7, <2>1, NextPhase DEF Commit, Goto, Connected, Ending
  <2> QED
    BY <2>1, <2>3, <2>4
<1>8. ASSUME NEW r \in Requests, CommitFails(r) PROVE Pool'
  <2>1. /\ free' \in Nat /\ holds' \in SUBSET Requests
        /\ r \notin holds' /\ holds' \subseteq holds /\ auditing' = auditing
        /\ ConnectionsReturned'
    BY <1>8, ReleaseKeepsCount DEF CommitFails
  <2>2. Types'
    BY <1>8, <2>1 DEF CommitFails, Raise, Goto, Fault
  <2>3. Connected'
    BY <1>8, <2>1 DEF CommitFails, Raise, Goto, Connected, Ending
  <2> QED
    BY <2>1, <2>2, <2>3
<1>9. ASSUME NEW r \in Requests, AuditCheckOut(r) PROVE Pool'
  <2>1. r \notin auditing
    BY <1>9 DEF AuditCheckOut, Connected
  <2>2. Types'
    BY <1>9 DEF AuditCheckOut, Goto, stores
  <2>3. Connected'
    BY <1>9 DEF AuditCheckOut, Goto, Connected, Ending
  <2>4. ConnectionsReturned'
    <3>1. Cardinality(auditing \cup {r}) = Cardinality(auditing) + 1
      BY <2>1, Counting
    <3>2. Cardinality(auditing) \in Nat /\ Cardinality(holds) \in Nat
      BY Counting
    <3> QED
      BY <1>9, <3>1, <3>2 DEF AuditCheckOut, ConnectionsReturned
  <2> QED
    BY <2>2, <2>3, <2>4
<1>10. ASSUME NEW r \in Requests, AuditTimeout(r) \/ Publish(r) \/ PublishFails(r) PROVE Pool'
  <2>1. Types'
    BY <1>10 DEF AuditTimeout, Publish, PublishFails, Goto, Fault, pool, stores
  <2>2. Connected'
    BY <1>10 DEF AuditTimeout, Publish, PublishFails, Goto, pool, Connected, Ending
  <2> QED
    BY <1>10, <2>1, <2>2, <1>2 DEF AuditTimeout, Publish, PublishFails
<1>11. ASSUME NEW r \in Requests, AuditInsert(r) \/ AuditFails(r) PROVE Pool'
  <2>1. /\ r \in auditing /\ ReleaseAudit(r)
    BY <1>11 DEF AuditInsert, AuditFails, Connected
  <2>2. Types'
    BY <1>11 DEF AuditInsert, AuditFails, ReleaseAudit, Goto, Fault, stores
  <2>3. Connected'
    BY <1>11 DEF AuditInsert, AuditFails, ReleaseAudit, Goto, Connected, Ending
  <2>4. ConnectionsReturned'
    <3>1. Cardinality(auditing \ {r}) = Cardinality(auditing) - 1
      BY <2>1, Counting
    <3>2. Cardinality(auditing) \in Nat /\ Cardinality(holds) \in Nat
      BY Counting
    <3> QED
      BY <2>1, <3>1, <3>2 DEF ReleaseAudit, ConnectionsReturned
  <2> QED
    BY <2>2, <2>3, <2>4
<1>12. ASSUME NEW r \in Requests, Close(r) PROVE Pool'
  <2>1. /\ free' \in Nat /\ holds' \in SUBSET Requests
        /\ r \notin holds' /\ holds' \subseteq holds /\ auditing' = auditing
        /\ ConnectionsReturned'
    BY <1>12, ReleaseKeepsCount DEF Close
  <2>2. Types'
    BY <1>12, <2>1 DEF Close, Goto, stores
  <2>3. Connected'
    BY <1>12, <2>1 DEF Close, Goto, Connected, Ending
  <2> QED
    BY <2>1, <2>2, <2>3
<1>13. ASSUME Crash PROVE Pool'
  <2>1. Types'
    BY <1>13, PoolAssumption DEF Crash, InFlight, stores
  <2>2. Connected'
    BY <1>13 DEF Crash, InFlight, Connected, Ending
  <2>3. ConnectionsReturned'
    BY <1>13, FS_EmptySet, PoolAssumption DEF Crash, ConnectionsReturned
  <2> QED
    BY <2>1, <2>2, <2>3
<1> QED
  BY <1>1, <1>3, <1>4, <1>5, <1>6, <1>7, <1>8, <1>9, <1>10, <1>11, <1>12, <1>13
  DEF Next, Advance

-----------------------------------------------------------------------------
\* The trail has what a request that succeeded is to leave there.
Recorded(r) ==
  /\ Task(path[r]) = "audit" => r \in table
  /\ Task(path[r]) = "publish" => r \in topic

\* What is known of a request in each phase: before its end; while it has a
\* task to do; with a record; and when no failure has hit it.
Before(r) ==
  /\ phase[r] \in {"idle", "run"} => r \notin committed
  /\ phase[r] \in {"idle", "run", "connect", "invalidate"} => outcome[r] = "none"
  /\ phase[r] \in {"idle", "run"} \/ (phase[r] = "connect" /\ r \notin committed)
       => task[r] = "none"
  /\ phase[r] = "connect" /\ r \in committed
       => path[r] = "auth_google_new" /\ task[r] = Task(path[r])
  /\ phase[r] = "invalidate" => r \in committed /\ task[r] = Task(path[r])

Tasked(r) ==
  /\ phase[r] \in {"task", "insert"} => task[r] # "none"
  /\ phase[r] = "insert" => task[r] = "audit"
  /\ phase[r] \in Ending /\ task[r] # "none"
       => /\ outcome[r] = "ok"
          /\ task[r] = Task(path[r])
          /\ Commits(path[r]) => r \in committed
  /\ phase[r] \in {"reply", "task"} /\ task[r] # "none" /\ r \in holds
       => path[r] \in {"login", "auth_google_new"}

Told(r) ==
  r \in table \cup topic =>
    /\ phase[r] \in {"close", "done"}
    /\ outcome[r] = "ok"
    /\ Commits(path[r]) => r \in committed

Unharmed(r) ==
  r \notin faulted =>
    /\ phase[r] \in Ending /\ (r \in committed \/ outcome[r] = "ok")
         => task[r] = Task(path[r])
    /\ phase[r] \in {"close", "done"} /\ (r \in committed \/ outcome[r] = "ok")
         => Recorded(r)

Story(r) == Before(r) /\ Tasked(r) /\ Told(r) /\ Unharmed(r)

Trail == Pool /\ \A r \in Requests : Story(r)

\* A step of another request.
Apart(r) ==
  /\ phase'[r] = phase[r] /\ path'[r] = path[r]
  /\ task'[r] = task[r] /\ outcome'[r] = outcome[r]
  /\ r \in holds' => r \in holds
  /\ r \in committed' <=> r \in committed
  /\ r \in table' <=> r \in table
  /\ r \in topic' <=> r \in topic
  /\ r \in faulted' <=> r \in faulted

LEMMA ApartKeepsStory ==
  ASSUME NEW r \in Requests, Story(r), Apart(r)
  PROVE  Story(r)'
<1>1. Before(r)'
  BY DEF Story, Before, Apart, Task
<1>2. Tasked(r)'
  BY DEF Story, Tasked, Apart, Ending, Task, Commits
<1>3. Told(r)'
  BY DEF Story, Told, Apart, Commits
<1>4. Unharmed(r)'
  BY DEF Story, Unharmed, Apart, Ending, Recorded, Task
<1> QED
  BY <1>1, <1>2, <1>3, <1>4 DEF Story

LEMMA TrailInit == Init => Trail
<1> SUFFICES ASSUME Init PROVE Trail
  OBVIOUS
<1>1. ASSUME NEW r \in Requests PROVE Story(r)
  BY DEF Init, Story, Before, Tasked, Told, Unharmed, Ending
<1> QED
  BY <1>1, PoolInit DEF Trail

LEMMA OneMoves ==
  ASSUME Trail, NEW r \in Requests, Story(r)', \A q \in Requests \ {r} : Apart(q)
  PROVE  \A q \in Requests : Story(q)'
BY ApartKeepsStory DEF Trail

LEMMA TrailStep == Trail /\ [Next]_vars => Trail'
<1> SUFFICES ASSUME Trail, [Next]_vars PROVE \A q \in Requests : Story(q)'
  BY PoolStep DEF Trail
<1>t. Types /\ Connected
  BY DEF Trail, Pool
<1> USE DEF Types
<1>1. ASSUME UNCHANGED vars PROVE \A q \in Requests : Story(q)'
  <2>1. \A q \in Requests : Apart(q)
    BY <1>1 DEF vars, pool, stores, request, Apart
  <2> QED
    BY <2>1, ApartKeepsStory DEF Trail
<1>2. ASSUME NEW r \in Requests, NEW p \in Paths, Begin(r, p) PROVE \A q \in Requests : Story(q)'
  <2>1. Story(r)'
    <3>1. Before(r)'
      BY <1>2, <1>t DEF Begin, Goto, pool, stores, Connected, Trail, Story, Before, Task
    <3>2. Tasked(r)'
      BY <1>2, <1>t DEF Begin, Goto, pool, stores, Connected, Trail, Story, Before, Tasked, Ending, Task, Commits
    <3>3. Told(r)'
      BY <1>2, <1>t DEF Begin, Goto, pool, stores, Connected, Trail, Story, Before, Tasked, Told, Ending, Commits
    <3>4. Unharmed(r)'
      BY <1>2, <1>t DEF Begin, Goto, pool, stores, Connected, Trail, Story, Before, Tasked, Unharmed, Recorded, Ending, Task
    <3> QED
      BY <3>1, <3>2, <3>3, <3>4 DEF Story
  <2>2. \A q \in Requests \ {r} : Apart(q)
    BY <1>2, <1>t DEF Begin, Goto, pool, stores, Apart
  <2> QED
    BY <2>1, <2>2, OneMoves
<1>3. ASSUME NEW r \in Requests, CheckOut(r) PROVE \A q \in Requests : Story(q)'
  <2>1. Story(r)'
    <3>1. Before(r)'
      BY <1>3, <1>t DEF CheckOut, Goto, stores, Connected, Trail, Story, Before, Task
    <3>2. Tasked(r)'
      BY <1>3, <1>t DEF CheckOut, Goto, stores, Connected, Trail, Story, Before, Tasked, Ending, Task, Commits
    <3>3. Told(r)'
      BY <1>3, <1>t DEF CheckOut, Goto, stores, Connected, Trail, Story, Before, Tasked, Told, Ending, Commits
    <3>4. Unharmed(r)'
      BY <1>3, <1>t DEF CheckOut, Goto, stores, Connected, Trail, Story, Before, Tasked, Unharmed, Recorded, Ending, Task
    <3> QED
      BY <3>1, <3>2, <3>3, <3>4 DEF Story
  <2>2. \A q \in Requests \ {r} : Apart(q)
    BY <1>3, <1>t DEF CheckOut, Goto, stores, Apart
  <2> QED
    BY <2>1, <2>2, OneMoves
<1>4. ASSUME NEW r \in Requests, CheckOutTimeout(r) PROVE \A q \in Requests : Story(q)'
  <2>1. Story(r)'
    <3>1. Before(r)'
      BY <1>4, <1>t DEF CheckOutTimeout, Raise, Goto, Fault, pool, stores, Connected, Trail, Story, Before, Task
    <3>2. Tasked(r)'
      BY <1>4, <1>t DEF CheckOutTimeout, Raise, Goto, Fault, pool, stores, Connected, Trail, Story, Before, Tasked, Ending, Task, Commits
    <3>3. Told(r)'
      BY <1>4, <1>t DEF CheckOutTimeout, Raise, Goto, Fault, pool, stores, Connected, Trail, Story, Before, Tasked, Told, Ending, Commits
    <3>4. Unharmed(r)'
      BY <1>4, <1>t DEF CheckOutTimeout, Raise, Goto, Fault, pool, stores, Connected, Trail, Story, Before, Tasked, Unharmed, Recorded, Ending, Task
    <3> QED
      BY <3>1, <3>2, <3>3, <3>4 DEF Story
  <2>2. \A q \in Requests \ {r} : Apart(q)
    BY <1>4, <1>t DEF CheckOutTimeout, Raise, Goto, Fault, pool, stores, Apart
  <2> QED
    BY <2>1, <2>2, OneMoves
<1>5. ASSUME NEW r \in Requests, Refuse(r) PROVE \A q \in Requests : Story(q)'
  <2>1. Story(r)'
    <3>1. Before(r)'
      BY <1>5, <1>t DEF Refuse, Raise, Goto, pool, stores, Connected, Trail, Story, Before, Task
    <3>2. Tasked(r)'
      BY <1>5, <1>t DEF Refuse, Raise, Goto, pool, stores, Connected, Trail, Story, Before, Tasked, Ending, Task, Commits
    <3>3. Told(r)'
      BY <1>5, <1>t DEF Refuse, Raise, Goto, pool, stores, Connected, Trail, Story, Before, Tasked, Told, Ending, Commits
    <3>4. Unharmed(r)'
      BY <1>5, <1>t DEF Refuse, Raise, Goto, pool, stores, Connected, Trail, Story, Before, Tasked, Unharmed, Recorded, Ending, Task
    <3> QED
      BY <3>1, <3>2, <3>3, <3>4 DEF Story
  <2>2. \A q \in Requests \ {r} : Apart(q)
    BY <1>5, <1>t DEF Refuse, Raise, Goto, pool, stores, Apart
  <2> QED
    BY <2>1, <2>2, OneMoves
<1>6. ASSUME NEW r \in Requests, HandlerFails(r) PROVE \A q \in Requests : Story(q)'
  <2>1. Story(r)'
    <3>1. Before(r)'
      BY <1>6, <1>t DEF HandlerFails, Raise, Goto, Fault, pool, stores, Connected, Trail, Story, Before, Task
    <3>2. Tasked(r)'
      BY <1>6, <1>t DEF HandlerFails, Raise, Goto, Fault, pool, stores, Connected, Trail, Story, Before, Tasked, Ending, Task, Commits
    <3>3. Told(r)'
      BY <1>6, <1>t DEF HandlerFails, Raise, Goto, Fault, pool, stores, Connected, Trail, Story, Before, Tasked, Told, Ending, Commits
    <3>4. Unharmed(r)'
      BY <1>6, <1>t DEF HandlerFails, Raise, Goto, Fault, pool, stores, Connected, Trail, Story, Before, Tasked, Unharmed, Recorded, Ending, Task
    <3> QED
      BY <3>1, <3>2, <3>3, <3>4 DEF Story
  <2>2. \A q \in Requests \ {r} : Apart(q)
    BY <1>6, <1>t DEF HandlerFails, Raise, Goto, Fault, pool, stores, Apart
  <2> QED
    BY <2>1, <2>2, OneMoves
<1>7. ASSUME NEW r \in Requests, InvalidateFails(r) PROVE \A q \in Requests : Story(q)'
  <2>1. Story(r)'
    <3>1. Before(r)'
      BY <1>7, <1>t DEF InvalidateFails, Raise, Goto, Fault, pool, stores, Connected, Trail, Story, Before, Task
    <3>2. Tasked(r)'
      BY <1>7, <1>t DEF InvalidateFails, Raise, Goto, Fault, pool, stores, Connected, Trail, Story, Before, Tasked, Ending, Task, Commits
    <3>3. Told(r)'
      BY <1>7, <1>t DEF InvalidateFails, Raise, Goto, Fault, pool, stores, Connected, Trail, Story, Before, Tasked, Told, Ending, Commits
    <3>4. Unharmed(r)'
      BY <1>7, <1>t DEF InvalidateFails, Raise, Goto, Fault, pool, stores, Connected, Trail, Story, Before, Tasked, Unharmed, Recorded, Ending, Task
    <3> QED
      BY <3>1, <3>2, <3>3, <3>4 DEF Story
  <2>2. \A q \in Requests \ {r} : Apart(q)
    BY <1>7, <1>t DEF InvalidateFails, Raise, Goto, Fault, pool, stores, Apart
  <2> QED
    BY <2>1, <2>2, OneMoves
<1>8. ASSUME NEW r \in Requests, Answer(r) PROVE \A q \in Requests : Story(q)'
  <2>3. path[r] \in Paths
    BY <1>8, <1>t DEF Answer, Connected
  <2>1. Story(r)'
    <3>1. Before(r)'
      BY <1>8, <1>t, <2>3, PathFacts DEF Answer, Goto, pool, stores, Connected, Trail, Story, Before, Task
    <3>2. Tasked(r)'
      BY <1>8, <1>t, <2>3, PathFacts DEF Answer, Goto, pool, stores, Connected, Trail, Story, Before, Tasked, Ending, Task, Commits
    <3>3. Told(r)'
      BY <1>8, <1>t, <2>3, PathFacts DEF Answer, Goto, pool, stores, Connected, Trail, Story, Before, Tasked, Told, Ending, Commits
    <3>4. Unharmed(r)'
      BY <1>8, <1>t, <2>3, PathFacts DEF Answer, Goto, pool, stores, Connected, Trail, Story, Before, Tasked, Unharmed, Recorded, Ending, Task
    <3> QED
      BY <3>1, <3>2, <3>3, <3>4 DEF Story
  <2>2. \A q \in Requests \ {r} : Apart(q)
    BY <1>8, <1>t DEF Answer, Goto, pool, stores, Apart
  <2> QED
    BY <2>1, <2>2, OneMoves
<1>9. ASSUME NEW r \in Requests, Commit(r) PROVE \A q \in Requests : Story(q)'
  <2>3. path[r] \in Paths
    BY <1>9, <1>t DEF Commit, Connected
  <2>1. Story(r)'
    <3>1. Before(r)'
      BY <1>9, <1>t, <2>3, PathFacts, NextPhase DEF Commit, Release, Goto, Connected, Trail, Story, Before, Task
    <3>2. Tasked(r)'
      BY <1>9, <1>t, <2>3, PathFacts, NextPhase DEF Commit, Release, Goto, Connected, Trail, Story, Before, Tasked, Ending, Task, Commits
    <3>3. Told(r)'
      BY <1>9, <1>t, <2>3, PathFacts, NextPhase DEF Commit, Release, Goto, Connected, Trail, Story, Before, Tasked, Told, Ending, Commits
    <3>4. Unharmed(r)'
      BY <1>9, <1>t, <2>3, PathFacts, NextPhase DEF Commit, Release, Goto, Connected, Trail, Story, Before, Tasked, Unharmed, Recorded, Ending, Task
    <3> QED
      BY <3>1, <3>2, <3>3, <3>4 DEF Story
  <2>2. \A q \in Requests \ {r} : Apart(q)
    BY <1>9, <1>t DEF Commit, Release, Goto, Apart
  <2> QED
    BY <2>1, <2>2, OneMoves
<1>10. ASSUME NEW r \in Requests, CommitFails(r) PROVE \A q \in Requests : Story(q)'
  <2>1. Story(r)'
    <3>1. Before(r)'
      BY <1>10, <1>t DEF CommitFails, Release, Raise, Goto, Fault, Connected, Trail, Story, Before, Task
    <3>2. Tasked(r)'
      BY <1>10, <1>t DEF CommitFails, Release, Raise, Goto, Fault, Connected, Trail, Story, Before, Tasked, Ending, Task, Commits
    <3>3. Told(r)'
      BY <1>10, <1>t DEF CommitFails, Release, Raise, Goto, Fault, Connected, Trail, Story, Before, Tasked, Told, Ending, Commits
    <3>4. Unharmed(r)'
      BY <1>10, <1>t DEF CommitFails, Release, Raise, Goto, Fault, Connected, Trail, Story, Before, Tasked, Unharmed, Recorded, Ending, Task
    <3> QED
      BY <3>1, <3>2, <3>3, <3>4 DEF Story
  <2>2. \A q \in Requests \ {r} : Apart(q)
    BY <1>10, <1>t DEF CommitFails, Release, Raise, Goto, Fault, Apart
  <2> QED
    BY <2>1, <2>2, OneMoves
<1>11. ASSUME NEW r \in Requests, Invalidate(r) PROVE \A q \in Requests : Story(q)'
  <2>1. Story(r)'
    <3>1. Before(r)'
      BY <1>11, <1>t DEF Invalidate, Goto, pool, stores, Connected, Trail, Story, Before, Task
    <3>2. Tasked(r)'
      BY <1>11, <1>t DEF Invalidate, Goto, pool, stores, Connected, Trail, Story, Before, Tasked, Ending, Task, Commits
    <3>3. Told(r)'
      BY <1>11, <1>t DEF Invalidate, Goto, pool, stores, Connected, Trail, Story, Before, Tasked, Told, Ending, Commits
    <3>4. Unharmed(r)'
      BY <1>11, <1>t DEF Invalidate, Goto, pool, stores, Connected, Trail, Story, Before, Tasked, Unharmed, Recorded, Ending, Task
    <3> QED
      BY <3>1, <3>2, <3>3, <3>4 DEF Story
  <2>2. \A q \in Requests \ {r} : Apart(q)
    BY <1>11, <1>t DEF Invalidate, Goto, pool, stores, Apart
  <2> QED
    BY <2>1, <2>2, OneMoves
<1>12. ASSUME NEW r \in Requests, Respond(r) PROVE \A q \in Requests : Story(q)'
  <2>1. Story(r)'
    <3>1. Before(r)'
      BY <1>12, <1>t DEF Respond, Goto, pool, stores, Connected, Trail, Story, Before, Task
    <3>2. Tasked(r)'
      BY <1>12, <1>t DEF Respond, Goto, pool, stores, Connected, Trail, Story, Before, Tasked, Ending, Task, Commits
    <3>3. Told(r)'
      BY <1>12, <1>t DEF Respond, Goto, pool, stores, Connected, Trail, Story, Before, Tasked, Told, Ending, Commits
    <3>4. Unharmed(r)'
      BY <1>12, <1>t DEF Respond, Goto, pool, stores, Connected, Trail, Story, Before, Tasked, Unharmed, Recorded, Ending, Task
    <3> QED
      BY <3>1, <3>2, <3>3, <3>4 DEF Story
  <2>2. \A q \in Requests \ {r} : Apart(q)
    BY <1>12, <1>t DEF Respond, Goto, pool, stores, Apart
  <2> QED
    BY <2>1, <2>2, OneMoves
<1>13. ASSUME NEW r \in Requests, AuditCheckOut(r) PROVE \A q \in Requests : Story(q)'
  <2>1. Story(r)'
    <3>1. Before(r)'
      BY <1>13, <1>t DEF AuditCheckOut, Goto, stores, Connected, Trail, Story, Before, Task
    <3>2. Tasked(r)'
      BY <1>13, <1>t DEF AuditCheckOut, Goto, stores, Connected, Trail, Story, Before, Tasked, Ending, Task, Commits
    <3>3. Told(r)'
      BY <1>13, <1>t DEF AuditCheckOut, Goto, stores, Connected, Trail, Story, Before, Tasked, Told, Ending, Commits
    <3>4. Unharmed(r)'
      BY <1>13, <1>t DEF AuditCheckOut, Goto, stores, Connected, Trail, Story, Before, Tasked, Unharmed, Recorded, Ending, Task
    <3> QED
      BY <3>1, <3>2, <3>3, <3>4 DEF Story
  <2>2. \A q \in Requests \ {r} : Apart(q)
    BY <1>13, <1>t DEF AuditCheckOut, Goto, stores, Apart
  <2> QED
    BY <2>1, <2>2, OneMoves
<1>14. ASSUME NEW r \in Requests, AuditTimeout(r) PROVE \A q \in Requests : Story(q)'
  <2>1. Story(r)'
    <3>1. Before(r)'
      BY <1>14, <1>t DEF AuditTimeout, Goto, Fault, pool, stores, Connected, Trail, Story, Before, Task
    <3>2. Tasked(r)'
      BY <1>14, <1>t DEF AuditTimeout, Goto, Fault, pool, stores, Connected, Trail, Story, Before, Tasked, Ending, Task, Commits
    <3>3. Told(r)'
      BY <1>14, <1>t DEF AuditTimeout, Goto, Fault, pool, stores, Connected, Trail, Story, Before, Tasked, Told, Ending, Commits
    <3>4. Unharmed(r)'
      BY <1>14, <1>t DEF AuditTimeout, Goto, Fault, pool, stores, Connected, Trail, Story, Before, Tasked, Unharmed, Recorded, Ending, Task
    <3> QED
      BY <3>1, <3>2, <3>3, <3>4 DEF Story
  <2>2. \A q \in Requests \ {r} : Apart(q)
    BY <1>14, <1>t DEF AuditTimeout, Goto, Fault, pool, stores, Apart
  <2> QED
    BY <2>1, <2>2, OneMoves
<1>15. ASSUME NEW r \in Requests, AuditInsert(r) PROVE \A q \in Requests : Story(q)'
  <2>1. Story(r)'
    <3>1. Before(r)'
      BY <1>15, <1>t DEF AuditInsert, ReleaseAudit, Goto, Connected, Trail, Story, Before, Task
    <3>2. Tasked(r)'
      BY <1>15, <1>t DEF AuditInsert, ReleaseAudit, Goto, Connected, Trail, Story, Before, Tasked, Ending, Task, Commits
    <3>3. Told(r)'
      BY <1>15, <1>t DEF AuditInsert, ReleaseAudit, Goto, Connected, Trail, Story, Before, Tasked, Told, Ending, Commits
    <3>4. Unharmed(r)'
      BY <1>15, <1>t DEF AuditInsert, ReleaseAudit, Goto, Connected, Trail, Story, Before, Tasked, Unharmed, Recorded, Ending, Task
    <3> QED
      BY <3>1, <3>2, <3>3, <3>4 DEF Story
  <2>2. \A q \in Requests \ {r} : Apart(q)
    BY <1>15, <1>t DEF AuditInsert, ReleaseAudit, Goto, Apart
  <2> QED
    BY <2>1, <2>2, OneMoves
<1>16. ASSUME NEW r \in Requests, AuditFails(r) PROVE \A q \in Requests : Story(q)'
  <2>1. Story(r)'
    <3>1. Before(r)'
      BY <1>16, <1>t DEF AuditFails, ReleaseAudit, Goto, Fault, Connected, Trail, Story, Before, Task
    <3>2. Tasked(r)'
      BY <1>16, <1>t DEF AuditFails, ReleaseAudit, Goto, Fault, Connected, Trail, Story, Before, Tasked, Ending, Task, Commits
    <3>3. Told(r)'
      BY <1>16, <1>t DEF AuditFails, ReleaseAudit, Goto, Fault, Connected, Trail, Story, Before, Tasked, Told, Ending, Commits
    <3>4. Unharmed(r)'
      BY <1>16, <1>t DEF AuditFails, ReleaseAudit, Goto, Fault, Connected, Trail, Story, Before, Tasked, Unharmed, Recorded, Ending, Task
    <3> QED
      BY <3>1, <3>2, <3>3, <3>4 DEF Story
  <2>2. \A q \in Requests \ {r} : Apart(q)
    BY <1>16, <1>t DEF AuditFails, ReleaseAudit, Goto, Fault, Apart
  <2> QED
    BY <2>1, <2>2, OneMoves
<1>17. ASSUME NEW r \in Requests, Publish(r) PROVE \A q \in Requests : Story(q)'
  <2>1. Story(r)'
    <3>1. Before(r)'
      BY <1>17, <1>t DEF Publish, Goto, pool, Connected, Trail, Story, Before, Task
    <3>2. Tasked(r)'
      BY <1>17, <1>t DEF Publish, Goto, pool, Connected, Trail, Story, Before, Tasked, Ending, Task, Commits
    <3>3. Told(r)'
      BY <1>17, <1>t DEF Publish, Goto, pool, Connected, Trail, Story, Before, Tasked, Told, Ending, Commits
    <3>4. Unharmed(r)'
      BY <1>17, <1>t DEF Publish, Goto, pool, Connected, Trail, Story, Before, Tasked, Unharmed, Recorded, Ending, Task
    <3> QED
      BY <3>1, <3>2, <3>3, <3>4 DEF Story
  <2>2. \A q \in Requests \ {r} : Apart(q)
    BY <1>17, <1>t DEF Publish, Goto, pool, Apart
  <2> QED
    BY <2>1, <2>2, OneMoves
<1>18. ASSUME NEW r \in Requests, PublishFails(r) PROVE \A q \in Requests : Story(q)'
  <2>1. Story(r)'
    <3>1. Before(r)'
      BY <1>18, <1>t DEF PublishFails, Goto, Fault, pool, Connected, Trail, Story, Before, Task
    <3>2. Tasked(r)'
      BY <1>18, <1>t DEF PublishFails, Goto, Fault, pool, Connected, Trail, Story, Before, Tasked, Ending, Task, Commits
    <3>3. Told(r)'
      BY <1>18, <1>t DEF PublishFails, Goto, Fault, pool, Connected, Trail, Story, Before, Tasked, Told, Ending, Commits
    <3>4. Unharmed(r)'
      BY <1>18, <1>t DEF PublishFails, Goto, Fault, pool, Connected, Trail, Story, Before, Tasked, Unharmed, Recorded, Ending, Task
    <3> QED
      BY <3>1, <3>2, <3>3, <3>4 DEF Story
  <2>2. \A q \in Requests \ {r} : Apart(q)
    BY <1>18, <1>t DEF PublishFails, Goto, Fault, pool, Apart
  <2> QED
    BY <2>1, <2>2, OneMoves
<1>19. ASSUME NEW r \in Requests, Close(r) PROVE \A q \in Requests : Story(q)'
  <2>1. Story(r)'
    <3>1. Before(r)'
      BY <1>19, <1>t DEF Close, Release, Goto, stores, Connected, Trail, Story, Before, Task
    <3>2. Tasked(r)'
      BY <1>19, <1>t DEF Close, Release, Goto, stores, Connected, Trail, Story, Before, Tasked, Ending, Task, Commits
    <3>3. Told(r)'
      BY <1>19, <1>t DEF Close, Release, Goto, stores, Connected, Trail, Story, Before, Tasked, Told, Ending, Commits
    <3>4. Unharmed(r)'
      BY <1>19, <1>t DEF Close, Release, Goto, stores, Connected, Trail, Story, Before, Tasked, Unharmed, Recorded, Ending, Task
    <3> QED
      BY <3>1, <3>2, <3>3, <3>4 DEF Story
  <2>2. \A q \in Requests \ {r} : Apart(q)
    BY <1>19, <1>t DEF Close, Release, Goto, stores, Apart
  <2> QED
    BY <2>1, <2>2, OneMoves
<1>20. ASSUME Crash PROVE \A q \in Requests : Story(q)'
  <2> SUFFICES ASSUME NEW q \in Requests PROVE Story(q)'
    OBVIOUS
  <2>1. CASE q \in InFlight
    BY <1>20, <1>t, <2>1
    DEF Crash, InFlight, stores, Trail, Story, Before, Tasked, Told, Unharmed, Ending, Commits
  <2>2. CASE q \notin InFlight
    BY <1>20, <1>t, <2>2, ApartKeepsStory DEF Crash, InFlight, stores, Trail, Apart
  <2> QED
    BY <2>1, <2>2
<1> QED
  BY <1>1, <1>2, <1>3, <1>4, <1>5, <1>6, <1>7, <1>8, <1>9, <1>10, <1>11, <1>12, <1>13, <1>14, <1>15, <1>16, <1>17, <1>18, <1>19, <1>20 DEF Next, Advance

-----------------------------------------------------------------------------
LEMMA AlwaysTrail == Spec => []Trail
<1>1. Init => Trail
  BY TrailInit
<1>2. Trail /\ [Next]_vars => Trail'
  BY TrailStep
<1> QED
  BY <1>1, <1>2, PTL DEF Spec

\* Requests, sessions, pool and trail keep their types; no session of a request
\* that has not begun or is over holds a connection.
THEOREM TypeCorrect == Spec => []TypeOK
<1>1. Trail => TypeOK
  <2> SUFFICES ASSUME Types, Connected, ConnectionsReturned PROVE TypeOK
    BY DEF Trail, Pool
  <2>1. free \in 0..PoolSize
    <3>1. Cardinality(holds) \in Nat /\ Cardinality(auditing) \in Nat
      BY RequestsAssumption, FS_Subset, FS_CardinalityType DEF Types
    <3> QED
      BY <3>1, PoolAssumption DEF Types, ConnectionsReturned
  <2>2. holds \subseteq InFlight /\ auditing \subseteq InFlight
    BY DEF Types, Connected, Ending, InFlight
  <2> QED
    BY <2>1, <2>2 DEF Types, Connected, TypeOK
<1> QED
  BY <1>1, AlwaysTrail, PTL

\* get_db, the audit task and the pool: no path through a request loses a
\* connection or gives one back twice.
THEOREM NoConnectionLost == Spec => []ConnectionsReturned
<1>1. Trail => ConnectionsReturned
  BY DEF Trail, Pool
<1> QED
  BY <1>1, AlwaysTrail, PTL

\* audit_logs and the topic hold nothing that did not happen.
THEOREM NothingInvented == Spec => []TrailIsTrue
<1>1. Trail => TrailIsTrue
  <2> SUFFICES ASSUME Trail, NEW r \in table \cup topic
               PROVE  outcome[r] = "ok" /\ (Commits(path[r]) => r \in committed)
    BY DEF TrailIsTrue
  <2>1. r \in Requests
    BY DEF Trail, Pool, Types
  <2> QED
    BY <2>1 DEF Trail, Story, Told
<1> QED
  BY <1>1, AlwaysTrail, PTL

\* What a request has done is missing from them only if a failure hit it.
THEOREM NothingForgotten == Spec => []TrailIsComplete
<1>1. Trail => TrailIsComplete
  BY DEF Trail, Story, Unharmed, Recorded, TrailIsComplete
<1> QED
  BY <1>1, AlwaysTrail, PTL

\* A request whose audit waits for a connection has given back its own, unless
\* it ended in a query: the sign-ins do.
THEOREM WaitsEmptyHanded == Spec => []CommittedWaitWithoutHolding
<1>1. Trail => CommittedWaitWithoutHolding
  BY DEF Trail, Story, Tasked, Ending, CommittedWaitWithoutHolding
<1> QED
  BY <1>1, AlwaysTrail, PTL

-----------------------------------------------------------------------------
(* What EveryRequestEnds rests on.                                         *)

\* Nobody who has a connection can go on without getting another one.
PoolBlocked == free = 0 /\ \A r \in holds \cup auditing : phase[r] = "task"

\* The requests that have taken the whole pool are then sign-ins, each of them
\* waiting for the connection of its audit with one of its own in hand.
OnlySignInsBlock ==
  PoolBlocked =>
    /\ Cardinality(holds) = PoolSize
    /\ \A r \in holds : /\ path[r] \in {"login", "auth_google_new"}
                        /\ task[r] = "audit"

\* Requests that starve one another of connections until the timeout of the
\* pool are as many sign-ins as it has connections: no other handler can be
\* among those that block it.
THEOREM PoolBlockedBySignIns == Spec => []OnlySignInsBlock
<1>1. Trail => OnlySignInsBlock
  <2> SUFFICES ASSUME Trail, PoolBlocked
               PROVE  /\ Cardinality(holds) = PoolSize
                      /\ \A r \in holds : /\ path[r] \in {"login", "auth_google_new"}
                                          /\ task[r] = "audit"
    BY DEF OnlySignInsBlock
  <2>1. Types /\ Connected /\ ConnectionsReturned
    BY DEF Trail, Pool
  <2>2. auditing = {}
    BY <2>1 DEF PoolBlocked, Types, Connected
  <2>3. Cardinality(holds) \in Nat
    BY <2>1, RequestsAssumption, FS_Subset, FS_CardinalityType DEF Types
  <2>4. Cardinality(holds) = PoolSize
    BY <2>1, <2>2, <2>3, FS_EmptySet, PoolAssumption DEF PoolBlocked, ConnectionsReturned
  <2>5. ASSUME NEW r \in holds
        PROVE  path[r] \in {"login", "auth_google_new"} /\ task[r] = "audit"
    <3>1. r \in Requests /\ phase[r] = "task"
      BY <2>1 DEF PoolBlocked, Types
    <3>2. task[r] # "none" /\ task[r] = Task(path[r])
          /\ path[r] \in {"login", "auth_google_new"}
      BY <3>1 DEF Trail, Story, Tasked, Ending
    <3> QED
      BY <3>2 DEF Task, QuietPaths, LoudPaths
  <2> QED
    BY <2>4, <2>5
<1> QED
  BY <1>1, AlwaysTrail, PTL

\* How many steps a request can still take at most.
Left(r) ==
  CASE phase[r] = "idle"       -> 9
    [] phase[r] = "connect"    -> IF r \in committed THEN 6 ELSE 8
    [] phase[r] = "run"        -> 7
    [] phase[r] = "invalidate" -> 6
    [] phase[r] = "reply"      -> 5
    [] phase[r] = "task"       -> 4
    [] phase[r] = "insert"     -> 3
    [] phase[r] = "close"      -> 2
    [] OTHER                   -> 0

\* Every step brings the request it is of nearer to its end, and none further
\* away from it.
EveryStepCounts ==
  [][/\ \A r \in Requests : Left(r)' <= Left(r)
     /\ \E r \in Requests : Left(r)' < Left(r)]_vars

\* No request goes round in circles, whatever fails, times out or crashes: the
\* one phase it comes to twice is the first query of a transaction, and the
\* second time its change is committed.
THEOREM NothingIsRepeated == Spec => EveryStepCounts
<1> DEFINE A == /\ \A r \in Requests : Left(r)' <= Left(r)
                /\ \E r \in Requests : Left(r)' < Left(r)
<1>1. ASSUME Trail, [Next]_vars, vars' # vars
      PROVE  A
  <2>t. Types /\ \A r \in Requests : Before(r)
    BY <1>1 DEF Trail, Pool, Story
  <2>1. \A r \in Requests : Left(r) \in Nat
    BY DEF Left
  <2>2. ASSUME NEW r \in Requests, Left(r)' < Left(r),
               \A q \in Requests \ {r} : phase'[q] = phase[q] /\ (q \in committed' <=> q \in committed)
        PROVE  A
    <3>1. \A q \in Requests \ {r} : Left(q)' = Left(q)
      BY <2>2 DEF Left
    <3>2. Left(r)' \in Nat
      BY DEF Left
    <3> QED
      BY <2>1, <2>2, <3>1, <3>2
  <2> HIDE DEF A
  <2>3. ASSUME NEW r \in Requests, NEW p \in Paths, Begin(r, p) PROVE A
    <3>1. Left(r)' < Left(r)
      BY <2>t, <2>3 DEF Begin, Goto, Left, Types
    <3> QED
      BY <2>t, <2>2, <2>3, <3>1 DEF Begin, Goto, Types, stores
  <2>4. ASSUME NEW r \in Requests, CheckOut(r) \/ Answer(r) \/ Invalidate(r) PROVE A
    <3>1. Left(r)' < Left(r)
      BY <2>t, <2>4 DEF CheckOut, Answer, Invalidate, Goto, Left, Types
    <3> QED
      BY <2>t, <2>2, <2>4, <3>1 DEF CheckOut, Answer, Invalidate, Goto, Types, stores
  <2>5. ASSUME NEW r \in Requests,
               CheckOutTimeout(r) \/ Refuse(r) \/ InvalidateFails(r) \/ HandlerFails(r)
        PROVE  A
    <3>1. Left(r)' < Left(r)
      BY <2>t, <2>5 DEF CheckOutTimeout, Refuse, InvalidateFails, HandlerFails, Raise,
         Goto, Left, Types
    <3> QED
      BY <2>t, <2>2, <2>5, <3>1 DEF CheckOutTimeout, Refuse, InvalidateFails,
         HandlerFails, Raise, Goto, Types, stores
  <2>6. ASSUME NEW r \in Requests, Commit(r) PROVE A
    <3>1. /\ phase[r] = "run" /\ phase'[r] = AfterCommit(r) /\ r \in committed'
          /\ \A q \in Requests \ {r} :
               phase'[q] = phase[q] /\ (q \in committed' <=> q \in committed)
      BY <2>t, <2>6 DEF Commit, Goto, Types
    <3>2. Left(r)' < Left(r)
      BY <3>1, NextPhase DEF Left
    <3> QED
      BY <2>2, <3>1, <3>2
  <2>7. ASSUME NEW r \in Requests, CommitFails(r) PROVE A
    <3>1. Left(r)' < Left(r)
      BY <2>t, <2>7 DEF CommitFails, Raise, Goto, Left, Types
    <3> QED
      BY <2>t, <2>2, <2>7, <3>1 DEF CommitFails, Raise, Goto, Types
  <2>8. ASSUME NEW r \in Requests,
               Respond(r) \/ AuditCheckOut(r) \/ AuditTimeout(r) \/ AuditInsert(r)
        PROVE  A
    <3>1. Left(r)' < Left(r)
      BY <2>t, <2>8 DEF Respond, AuditCheckOut, AuditTimeout, AuditInsert, Goto, Left, Types
    <3> QED
      BY <2>t, <2>2, <2>8, <3>1 DEF Respond, AuditCheckOut, AuditTimeout, AuditInsert,
         Goto, Types, stores
  <2>9. ASSUME NEW r \in Requests,
               AuditFails(r) \/ Publish(r) \/ PublishFails(r) \/ Close(r)
        PROVE  A
    <3>1. Left(r)' < Left(r)
      BY <2>t, <2>9 DEF AuditFails, Publish, PublishFails, Close, Goto, Left, Types
    <3> QED
      BY <2>t, <2>2, <2>9, <3>1 DEF AuditFails, Publish, PublishFails, Close, Goto, Types,
         stores
  <2>10. ASSUME Crash PROVE A
    <3>1. \A q \in Requests : /\ q \in InFlight => phase'[q] = "done"
                              /\ q \notin InFlight => phase'[q] = phase[q]
      BY <2>t, <2>10 DEF Crash, Types
    <3>2. committed' = committed /\ InFlight # {} /\ InFlight \subseteq Requests
      BY <2>10 DEF Crash, stores, InFlight
    <3>3. \A q \in InFlight : Left(q)' = 0 /\ Left(q) > 0
      BY <2>t, <3>1, <3>2 DEF Left, InFlight, Types, Phases
    <3>4. \A q \in Requests \ InFlight : Left(q)' = Left(q)
      BY <3>1, <3>2 DEF Left
    <3> QED
      BY <2>1, <3>2, <3>3, <3>4 DEF A
  <2> QED
    BY <1>1, <2>3, <2>4, <2>5, <2>6, <2>7, <2>8, <2>9, <2>10 DEF Next, Advance
<1>2. Trail /\ [Next]_vars => [A]_vars
  <2> HIDE DEF A
  <2> QED
    BY <1>1
<1> QED
  BY <1>2, AlwaysTrail, PTL DEF Spec, EveryStepCounts
=============================================================================
