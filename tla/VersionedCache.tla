--------------------------- MODULE VersionedCache ---------------------------
(***************************************************************************)
(* The versioned Redis cache behind one cached read: get_membership        *)
(* (core/oauth2.py), list_users, list_orgs, list_projects or list_members. *)
(*                                                                         *)
(* A read GETs the version keys of its view one after the other (a missing *)
(* key counts as 1 and is SET to 1), looks up the entry named by the       *)
(* versions, and on a miss queries the database and SETs the entry with a  *)
(* TTL.  A write commits and then INCRs version keys one after the other   *)
(* (core/utils.py).  Every Redis call is an await and so a step.           *)
(*                                                                         *)
(* A version read back from Redis is bytes and enters the entry's name as  *)
(* b'n', while a missing key enters it as the int 1: label n stands for    *)
(* b'n', label 0 for the int 1.  Writes are abstract: the content of a     *)
(* view is the set of writes it reflects.                                  *)
(*                                                                         *)
(* A Redis error or a killed worker ends a handler where it stands.  It is *)
(* a write that takes no further Bump and no Reply, or a read that takes   *)
(* no further step, and needs no action of its own.                        *)
(***************************************************************************)
EXTENDS Naturals, Sequences, FiniteSets

CONSTANTS
  Keys,       \* version keys
  Warm,       \* the version keys that exist from the start
  ViewOrder,  \* the version keys of the view in the order they are read
  Writes,     \* writes that change what the view shows, each done once
  BumpOrder,  \* per write: the version keys it INCRs, in order
  Readers,    \* handler coroutines that serve the view
  Nil

ASSUME ViewAssumption  == ViewOrder \in Seq(Keys) /\ ViewOrder # <<>>
ASSUME BumpAssumption  == BumpOrder \in [Writes -> Seq(Keys)]
ASSUME WarmAssumption  == Warm \subseteq Keys
ASSUME NilIsNoSet      == \A s \in SUBSET Writes : s # Nil

VARIABLES
  version,       \* Redis: the version keys, 0 while missing
  cache,         \* Redis: the entries of the view
  committed,     \* database: the writes committed so far
  bumps,         \* per write: how many of its INCRs are done
  stamp,         \* history: the value each INCR returned, 0 if not done
  acknowledged,  \* the writes whose handler has replied
  pc,            \* per reader: "idle", "get", "set", "lookup", "query", "fill"
  pos,           \* per reader: index into ViewOrder
  label,         \* per reader: the versions it has read
  seen,          \* per reader: what its query returned
  must,          \* per reader: the writes acknowledged before it began
  answer         \* per reader: what its last answer reflects

redis  == <<version, cache>>
writes == <<committed, bumps, stamp, acknowledged>>
reads  == <<pc, pos, label, seen, must, answer>>
vars   == <<redis, writes, reads>>

ViewKeys == {ViewOrder[i] : i \in 1..Len(ViewOrder)}
NoLabel  == [k \in ViewKeys |-> 0]

Init ==
  /\ version = [k \in Keys |-> IF k \in Warm THEN 1 ELSE 0]
  /\ cache = {}
  /\ committed = {}
  /\ bumps = [w \in Writes |-> 0]
  /\ stamp = [w \in Writes |-> [k \in Keys |-> 0]]
  /\ acknowledged = {}
  /\ pc = [r \in Readers |-> "idle"]
  /\ pos = [r \in Readers |-> 1]
  /\ label = [r \in Readers |-> NoLabel]
  /\ seen = [r \in Readers |-> {}]
  /\ must = [r \in Readers |-> Nil]
  /\ answer = [r \in Readers |-> Nil]

-----------------------------------------------------------------------------
(* Writes: a mutating handler from its COMMIT to its reply.                *)

Commit(w) ==
  /\ w \notin committed
  /\ committed' = committed \cup {w}
  /\ UNCHANGED <<redis, bumps, stamp, acknowledged, reads>>

\* Mutant: the INCR is issued before the COMMIT.
BumpBeforeCommit(w) ==
  LET k == BumpOrder[w][bumps[w] + 1] IN
  /\ bumps[w] < Len(BumpOrder[w])
  /\ version' = [version EXCEPT ![k] = @ + 1]
  /\ bumps' = [bumps EXCEPT ![w] = @ + 1]
  /\ stamp' = [stamp EXCEPT ![w][k] = version[k] + 1]
  /\ UNCHANGED <<cache, committed, acknowledged, reads>>

\* redis.incr: a missing key becomes 1.
Bump(w) ==
  LET k == BumpOrder[w][bumps[w] + 1] IN
  /\ w \in committed
  /\ bumps[w] < Len(BumpOrder[w])
  /\ version' = [version EXCEPT ![k] = @ + 1]
  /\ bumps' = [bumps EXCEPT ![w] = @ + 1]
  /\ stamp' = [stamp EXCEPT ![w][k] = version[k] + 1]
  /\ UNCHANGED <<cache, committed, acknowledged, reads>>

Reply(w) ==
  /\ w \in committed \ acknowledged
  /\ bumps[w] = Len(BumpOrder[w])
  /\ acknowledged' = acknowledged \cup {w}
  /\ UNCHANGED <<redis, committed, bumps, stamp, reads>>

-----------------------------------------------------------------------------
(* Reads.                                                                  *)

Begin(r) ==
  /\ pc[r] = "idle"
  /\ pc' = [pc EXCEPT ![r] = "get"]
  /\ must' = [must EXCEPT ![r] = acknowledged]
  /\ answer' = [answer EXCEPT ![r] = Nil]
  /\ UNCHANGED <<redis, writes, pos, label, seen>>

\* Mutant: goes on to a key beyond the last one.
AdvanceTooFar(r) ==
  /\ pc' = [pc EXCEPT ![r] = "get"]
  /\ pos' = [pos EXCEPT ![r] = @ + 1]

\* Go on to the next version key, or to the entry.
Advance(r) ==
  IF pos[r] < Len(ViewOrder)
    THEN /\ pc' = [pc EXCEPT ![r] = "get"]
         /\ pos' = [pos EXCEPT ![r] = @ + 1]
    ELSE /\ pc' = [pc EXCEPT ![r] = "lookup"]
         /\ UNCHANGED pos

\* redis.get(version_key)
GetVersion(r) ==
  LET k == ViewOrder[pos[r]] IN
  /\ pc[r] = "get"
  /\ label' = [label EXCEPT ![r][k] = version[k]]
  /\ IF version[k] = 0
       THEN pc' = [pc EXCEPT ![r] = "set"] /\ UNCHANGED pos
       ELSE Advance(r)
  /\ UNCHANGED <<redis, writes, seen, must, answer>>

\* redis.set(version_key, 1), whatever the key holds by now.
SetVersion(r) ==
  /\ pc[r] = "set"
  /\ version' = [version EXCEPT ![ViewOrder[pos[r]]] = 1]
  /\ Advance(r)
  /\ UNCHANGED <<cache, writes, label, seen, must, answer>>

\* The handler returns; its local variables are gone.
AnswerWith(r, s) ==
  /\ answer' = [answer EXCEPT ![r] = s]
  /\ pc' = [pc EXCEPT ![r] = "idle"]
  /\ must' = [must EXCEPT ![r] = Nil]
  /\ pos' = [pos EXCEPT ![r] = 1]
  /\ label' = [label EXCEPT ![r] = NoLabel]
  /\ seen' = [seen EXCEPT ![r] = {}]

Hit(r) ==
  /\ pc[r] = "lookup"
  /\ \E e \in cache : e.label = label[r] /\ AnswerWith(r, e.seen)
  /\ UNCHANGED <<redis, writes>>

Miss(r) ==
  /\ pc[r] = "lookup"
  /\ \A e \in cache : e.label # label[r]
  /\ pc' = [pc EXCEPT ![r] = "query"]
  /\ UNCHANGED <<redis, writes, pos, label, seen, must, answer>>

\* The SELECT that supplies the content.
Query(r) ==
  /\ pc[r] = "query"
  /\ seen' = [seen EXCEPT ![r] = committed]
  /\ pc' = [pc EXCEPT ![r] = "fill"]
  /\ UNCHANGED <<redis, writes, pos, label, must, answer>>

\* Mutant: the entry is named by the versions as they are after the query.
FillUnderNewVersion(r) ==
  LET l == [k \in ViewKeys |-> version[k]] IN
  /\ pc[r] = "fill"
  /\ cache' = {e \in cache : e.label # l} \cup {[label |-> l, seen |-> seen[r]]}
  /\ AnswerWith(r, seen[r])
  /\ UNCHANGED <<version, writes>>

\* redis.set(cache_key, ..., ex=60 * 5)
Fill(r) ==
  /\ pc[r] = "fill"
  /\ cache' = {e \in cache : e.label # label[r]}
                \cup {[label |-> label[r], seen |-> seen[r]]}
  /\ AnswerWith(r, seen[r])
  /\ UNCHANGED <<version, writes>>

\* An empty result is answered (403, 404) without being cached.
AnswerEmpty(r) ==
  /\ pc[r] = "fill"
  /\ AnswerWith(r, seen[r])
  /\ UNCHANGED <<redis, writes>>

\* Mutant: entries are set without ex.
ExpireNever(l) == (\E e \in cache : e.label = l) /\ FALSE

\* The TTL of the entry under a label runs out.
Expire(l) ==
  /\ \E e \in cache : e.label = l
  /\ cache' = {e \in cache : e.label # l}
  /\ UNCHANGED <<version, writes, reads>>

-----------------------------------------------------------------------------
Next ==
  \/ \E w \in Writes : Commit(w) \/ Bump(w) \/ Reply(w)
  \/ \E r \in Readers :
       \/ Begin(r) \/ GetVersion(r) \/ SetVersion(r) \/ Hit(r) \/ Miss(r)
       \/ Query(r) \/ Fill(r) \/ AnswerEmpty(r)
  \/ \E e \in cache : Expire(e.label)

Spec == Init /\ [][Next]_vars

\* A write INCRs a key at most once and a read SETs it to 1: no label exceeds
\* this bound.
Labels == [ViewKeys -> 0..(1 + Cardinality(Writes))]

\* Redis expires what it was told to; nothing is assumed of the handlers.
FairSpec == Spec /\ \A l \in Labels : WF_vars(Expire(l))

-----------------------------------------------------------------------------
(* Properties.                                                             *)

\* Redis, the database and every coroutine hold what the code puts there.
TypeOK ==
  /\ version \in [Keys -> Nat]
  /\ cache \subseteq [label : [ViewKeys -> Nat], seen : SUBSET Writes]
  /\ committed \subseteq Writes
  /\ bumps \in [Writes -> Nat]
  /\ \A w \in Writes : bumps[w] \in 0..Len(BumpOrder[w])
  /\ stamp \in [Writes -> [Keys -> Nat]]
  /\ acknowledged \subseteq Writes
  /\ pc \in [Readers -> {"idle", "get", "set", "lookup", "query", "fill"}]
  /\ pos \in [Readers -> 1..Len(ViewOrder)]
  /\ label \in [Readers -> [ViewKeys -> Nat]]
  /\ seen \in [Readers -> SUBSET Writes]
  /\ must \in [Readers -> {Nil} \cup SUBSET Writes]
  /\ answer \in [Readers -> {Nil} \cup SUBSET Writes]

\* A write whose INCR of a key of the view is done has outdated every entry
\* that does not reflect it: the entry's version of that key is an older one,
\* although reads take their versions, query and fill in steps of their own.
StaleEntriesAreUnreachable ==
  \A e \in cache, w \in Writes, k \in ViewKeys :
    w \notin e.seen /\ stamp[w][k] > 0 => e.label[k] < stamp[w][k]

Promise == INSTANCE CachePromise WITH
  Writes <- Writes, Readers <- Readers, Nil <- Nil, committed <- committed,
  acknowledged <- acknowledged, must <- must, answer <- answer

\* A read that starts after a mutating handler has replied reflects its
\* write, and no read reflects what was not committed
\* (invalidate_redis_keys_*, and the test flows that list after each change).
Implements == Promise!Spec

\* No SET of a version key to 1 undoes an INCR that came in between: the
\* condition under which Implements is proved.
NoneSetBack == \A k \in Keys : version[k] <= version'[k]
VersionsGrow == [][NoneSetBack]_vars

\* Whatever invalidations are missing or lost, once the writes are over no
\* entry is outdated for ever (ex=60*5 on every entry).
StaleEntriesExpire ==
  <>[](committed = Writes) => <>[](\A e \in cache : e.seen = Writes)
=============================================================================
