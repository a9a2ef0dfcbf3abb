---------------------------- MODULE CacheProofs ----------------------------
(***************************************************************************)
(* VersionedCache implements CachePromise, for any view, any number of     *)
(* reads and writes and any interleaving of their Redis calls, under two   *)
(* conditions: no SET of a version key undoes an INCR (VersionsGrow, which *)
(* holds wherever the keys exist from the start), and every write INCRs a  *)
(* key the view reads.  At the end the second is discharged for the cached *)
(* reads the API has, from the tables of CachedViews.                      *)
(***************************************************************************)
EXTENDS CachedViews, TLAPS

\* Every write invalidates the view through some key.
Covered ==
  \A w \in Writes : \E i \in 1..Len(BumpOrder[w]) : BumpOrder[w][i] \in ViewKeys

-----------------------------------------------------------------------------
(* Typing.                                                                 *)

\* The keys a coroutine works with are version keys.
LEMMA KeysTyped ==
  /\ Len(ViewOrder) \in Nat /\ Len(ViewOrder) >= 1
  /\ \A i \in 1..Len(ViewOrder) : ViewOrder[i] \in Keys /\ ViewOrder[i] \in ViewKeys
  /\ ViewKeys \subseteq Keys
  /\ \A w \in Writes : /\ Len(BumpOrder[w]) \in Nat
                       /\ \A i \in 1..Len(BumpOrder[w]) : BumpOrder[w][i] \in Keys
<1>1. Len(ViewOrder) \in Nat /\ Len(ViewOrder) >= 1
  BY ViewAssumption
<1>2. \A i \in 1..Len(ViewOrder) : ViewOrder[i] \in Keys /\ ViewOrder[i] \in ViewKeys
  BY ViewAssumption DEF ViewKeys
<1>3. ViewKeys \subseteq Keys
  BY <1>2 DEF ViewKeys
<1>4. ASSUME NEW w \in Writes
      PROVE  /\ Len(BumpOrder[w]) \in Nat
             /\ \A i \in 1..Len(BumpOrder[w]) : BumpOrder[w][i] \in Keys
  <2>1. BumpOrder[w] \in Seq(Keys)
    BY BumpAssumption
  <2>2. QED
    BY <2>1
<1>5. QED
  BY <1>1, <1>2, <1>3, <1>4

\* Returning keeps a reader's variables typed.
LEMMA AnswerTyped ==
  ASSUME TypeOK, NEW r \in Readers, NEW s \in SUBSET Writes, AnswerWith(r, s)
  PROVE  /\ pc' \in [Readers -> {"idle", "get", "set", "lookup", "query", "fill"}]
         /\ pos' \in [Readers -> 1..Len(ViewOrder)]
         /\ label' \in [Readers -> [ViewKeys -> Nat]]
         /\ seen' \in [Readers -> SUBSET Writes]
         /\ must' \in [Readers -> {Nil} \cup SUBSET Writes]
         /\ answer' \in [Readers -> {Nil} \cup SUBSET Writes]
  BY KeysTyped DEF TypeOK, AnswerWith, NoLabel

\* Going on to the next key stays within ViewOrder.
LEMMA AdvanceTyped ==
  ASSUME TypeOK, NEW r \in Readers, Advance(r)
  PROVE  /\ pc' \in [Readers -> {"idle", "get", "set", "lookup", "query", "fill"}]
         /\ pos' \in [Readers -> 1..Len(ViewOrder)]
<1>1. Len(ViewOrder) \in Nat /\ pos[r] \in 1..Len(ViewOrder)
  BY KeysTyped DEF TypeOK
<1>2. CASE pos[r] < Len(ViewOrder)
  <2>1. pos[r] + 1 \in 1..Len(ViewOrder)
    BY <1>1, <1>2
  <2>2. QED
    BY <1>2, <2>1 DEF TypeOK, Advance
<1>3. CASE ~(pos[r] < Len(ViewOrder))
  BY <1>3 DEF TypeOK, Advance
<1>4. QED
  BY <1>2, <1>3

\* Every Redis call and every query keeps the types.
LEMMA CacheTypingStep ==
  ASSUME TypeOK, [Next]_vars
  PROVE  TypeOK'
<1>1. ASSUME NEW w \in Writes, Commit(w)
      PROVE  TypeOK'
  BY <1>1 DEF TypeOK, Commit, redis, reads
<1>2. ASSUME NEW w \in Writes, Bump(w)
      PROVE  TypeOK'
  <2> DEFINE k == BumpOrder[w][bumps[w] + 1]
  <2>1. bumps[w] \in Nat /\ bumps[w] + 1 \in 1..Len(BumpOrder[w])
    BY <1>2, KeysTyped DEF TypeOK, Bump
  <2>2. k \in Keys
    BY <2>1, KeysTyped
  <2>3. version[k] + 1 \in Nat
    BY <2>2 DEF TypeOK
  <2>4. version' \in [Keys -> Nat]
    BY <1>2, <2>2, <2>3 DEF TypeOK, Bump
  <2>5. stamp' \in [Writes -> [Keys -> Nat]]
    BY <1>2, <2>2, <2>3 DEF TypeOK, Bump
  <2>6. /\ bumps' \in [Writes -> Nat]
        /\ \A v \in Writes : bumps'[v] \in 0..Len(BumpOrder[v])
    BY <1>2, <2>1, KeysTyped DEF TypeOK, Bump
  <2>7. QED
    BY <1>2, <2>4, <2>5, <2>6 DEF TypeOK, Bump, reads
<1>3. ASSUME NEW w \in Writes, Reply(w)
      PROVE  TypeOK'
  BY <1>3 DEF TypeOK, Reply, redis, reads
<1>4. ASSUME NEW r \in Readers, Begin(r)
      PROVE  TypeOK'
  BY <1>4 DEF TypeOK, Begin, redis, writes
<1>5. ASSUME NEW r \in Readers, GetVersion(r)
      PROVE  TypeOK'
  <2> DEFINE k == ViewOrder[pos[r]]
  <2>1. k \in ViewKeys /\ version[k] \in Nat
    BY KeysTyped DEF TypeOK
  <2>2. label' \in [Readers -> [ViewKeys -> Nat]]
    BY <1>5, <2>1 DEF TypeOK, GetVersion
  <2>3. /\ pc' \in [Readers -> {"idle", "get", "set", "lookup", "query", "fill"}]
        /\ pos' \in [Readers -> 1..Len(ViewOrder)]
    <3>1. CASE version[k] = 0
      BY <1>5, <3>1 DEF TypeOK, GetVersion
    <3>2. CASE version[k] # 0
      BY <1>5, <3>2, AdvanceTyped DEF GetVersion
    <3>3. QED
      BY <3>1, <3>2
  <2>4. QED
    BY <1>5, <2>2, <2>3 DEF TypeOK, GetVersion, redis, writes
<1>6. ASSUME NEW r \in Readers, SetVersion(r)
      PROVE  TypeOK'
  <2>1. version' \in [Keys -> Nat]
    BY <1>6 DEF TypeOK, SetVersion
  <2>2. QED
    BY <1>6, <2>1, AdvanceTyped DEF TypeOK, SetVersion, writes
<1>7. ASSUME NEW r \in Readers, Hit(r)
      PROVE  TypeOK'
  <2>1. PICK e \in cache : AnswerWith(r, e.seen)
    BY <1>7 DEF Hit
  <2>2. e.seen \in SUBSET Writes
    BY DEF TypeOK
  <2>3. QED
    BY <1>7, <2>1, <2>2, AnswerTyped DEF TypeOK, Hit, redis, writes
<1>8. ASSUME NEW r \in Readers, Miss(r)
      PROVE  TypeOK'
  BY <1>8 DEF TypeOK, Miss, redis, writes
<1>9. ASSUME NEW r \in Readers, Query(r)
      PROVE  TypeOK'
  BY <1>9 DEF TypeOK, Query, redis, writes
<1>10. ASSUME NEW r \in Readers, Fill(r)
       PROVE  TypeOK'
  <2>1. cache' \subseteq [label : [ViewKeys -> Nat], seen : SUBSET Writes]
    BY <1>10 DEF TypeOK, Fill
  <2>2. seen[r] \in SUBSET Writes
    BY DEF TypeOK
  <2>3. QED
    BY <1>10, <2>1, <2>2, AnswerTyped DEF TypeOK, Fill, writes
<1>11. ASSUME NEW r \in Readers, AnswerEmpty(r)
       PROVE  TypeOK'
  <2>1. seen[r] \in SUBSET Writes
    BY DEF TypeOK
  <2>2. QED
    BY <1>11, <2>1, AnswerTyped DEF TypeOK, AnswerEmpty, redis, writes
<1>12. ASSUME NEW e \in cache, Expire(e.label)
       PROVE  TypeOK'
  BY <1>12 DEF TypeOK, Expire, writes, reads
<1>13. CASE UNCHANGED vars
  BY <1>13 DEF TypeOK, vars, redis, writes, reads
<1>14. QED
  BY <1>1, <1>2, <1>3, <1>4, <1>5, <1>6, <1>7, <1>8, <1>9, <1>10, <1>11,
     <1>12, <1>13 DEF Next

\* TypeOK for every instance, cold keys included: labels, entries and
\* versions stay what the code makes them.
THEOREM CacheTyping == Spec => []TypeOK
<1>1. Init => TypeOK
  BY KeysTyped DEF Init, TypeOK, NoLabel
<1>2. TypeOK /\ [Next]_vars => TypeOK'
  BY CacheTypingStep
<1>3. QED
  BY <1>1, <1>2, PTL DEF Spec

-----------------------------------------------------------------------------
(* Versions and stamps.                                                    *)

\* The stamps of a write are there for the INCRs it has done, and no version
\* has fallen below one of them.
Stamped ==
  /\ \A w \in Writes, k \in Keys : stamp[w][k] <= version[k]
  /\ \A w \in Writes, k \in Keys : stamp[w][k] > 0 => w \in committed
  /\ \A w \in Writes : \A i \in 1..bumps[w] : stamp[w][BumpOrder[w][i]] > 0
  /\ \A w \in acknowledged : w \in committed /\ bumps[w] = Len(BumpOrder[w])

\* The reader has the version of this key.
Got(r, k) ==
  \/ pc[r] \in {"lookup", "query", "fill"}
  \/ pc[r] = "get" /\ \E i \in 1..(pos[r] - 1) : ViewOrder[i] = k
  \/ pc[r] = "set" /\ \E i \in 1..pos[r] : ViewOrder[i] = k

\* What each reader has read, in relation to the writes.
ReadersInOrder ==
  \A r \in Readers :
    /\ \A k \in ViewKeys : label[r][k] <= version[k]
    /\ pc[r] = "idle" <=> must[r] = Nil
    /\ pc[r] = "idle" => pos[r] = 1
    /\ must[r] # Nil => must[r] \subseteq acknowledged
    /\ must[r] # Nil => \A w \in must[r], k \in ViewKeys :
                          Got(r, k) => stamp[w][k] <= label[r][k]
    /\ pc[r] = "fill" =>
         /\ must[r] \subseteq seen[r]
         /\ seen[r] \subseteq committed
         /\ \A w \in Writes \ seen[r], k \in ViewKeys :
              stamp[w][k] > 0 => label[r][k] < stamp[w][k]

EntriesInOrder ==
  \A e \in cache :
    /\ e.seen \subseteq committed
    /\ \A k \in ViewKeys : e.label[k] <= version[k]
    /\ \A w \in Writes \ e.seen, k \in ViewKeys :
         stamp[w][k] > 0 => e.label[k] < stamp[w][k]

CacheInv == TypeOK /\ Stamped /\ ReadersInOrder /\ EntriesInOrder

\* What one INCR does.
LEMMA BumpFacts ==
  ASSUME TypeOK, NEW w \in Writes, Bump(w)
  PROVE  LET k == BumpOrder[w][bumps[w] + 1] IN
         /\ k \in Keys
         /\ bumps[w] \in Nat /\ bumps[w] < Len(BumpOrder[w])
         /\ version'[k] = version[k] + 1
         /\ \A j \in Keys \ {k} : version'[j] = version[j]
         /\ bumps'[w] = bumps[w] + 1
         /\ \A v \in Writes \ {w} : bumps'[v] = bumps[v]
         /\ stamp'[w][k] = version[k] + 1
         /\ \A v \in Writes, j \in Keys : v # w \/ j # k => stamp'[v][j] = stamp[v][j]
<1> DEFINE k == BumpOrder[w][bumps[w] + 1]
<1>1. bumps[w] \in Nat /\ bumps[w] + 1 \in 1..Len(BumpOrder[w])
  BY KeysTyped DEF TypeOK, Bump
<1>2. k \in Keys
  BY <1>1, KeysTyped
<1>3. /\ version' = [version EXCEPT ![k] = @ + 1]
      /\ bumps' = [bumps EXCEPT ![w] = @ + 1]
      /\ stamp' = [stamp EXCEPT ![w][k] = version[k] + 1]
      /\ w \in committed /\ bumps[w] < Len(BumpOrder[w])
  BY DEF Bump
<1> HIDE DEF k
<1>4. /\ version'[k] = version[k] + 1
      /\ \A j \in Keys \ {k} : version'[j] = version[j]
  BY <1>2, <1>3 DEF TypeOK
<1>5. /\ bumps'[w] = bumps[w] + 1
      /\ \A v \in Writes \ {w} : bumps'[v] = bumps[v]
  BY <1>3 DEF TypeOK
<1>6. /\ stamp'[w][k] = version[k] + 1
      /\ \A v \in Writes, j \in Keys : v # w \/ j # k => stamp'[v][j] = stamp[v][j]
  <2>1. stamp \in [Writes -> [Keys -> Nat]]
    BY DEF TypeOK
  <2>2. QED
    BY <1>2, <1>3, <2>1
<1>7. QED
  BY <1>1, <1>2, <1>3, <1>4, <1>5, <1>6 DEF k

\* Versions and stamps stay in step.
LEMMA StampedStep ==
  ASSUME TypeOK, Stamped, [Next]_vars, [NoneSetBack]_vars
  PROVE  Stamped'
<1>1. ASSUME NEW w \in Writes, Commit(w)
      PROVE  Stamped'
  BY <1>1 DEF Stamped, Commit, redis, reads
<1>2. ASSUME NEW w \in Writes, Bump(w)
      PROVE  Stamped'
  <2> DEFINE k == BumpOrder[w][bumps[w] + 1]
  <2>1. /\ k \in Keys
        /\ bumps[w] \in Nat /\ bumps[w] < Len(BumpOrder[w])
        /\ version'[k] = version[k] + 1
        /\ \A j \in Keys \ {k} : version'[j] = version[j]
        /\ bumps'[w] = bumps[w] + 1
        /\ \A v \in Writes \ {w} : bumps'[v] = bumps[v]
        /\ stamp'[w][k] = version[k] + 1
        /\ \A v \in Writes, j \in Keys : v # w \/ j # k => stamp'[v][j] = stamp[v][j]
    BY <1>2, BumpFacts
  <2>2. /\ w \in committed
        /\ UNCHANGED <<committed, acknowledged>>
    BY <1>2 DEF Bump
  <2>3. /\ version \in [Keys -> Nat]
        /\ stamp \in [Writes -> [Keys -> Nat]]
        /\ bumps \in [Writes -> Nat]
    BY DEF TypeOK
  <2>4. /\ \A v \in Writes : \A i \in 1..bumps[v] : BumpOrder[v][i] \in Keys
    BY KeysTyped DEF TypeOK
  <2>6. \A v \in Writes, j \in Keys : stamp'[v][j] <= version'[j]
    <3> TAKE v \in Writes, j \in Keys
    <3>1. stamp[v][j] <= version[j] /\ version[j] \in Nat /\ stamp[v][j] \in Nat
      BY <2>3 DEF Stamped
    <3> HIDE DEF k
    <3>2. CASE j = k
      BY <2>1, <3>1, <3>2
    <3>3. CASE j # k
      BY <2>1, <3>1, <3>3
    <3>4. QED
      BY <3>2, <3>3
  <2>7. \A v \in Writes, j \in Keys : stamp'[v][j] > 0 => v \in committed'
    <3> TAKE v \in Writes, j \in Keys
    <3>1. CASE v = w
      BY <2>2, <3>1
    <3>2. CASE v # w
      BY <2>1, <2>2, <3>2 DEF Stamped
    <3>3. QED
      BY <3>1, <3>2
  <2>8. \A v \in Writes : \A i \in 1..bumps'[v] : stamp'[v][BumpOrder[v][i]] > 0
    <3> TAKE v \in Writes
    <3> TAKE i \in 1..bumps'[v]
    <3>1. CASE v # w
      BY <2>1, <2>3, <2>4, <3>1 DEF Stamped
    <3>2. CASE v = w /\ i = bumps[w] + 1
      <4>1. version[k] + 1 > 0
        BY <2>1, <2>3
      <4>2. QED
        BY <2>1, <3>2, <4>1
    <3>3. CASE v = w /\ i # bumps[w] + 1
      <4>1. i \in 1..bumps[w]
        BY <2>1, <3>3
      <4>2. stamp[w][BumpOrder[w][i]] > 0 /\ BumpOrder[w][i] \in Keys
        BY <2>4, <4>1 DEF Stamped
      <4>3. version[k] + 1 > 0
        BY <2>1, <2>3
      <4>4. QED
        BY <2>1, <3>3, <4>2, <4>3
    <3>4. QED
      BY <3>1, <3>2, <3>3
  <2>9. \A v \in acknowledged' : v \in committed' /\ bumps'[v] = Len(BumpOrder[v])
    BY <2>1, <2>2 DEF Stamped, TypeOK
  <2>10. QED
    BY <2>6, <2>7, <2>8, <2>9 DEF Stamped
<1>3. ASSUME NEW w \in Writes, Reply(w)
      PROVE  Stamped'
  BY <1>3 DEF Stamped, Reply, redis, reads
<1>4. ASSUME NEW r \in Readers, SetVersion(r)
      PROVE  Stamped'
  <2>1. UNCHANGED writes /\ NoneSetBack
    BY <1>4 DEF SetVersion, vars, redis, reads, Advance, NoneSetBack, TypeOK
  <2>2. ASSUME NEW w \in Writes, NEW k \in Keys
        PROVE  stamp[w][k] <= version'[k]
    <3>1. version' \in [Keys -> Nat]
      BY CacheTypingStep DEF TypeOK
    <3>2. stamp[w][k] <= version[k] /\ version[k] <= version'[k]
      BY <2>1 DEF Stamped, NoneSetBack
    <3>3. stamp[w][k] \in Nat /\ version[k] \in Nat /\ version'[k] \in Nat
      BY <3>1 DEF TypeOK
    <3>4. QED
      BY <3>2, <3>3
  <2>3. QED
    BY <2>1, <2>2 DEF Stamped, writes
<1>5. ASSUME NEW r \in Readers,
             \/ Begin(r) \/ GetVersion(r) \/ Hit(r) \/ Miss(r) \/ Query(r)
             \/ Fill(r) \/ AnswerEmpty(r)
      PROVE  Stamped'
  <2>1. UNCHANGED <<version, writes>>
    BY <1>5 DEF Begin, GetVersion, Hit, Miss, Query, Fill, AnswerEmpty, redis
  <2>2. QED
    BY <2>1 DEF Stamped, writes
<1>7. ASSUME NEW e \in cache, Expire(e.label)
      PROVE  Stamped'
  BY <1>7 DEF Expire, Stamped, writes, reads
<1>8. CASE UNCHANGED vars
  BY <1>8 DEF Stamped, vars, redis, writes, reads
<1>9. QED
  BY <1>1, <1>2, <1>3, <1>4, <1>5, <1>7, <1>8 DEF Next

\* After the last INCR of a write that covers the view, and before it was
\* even committed: what the stamps tell a reader.
LEMMA StampOfAcknowledged ==
  ASSUME TypeOK, Stamped, Covered, NEW w \in acknowledged
  PROVE  \E k \in ViewKeys : stamp[w][k] > 0
<1>1. w \in Writes /\ bumps[w] = Len(BumpOrder[w])
  BY DEF TypeOK, Stamped
<1>2. PICK i \in 1..Len(BumpOrder[w]) : BumpOrder[w][i] \in ViewKeys
  BY <1>1 DEF Covered
<1>3. QED
  BY <1>1, <1>2 DEF Stamped

\* An INCR leaves what readers and entries know intact: the stamps of the
\* acknowledged writes do not change, and the new stamp is above every label.
LEMMA BumpKeepsOrder ==
  ASSUME TypeOK, Stamped, ReadersInOrder, EntriesInOrder,
         NEW w \in Writes, Bump(w)
  PROVE  ReadersInOrder' /\ EntriesInOrder'
<1> DEFINE k == BumpOrder[w][bumps[w] + 1]
<1>1. /\ k \in Keys
      /\ bumps[w] \in Nat /\ bumps[w] < Len(BumpOrder[w])
      /\ version'[k] = version[k] + 1
      /\ \A j \in Keys \ {k} : version'[j] = version[j]
      /\ stamp'[w][k] = version[k] + 1
      /\ \A v \in Writes, j \in Keys : v # w \/ j # k => stamp'[v][j] = stamp[v][j]
  BY BumpFacts
<1>2. w \notin acknowledged
  BY <1>1 DEF Stamped
<1>3. UNCHANGED <<cache, committed, acknowledged, reads>>
  BY DEF Bump
<1>4. /\ version \in [Keys -> Nat]
      /\ stamp \in [Writes -> [Keys -> Nat]]
      /\ ViewKeys \subseteq Keys
      /\ label \in [Readers -> [ViewKeys -> Nat]]
      /\ acknowledged \subseteq Writes
      /\ seen \in [Readers -> SUBSET Writes]
      /\ must \in [Readers -> {Nil} \cup SUBSET Writes]
      /\ cache \subseteq [label : [ViewKeys -> Nat], seen : SUBSET Writes]
  BY KeysTyped DEF TypeOK
<1> HIDE DEF k
<1>5. \A j \in Keys, n \in Nat : n <= version[j] => n <= version'[j]
  BY <1>1, <1>4
<1>6. \A v \in acknowledged, j \in Keys : stamp'[v][j] = stamp[v][j]
  BY <1>1, <1>2, <1>4
\* A label that was below the old stamp, or is no newer than the version the
\* INCR found, is below the new stamp.
<1>7. ASSUME NEW v \in Writes, NEW j \in ViewKeys, NEW n \in Nat,
             n <= version[j], stamp[v][j] > 0 => n < stamp[v][j]
      PROVE  stamp'[v][j] > 0 => n < stamp'[v][j]
  <2>1. CASE v = w /\ j = k
    BY <1>1, <1>4, <1>7, <2>1
  <2>2. CASE ~(v = w /\ j = k)
    BY <1>1, <1>4, <1>7, <2>2
  <2>3. QED
    BY <2>1, <2>2
<1>8. EntriesInOrder'
  <2> SUFFICES ASSUME NEW e \in cache
               PROVE  /\ e.seen \subseteq committed
                      /\ \A j \in ViewKeys : e.label[j] <= version'[j]
                      /\ \A v \in Writes \ e.seen, j \in ViewKeys :
                           stamp'[v][j] > 0 => e.label[j] < stamp'[v][j]
    BY <1>3 DEF EntriesInOrder
  <2>1. e.label \in [ViewKeys -> Nat]
    BY <1>4
  <2>2. /\ e.seen \subseteq committed
        /\ \A j \in ViewKeys : e.label[j] <= version[j]
        /\ \A v \in Writes \ e.seen, j \in ViewKeys :
             stamp[v][j] > 0 => e.label[j] < stamp[v][j]
    BY DEF EntriesInOrder
  <2>3. QED
    BY <1>4, <1>5, <1>7, <2>1, <2>2
<1>9. ReadersInOrder'
  <2> SUFFICES ASSUME NEW r \in Readers
               PROVE  /\ \A j \in ViewKeys : label[r][j] <= version'[j]
                      /\ pc[r] = "idle" <=> must[r] = Nil
                      /\ pc[r] = "idle" => pos[r] = 1
                      /\ must[r] # Nil => must[r] \subseteq acknowledged
                      /\ must[r] # Nil => \A v \in must[r], j \in ViewKeys :
                                            Got(r, j) => stamp'[v][j] <= label[r][j]
                      /\ pc[r] = "fill" =>
                           /\ must[r] \subseteq seen[r]
                           /\ seen[r] \subseteq committed
                           /\ \A v \in Writes \ seen[r], j \in ViewKeys :
                                stamp'[v][j] > 0 => label[r][j] < stamp'[v][j]
    BY <1>3 DEF ReadersInOrder, Got, reads
  <2>1. label[r] \in [ViewKeys -> Nat]
    BY <1>4
  <2>2. /\ \A j \in ViewKeys : label[r][j] <= version[j]
        /\ pc[r] = "idle" <=> must[r] = Nil
        /\ pc[r] = "idle" => pos[r] = 1
        /\ must[r] # Nil => must[r] \subseteq acknowledged
        /\ must[r] # Nil => \A v \in must[r], j \in ViewKeys :
                              Got(r, j) => stamp[v][j] <= label[r][j]
        /\ pc[r] = "fill" =>
             /\ must[r] \subseteq seen[r]
             /\ seen[r] \subseteq committed
             /\ \A v \in Writes \ seen[r], j \in ViewKeys :
                  stamp[v][j] > 0 => label[r][j] < stamp[v][j]
    BY DEF ReadersInOrder
  <2>3. \A j \in ViewKeys : label[r][j] <= version'[j]
    BY <1>4, <1>5, <2>1, <2>2
  <2>4. must[r] # Nil => \A v \in must[r], j \in ViewKeys :
                          Got(r, j) => stamp'[v][j] <= label[r][j]
    BY <1>4, <1>6, <2>2
  <2>5. pc[r] = "fill" => \A v \in Writes \ seen[r], j \in ViewKeys :
                           stamp'[v][j] > 0 => label[r][j] < stamp'[v][j]
    BY <1>7, <2>1, <2>2
  <2>6. QED
    BY <2>2, <2>3, <2>4, <2>5
<1>10. QED
  BY <1>8, <1>9

\* A reader that goes on to the next key has the version of this one.
LEMMA GotAfterAdvance ==
  ASSUME TypeOK, NEW r \in Readers, pc[r] \in {"get", "set"}, Advance(r)
  PROVE  /\ pc'[r] \in {"get", "lookup"}
         /\ \A j \in ViewKeys :
              Got(r, j)' => j = ViewOrder[pos[r]] \/ Got(r, j)
<1>1. pos[r] \in 1..Len(ViewOrder) /\ Len(ViewOrder) \in Nat
  BY KeysTyped DEF TypeOK
<1>2. pc'[r] \in {"get", "lookup"}
  BY DEF Advance, TypeOK
<1>3. ASSUME NEW j \in ViewKeys, Got(r, j)', j # ViewOrder[pos[r]]
      PROVE  Got(r, j)
  <2>1. PICK i \in 1..pos[r] : ViewOrder[i] = j
    <3>1. CASE pos[r] < Len(ViewOrder)
      <4>1. pc'[r] = "get" /\ pos'[r] = pos[r] + 1
        BY <3>1 DEF Advance, TypeOK
      <4>2. QED
        BY <1>1, <1>3, <4>1 DEF Got
    <3>2. CASE ~(pos[r] < Len(ViewOrder))
      BY <1>1, <3>2 DEF ViewKeys
    <3>3. QED
      BY <3>1, <3>2
  <2>2. i \in 1..(pos[r] - 1)
    BY <1>1, <1>3, <2>1
  <2>3. QED
    BY <2>1, <2>2 DEF Got
<1>4. QED
  BY <1>2, <1>3

\* A reader that has read a version has the version of this key: a missing
\* one, which it goes on to SET, counts as 0.
LEMMA GotAfterGet ==
  ASSUME TypeOK, NEW r \in Readers, GetVersion(r)
  PROVE  LET k == ViewOrder[pos[r]] IN
         /\ k \in ViewKeys /\ k \in Keys
         /\ label'[r][k] = version[k]
         /\ \A j \in ViewKeys \ {k} : label'[r][j] = label[r][j]
         /\ pc'[r] \in {"get", "set", "lookup"}
         /\ \A j \in ViewKeys : Got(r, j)' => j = k \/ Got(r, j)
<1> DEFINE k == ViewOrder[pos[r]]
<1>1. /\ k \in ViewKeys /\ k \in Keys /\ pos[r] \in 1..Len(ViewOrder)
      /\ Len(ViewOrder) \in Nat
  BY KeysTyped DEF TypeOK
<1>2. pc[r] = "get" /\ label' = [label EXCEPT ![r][k] = version[k]]
  BY DEF GetVersion
<1>3. /\ label'[r][k] = version[k]
      /\ \A j \in ViewKeys \ {k} : label'[r][j] = label[r][j]
  BY <1>1, <1>2 DEF TypeOK
<1>4. CASE version[k] = 0
  <2>1. pc'[r] = "set" /\ pos'[r] = pos[r]
    BY <1>4 DEF GetVersion, TypeOK
  <2>2. ASSUME NEW j \in ViewKeys, Got(r, j)', j # k
        PROVE  Got(r, j)
    <3>1. PICK i \in 1..pos[r] : ViewOrder[i] = j
      BY <2>1, <2>2 DEF Got
    <3>2. i \in 1..(pos[r] - 1)
      BY <1>1, <2>2, <3>1
    <3>3. QED
      BY <1>2, <3>1, <3>2 DEF Got
  <2>3. QED
    BY <1>1, <1>3, <2>1, <2>2
<1>5. CASE version[k] # 0
  <2>1. Advance(r)
    BY <1>5 DEF GetVersion
  <2>2. /\ pc'[r] \in {"get", "lookup"}
        /\ \A j \in ViewKeys : Got(r, j)' => j = k \/ Got(r, j)
    BY <1>2, <2>1, GotAfterAdvance
  <2>3. QED
    BY <1>1, <1>3, <2>2
<1>6. QED
  BY <1>4, <1>5

\* Reading a version keeps what the readers know in order.
LEMMA GetKeepsOrder ==
  ASSUME TypeOK, Stamped, ReadersInOrder, NEW r \in Readers, GetVersion(r)
  PROVE  ReadersInOrder'
<1> DEFINE k == ViewOrder[pos[r]]
<1>1. /\ k \in ViewKeys /\ k \in Keys
      /\ label'[r][k] = version[k]
      /\ \A j \in ViewKeys \ {k} : label'[r][j] = label[r][j]
      /\ pc'[r] \in {"get", "set", "lookup"}
      /\ \A j \in ViewKeys : Got(r, j)' => j = k \/ Got(r, j)
  BY GotAfterGet
<1>2. /\ UNCHANGED <<redis, writes, seen, must>>
      /\ pc[r] = "get"
      /\ label' = [label EXCEPT ![r][k] = version[k]]
  BY DEF GetVersion
<1>3. \A q \in Readers \ {r} : pc'[q] = pc[q] /\ pos'[q] = pos[q] /\ label'[q] = label[q]
  BY DEF GetVersion, Advance, TypeOK
<1> HIDE DEF k
<1>4. ASSUME NEW q \in Readers, q # r
      PROVE  \A j \in ViewKeys : Got(q, j)' <=> Got(q, j)
  BY <1>3, <1>4 DEF Got
<1>5. version \in [Keys -> Nat] /\ must \in [Readers -> {Nil} \cup SUBSET Writes]
      /\ acknowledged \subseteq Writes
  BY DEF TypeOK
<1>6. \A j \in ViewKeys : label'[r][j] <= version[j]
  BY <1>1, <1>5 DEF ReadersInOrder
<1>7. must[r] # Nil => \A w \in must[r], j \in ViewKeys :
                        Got(r, j)' => stamp[w][j] <= label'[r][j]
  <2> SUFFICES ASSUME must[r] # Nil, NEW w \in must[r], NEW j \in ViewKeys, Got(r, j)'
               PROVE  stamp[w][j] <= label'[r][j]
    OBVIOUS
  <2>1. w \in Writes
    BY <1>5 DEF ReadersInOrder
  <2>2. CASE j = k
    BY <1>1, <2>1, <2>2 DEF Stamped
  <2>3. CASE j # k
    BY <1>1, <2>3 DEF ReadersInOrder
  <2>4. QED
    BY <2>2, <2>3
<1>8. QED
  BY <1>1, <1>2, <1>3, <1>4, <1>6, <1>7 DEF ReadersInOrder, redis, writes

\* So does a SET that takes nothing back: the reader keeps the label it has,
\* and no version falls below anybody's.
LEMMA SetKeepsOrder ==
  ASSUME TypeOK, TypeOK', ReadersInOrder, EntriesInOrder,
         NEW r \in Readers, SetVersion(r), NoneSetBack
  PROVE  ReadersInOrder' /\ EntriesInOrder'
<1>1. /\ pc[r] = "set" /\ Advance(r)
      /\ UNCHANGED <<cache, writes, label, seen, must>>
  BY DEF SetVersion
<1>2. /\ pc'[r] \in {"get", "lookup"}
      /\ \A j \in ViewKeys : Got(r, j)' => j = ViewOrder[pos[r]] \/ Got(r, j)
  BY <1>1, GotAfterAdvance
<1>3. /\ pos[r] \in 1..Len(ViewOrder) /\ Len(ViewOrder) \in Nat
      /\ ViewKeys \subseteq Keys
  BY KeysTyped DEF TypeOK
<1>4. Got(r, ViewOrder[pos[r]])
  BY <1>1, <1>3 DEF Got
<1>5. \A q \in Readers \ {r} : pc'[q] = pc[q] /\ pos'[q] = pos[q]
  BY <1>1 DEF Advance, TypeOK
<1>6. ASSUME NEW q \in Readers, q # r
      PROVE  \A j \in ViewKeys : Got(q, j)' <=> Got(q, j)
  BY <1>5, <1>6 DEF Got
<1>7. \A j \in ViewKeys, n \in Nat : n <= version[j] => n <= version'[j]
  <2> TAKE j \in ViewKeys, n \in Nat
  <2>1. version[j] \in Nat /\ version'[j] \in Nat /\ version[j] <= version'[j]
    BY <1>3 DEF TypeOK, NoneSetBack
  <2>2. QED
    BY <2>1
<1>8. /\ label \in [Readers -> [ViewKeys -> Nat]]
      /\ cache \subseteq [label : [ViewKeys -> Nat], seen : SUBSET Writes]
  BY DEF TypeOK
<1>9. ReadersInOrder'
  <2>1. \A q \in Readers, j \in ViewKeys : label[q][j] <= version'[j]
    BY <1>7, <1>8 DEF ReadersInOrder
  <2>2. QED
    BY <1>1, <1>2, <1>4, <1>5, <1>6, <2>1 DEF ReadersInOrder, writes
<1>10. EntriesInOrder'
  <2>1. \A e \in cache, j \in ViewKeys : e.label[j] <= version'[j]
    BY <1>7, <1>8 DEF EntriesInOrder
  <2>2. QED
    BY <1>1, <2>1 DEF EntriesInOrder, writes
<1>11. QED
  BY <1>9, <1>10

\* Returning, or beginning, leaves a reader with nothing to keep in order.
LEMMA AnswerKeepsOrder ==
  ASSUME TypeOK, Stamped, ReadersInOrder, NEW r \in Readers, NEW s,
         AnswerWith(r, s), UNCHANGED <<version, writes>>
  PROVE  ReadersInOrder'
<1>1. /\ pc'[r] = "idle" /\ must'[r] = Nil /\ pos'[r] = 1
      /\ \A j \in ViewKeys : label'[r][j] = 0
  BY DEF AnswerWith, NoLabel, TypeOK
<1>2. \A q \in Readers \ {r} : /\ pc'[q] = pc[q] /\ pos'[q] = pos[q]
                              /\ label'[q] = label[q] /\ seen'[q] = seen[q]
                              /\ must'[q] = must[q]
  BY DEF AnswerWith, TypeOK
<1>3. ASSUME NEW q \in Readers, q # r
      PROVE  \A j \in ViewKeys : Got(q, j)' <=> Got(q, j)
  BY <1>2, <1>3 DEF Got
<1>4. \A j \in ViewKeys : 0 <= version[j]
  BY KeysTyped DEF TypeOK
<1>5. QED
  BY <1>1, <1>2, <1>3, <1>4 DEF ReadersInOrder, writes

\* The relations between versions, stamps, readers and entries are kept by
\* every step.
LEMMA OrderStep ==
  ASSUME CacheInv, [Next]_vars, [NoneSetBack]_vars
  PROVE  ReadersInOrder' /\ EntriesInOrder'
<1> USE DEF CacheInv
<1>1. ASSUME NEW w \in Writes, Commit(w)
      PROVE  ReadersInOrder' /\ EntriesInOrder'
  <2>1. UNCHANGED <<redis, stamp, acknowledged, reads>> /\ committed \subseteq committed'
    BY <1>1 DEF Commit
  <2>2. QED
    BY <2>1 DEF ReadersInOrder, EntriesInOrder, Got, redis, reads
<1>2. ASSUME NEW w \in Writes, Bump(w)
      PROVE  ReadersInOrder' /\ EntriesInOrder'
  BY <1>2, BumpKeepsOrder
<1>3. ASSUME NEW w \in Writes, Reply(w)
      PROVE  ReadersInOrder' /\ EntriesInOrder'
  <2>1. UNCHANGED <<redis, stamp, committed, reads>> /\ acknowledged \subseteq acknowledged'
    BY <1>3 DEF Reply
  <2>2. QED
    BY <2>1 DEF ReadersInOrder, EntriesInOrder, Got, redis, reads
<1>4. ASSUME UNCHANGED <<redis, writes>> PROVE EntriesInOrder'
  BY <1>4 DEF EntriesInOrder, redis, writes
<1>5. ASSUME NEW r \in Readers, Begin(r)
      PROVE  ReadersInOrder' /\ EntriesInOrder'
  <2>1. pc'[r] = "get" /\ must'[r] = acknowledged /\ pos[r] = pos'[r]
    BY <1>5 DEF Begin, TypeOK
  <2>2. acknowledged # Nil
    BY NilIsNoSet DEF TypeOK
  <2>3. /\ \A q \in Readers \ {r} : pc'[q] = pc[q] /\ must'[q] = must[q]
        /\ UNCHANGED <<redis, writes, pos, label, seen>>
    BY <1>5 DEF Begin, TypeOK
  <2>4. pos[r] = 1
    BY <1>5 DEF Begin, ReadersInOrder
  <2>5. \A j \in ViewKeys : ~Got(r, j)'
    BY <2>1, <2>4 DEF Got
  <2>6. ASSUME NEW q \in Readers, q # r
        PROVE  \A j \in ViewKeys : Got(q, j)' <=> Got(q, j)
    BY <2>3, <2>6 DEF Got
  <2>7. QED
    BY <1>4, <2>1, <2>2, <2>3, <2>5, <2>6 DEF ReadersInOrder, redis, writes
<1>6. ASSUME NEW r \in Readers, GetVersion(r)
      PROVE  ReadersInOrder' /\ EntriesInOrder'
  BY <1>4, <1>6, GetKeepsOrder DEF GetVersion
<1>7. ASSUME NEW r \in Readers, SetVersion(r)
      PROVE  ReadersInOrder' /\ EntriesInOrder'
  <2>1. NoneSetBack
    BY <1>7 DEF SetVersion, vars, redis, reads, NoneSetBack, TypeOK
  <2>2. QED
    BY <1>7, <2>1, CacheTypingStep, SetKeepsOrder
<1>8. ASSUME NEW r \in Readers, Hit(r) \/ AnswerEmpty(r)
      PROVE  ReadersInOrder' /\ EntriesInOrder'
  <2>1. PICK s : AnswerWith(r, s)
    BY <1>8 DEF Hit, AnswerEmpty
  <2>2. UNCHANGED <<redis, writes>>
    BY <1>8 DEF Hit, AnswerEmpty
  <2>3. QED
    BY <1>4, <2>1, <2>2, AnswerKeepsOrder DEF redis
<1>9. ASSUME NEW r \in Readers, Miss(r)
      PROVE  ReadersInOrder' /\ EntriesInOrder'
  <2>1. /\ pc[r] = "lookup" /\ pc'[r] = "query"
        /\ \A q \in Readers \ {r} : pc'[q] = pc[q]
        /\ UNCHANGED <<redis, writes, pos, label, seen, must>>
    BY <1>9 DEF Miss, TypeOK
  <2>2. \A q \in Readers : \A j \in ViewKeys : Got(q, j)' <=> Got(q, j)
    BY <2>1 DEF Got
  <2>3. QED
    BY <1>4, <2>1, <2>2 DEF ReadersInOrder, redis, writes
<1>10. ASSUME NEW r \in Readers, Query(r)
       PROVE  ReadersInOrder' /\ EntriesInOrder'
  <2>1. /\ pc[r] = "query" /\ pc'[r] = "fill" /\ seen'[r] = committed
        /\ \A q \in Readers \ {r} : pc'[q] = pc[q] /\ seen'[q] = seen[q]
        /\ UNCHANGED <<redis, writes, pos, label, must>>
    BY <1>10 DEF Query, TypeOK
  <2>2. \A q \in Readers : \A j \in ViewKeys : Got(q, j)' <=> Got(q, j)
    BY <2>1 DEF Got
  <2>3. must[r] # Nil /\ must[r] \subseteq committed
    BY <2>1 DEF ReadersInOrder, Stamped
  <2>4. \A w \in Writes \ committed, j \in ViewKeys : ~(stamp[w][j] > 0)
    BY KeysTyped DEF Stamped
  <2>5. QED
    BY <1>4, <2>1, <2>2, <2>3, <2>4 DEF ReadersInOrder, redis, writes
<1>11. ASSUME NEW r \in Readers, Fill(r)
       PROVE  ReadersInOrder' /\ EntriesInOrder'
  <2>1. /\ pc[r] = "fill" /\ AnswerWith(r, seen[r])
        /\ UNCHANGED <<version, writes>>
        /\ cache' = {e \in cache : e.label # label[r]}
                      \cup {[label |-> label[r], seen |-> seen[r]]}
    BY <1>11 DEF Fill
  <2>2. ReadersInOrder'
    BY <2>1, AnswerKeepsOrder
  <2>3. EntriesInOrder'
    BY <2>1 DEF EntriesInOrder, ReadersInOrder, writes
  <2>4. QED
    BY <2>2, <2>3
<1>12. ASSUME NEW e \in cache, Expire(e.label)
       PROVE  ReadersInOrder' /\ EntriesInOrder'
  BY <1>12 DEF Expire, ReadersInOrder, EntriesInOrder, Got, writes, reads
<1>13. CASE UNCHANGED vars
  BY <1>13 DEF vars, redis, writes, reads, ReadersInOrder, EntriesInOrder, Got
<1>14. QED
  BY <1>1, <1>2, <1>3, <1>5, <1>6, <1>7, <1>8, <1>9, <1>10, <1>11, <1>12,
     <1>13 DEF Next

\* The invariant holds as long as no version is set back.
THEOREM CacheInductive == Spec /\ VersionsGrow => []CacheInv
<1>1. Init => CacheInv
  <2> SUFFICES ASSUME Init PROVE CacheInv
    OBVIOUS
  <2>1. TypeOK
    BY KeysTyped DEF Init, TypeOK, NoLabel
  <2>2. Stamped
    BY KeysTyped DEF Init, Stamped
  <2>3. ReadersInOrder
    BY KeysTyped DEF Init, ReadersInOrder, NoLabel
  <2>4. EntriesInOrder
    BY DEF Init, EntriesInOrder
  <2>5. QED
    BY <2>1, <2>2, <2>3, <2>4 DEF CacheInv
<1>2. CacheInv /\ [Next]_vars /\ [NoneSetBack]_vars => CacheInv'
  BY CacheTypingStep, StampedStep, OrderStep DEF CacheInv
<1>3. QED
  BY <1>1, <1>2, PTL DEF Spec, VersionsGrow

\* With every key there from the start no read SETs one, and nothing is ever
\* set back.
LEMMA WarmKeysGrow ==
  ASSUME Warm = Keys
  PROVE  Spec => VersionsGrow
<1> DEFINE Set == /\ \A k \in Keys : version[k] > 0
                  /\ \A r \in Readers : pc[r] # "set"
<1>1. Init => Set
  BY DEF Init
<1>2. ASSUME TypeOK, Set, [Next]_vars
      PROVE  Set' /\ NoneSetBack
  <2>1. CASE UNCHANGED version
    <3>1. ASSUME NEW r \in Readers, GetVersion(r)
          PROVE  \A q \in Readers : pc'[q] # "set"
      <4>1. version[ViewOrder[pos[r]]] # 0
        BY <1>2, KeysTyped DEF TypeOK
      <4>2. QED
        BY <1>2, <3>1, <4>1 DEF GetVersion, Advance, TypeOK
    <3>2. \A q \in Readers : pc'[q] # "set"
      BY <1>2, <3>1 DEF Next, vars, reads, Commit, Bump, Reply, Begin, SetVersion, Hit,
         Miss, Query, Fill, AnswerEmpty, AnswerWith, Expire, TypeOK
    <3>3. \A k \in Keys : version[k] \in Nat
      BY <1>2 DEF TypeOK
    <3>4. QED
      BY <1>2, <2>1, <3>2, <3>3 DEF NoneSetBack
  <2>2. ASSUME NEW w \in Writes, Bump(w)
        PROVE  Set' /\ NoneSetBack
    <3>1. \A k \in Keys : version'[k] \in {version[k], version[k] + 1}
      BY <1>2, <2>2, BumpFacts
    <3>2. pc' = pc
      BY <2>2 DEF Bump, reads
    <3>3. \A k \in Keys : version[k] \in Nat
      BY <1>2 DEF TypeOK
    <3>4. QED
      BY <1>2, <3>1, <3>2, <3>3 DEF NoneSetBack
  <2>3. QED
    BY <1>2, <2>1, <2>2 DEF Next, vars, redis, Commit, Reply, Begin, GetVersion,
       SetVersion, Hit, Miss, Query, Fill, AnswerEmpty, Expire
<1> HIDE DEF Set
<1>3. QED
  BY <1>1, <1>2, CacheTyping, PTL DEF Spec, VersionsGrow

-----------------------------------------------------------------------------
(* What follows.                                                           *)

\* StaleEntriesAreUnreachable for every view: an INCR outdates every entry
\* that misses its write, those not filled yet included, unless some SET
\* takes an INCR back.
THEOREM UnreachableWhileGrowing ==
  Spec /\ VersionsGrow => []StaleEntriesAreUnreachable
<1>1. CacheInv => StaleEntriesAreUnreachable
  BY DEF CacheInv, EntriesInOrder, StaleEntriesAreUnreachable
<1>2. QED
  BY <1>1, CacheInductive, PTL

\* ... and so for every view whose keys are there from the start.
THEOREM Unreachable ==
  ASSUME Warm = Keys
  PROVE  Spec => []StaleEntriesAreUnreachable
  BY UnreachableWhileGrowing, WarmKeysGrow

\* A reader that hits an entry gets every write acknowledged before it began.
LEMMA HitReflects ==
  ASSUME CacheInv, Covered, NEW r \in Readers, NEW e \in cache,
         pc[r] = "lookup", e.label = label[r]
  PROVE  must[r] # Nil /\ must[r] \subseteq e.seen /\ e.seen \in SUBSET committed
<1> USE DEF CacheInv
<1>1. must[r] # Nil /\ must[r] \subseteq acknowledged
  BY DEF ReadersInOrder
<1>2. e.seen \in SUBSET committed
  BY DEF EntriesInOrder
<1>3. ASSUME NEW w \in must[r], w \notin e.seen
      PROVE  FALSE
  <2>1. w \in acknowledged /\ w \in Writes
    BY <1>1 DEF TypeOK
  <2>2. PICK k \in ViewKeys : stamp[w][k] > 0
    BY <2>1, StampOfAcknowledged
  <2>3. stamp[w][k] <= label[r][k]
    BY <1>1 DEF ReadersInOrder, Got
  <2>4. label[r][k] < stamp[w][k]
    BY <1>3, <2>1, <2>2 DEF EntriesInOrder
  <2>5. stamp[w][k] \in Nat /\ label[r][k] \in Nat
    BY <2>1, KeysTyped DEF TypeOK
  <2>6. QED
    BY <2>3, <2>4, <2>5
<1>4. QED
  BY <1>1, <1>2, <1>3

\* VersionedCache implements CachePromise: as long as no version is set back,
\* and with an invalidation for every write, a read that starts after a write
\* was acknowledged reflects it, for any number of keys, missing ones
\* included, of reads and of writes.
THEOREM RefinementWhileGrowing ==
  ASSUME Covered
  PROVE  Spec /\ VersionsGrow => Implements
<1>1. Init => Promise!Init
  BY DEF Init, Promise!Init
<1>2. CacheInv /\ [Next]_vars => [Promise!Next]_(Promise!vars)
  <2> SUFFICES ASSUME CacheInv, [Next]_vars
               PROVE  Promise!Next \/ UNCHANGED Promise!vars
    OBVIOUS
  <2> USE DEF Promise!Next, Promise!vars
  <2>1. ASSUME NEW w \in Writes, Commit(w)
        PROVE  Promise!Next \/ UNCHANGED Promise!vars
    BY <2>1 DEF Commit, Promise!Commit, reads
  <2>2. ASSUME NEW w \in Writes, Bump(w)
        PROVE  Promise!Next \/ UNCHANGED Promise!vars
    BY <2>2 DEF Bump, reads
  <2>3. ASSUME NEW w \in Writes, Reply(w)
        PROVE  Promise!Next \/ UNCHANGED Promise!vars
    BY <2>3 DEF Reply, Promise!Acknowledge, reads
  <2>4. ASSUME NEW r \in Readers, Begin(r)
        PROVE  Promise!Next \/ UNCHANGED Promise!vars
    BY <2>4 DEF Begin, Promise!Begin, writes, CacheInv, ReadersInOrder
  <2>5. ASSUME NEW r \in Readers, GetVersion(r) \/ SetVersion(r) \/ Miss(r) \/ Query(r)
        PROVE  Promise!Next \/ UNCHANGED Promise!vars
    BY <2>5 DEF GetVersion, SetVersion, Miss, Query, writes
  <2>6. ASSUME NEW r \in Readers, NEW s \in SUBSET committed, AnswerWith(r, s),
               must[r] # Nil, must[r] \subseteq s, UNCHANGED writes
        PROVE  Promise!Next \/ UNCHANGED Promise!vars
    BY <2>6 DEF AnswerWith, Promise!Answer, writes
  <2>7. ASSUME NEW r \in Readers, Hit(r)
        PROVE  Promise!Next \/ UNCHANGED Promise!vars
    <3>1. PICK e \in cache : e.label = label[r] /\ AnswerWith(r, e.seen)
      BY <2>7 DEF Hit
    <3>2. must[r] # Nil /\ must[r] \subseteq e.seen /\ e.seen \in SUBSET committed
      BY <2>7, <3>1, HitReflects DEF Hit
    <3>3. QED
      BY <2>6, <2>7, <3>1, <3>2 DEF Hit
  <2>8. ASSUME NEW r \in Readers, Fill(r) \/ AnswerEmpty(r)
        PROVE  Promise!Next \/ UNCHANGED Promise!vars
    <3>1. /\ must[r] # Nil /\ must[r] \subseteq seen[r]
          /\ seen[r] \in SUBSET committed
      BY <2>8 DEF Fill, AnswerEmpty, CacheInv, ReadersInOrder
    <3>2. QED
      BY <2>6, <2>8, <3>1 DEF Fill, AnswerEmpty
  <2>9. ASSUME NEW e \in cache, Expire(e.label)
        PROVE  Promise!Next \/ UNCHANGED Promise!vars
    BY <2>9 DEF Expire, writes, reads
  <2>10. CASE UNCHANGED vars
    BY <2>10 DEF vars, writes, reads
  <2>11. QED
    BY <2>1, <2>2, <2>3, <2>4, <2>5, <2>7, <2>8, <2>9, <2>10 DEF Next
<1>3. QED
  BY <1>1, <1>2, CacheInductive, PTL DEF Spec, Promise!Spec, Implements

\* With keys that are there from the start nothing is set back: the cache
\* keeps its promise whatever the handlers do.
THEOREM Refinement ==
  ASSUME Warm = Keys, Covered
  PROVE  Spec => Implements
  BY RefinementWhileGrowing, WarmKeysGrow

-----------------------------------------------------------------------------
(* What is left when invalidations are missing, lost or set back.          *)

\* No entry and no reader holds a write that was not committed.
NothingUncommitted ==
  /\ \A e \in cache : e.seen \subseteq committed
  /\ \A r \in Readers : /\ seen[r] \subseteq committed
                        /\ answer[r] # Nil => answer[r] \subseteq committed

\* Whatever the handlers and Redis do, no reader is shown what is not in the
\* database: entries are filled from what the query returned.
THEOREM OnlyCommittedIsShown == Spec => []NothingUncommitted
<1>1. Init => NothingUncommitted
  BY DEF Init, NothingUncommitted
<1>2. ASSUME TypeOK, NothingUncommitted, [Next]_vars
      PROVE  NothingUncommitted'
  <2>1. ASSUME NEW r \in Readers, NEW s \in SUBSET committed,
               AnswerWith(r, s), UNCHANGED committed,
               \A e \in cache' : e \in cache \/ e.seen = s
        PROVE  NothingUncommitted'
    <3>1. /\ answer'[r] = s /\ seen'[r] = {}
          /\ \A q \in Readers \ {r} : answer'[q] = answer[q] /\ seen'[q] = seen[q]
      BY <1>2, <2>1 DEF AnswerWith, TypeOK
    <3>2. QED
      BY <1>2, <2>1, <3>1 DEF NothingUncommitted
  <2>2. ASSUME NEW w \in Writes, Commit(w) \/ Bump(w) \/ Reply(w)
        PROVE  NothingUncommitted'
    <3>1. UNCHANGED <<cache, seen, answer>> /\ committed \subseteq committed'
      BY <2>2 DEF Commit, Bump, Reply, redis, reads
    <3>2. QED
      BY <1>2, <3>1 DEF NothingUncommitted
  <2>3. ASSUME NEW r \in Readers, Begin(r)
        PROVE  NothingUncommitted'
    BY <1>2, <2>3 DEF Begin, NothingUncommitted, TypeOK, redis, writes
  <2>4. ASSUME NEW r \in Readers, GetVersion(r) \/ SetVersion(r) \/ Miss(r)
        PROVE  NothingUncommitted'
    BY <1>2, <2>4 DEF GetVersion, SetVersion, Miss, NothingUncommitted, redis, writes
  <2>5. ASSUME NEW r \in Readers, Hit(r)
        PROVE  NothingUncommitted'
    <3>1. PICK e \in cache : AnswerWith(r, e.seen)
      BY <2>5 DEF Hit
    <3>2. e.seen \in SUBSET committed /\ UNCHANGED <<cache, committed>>
      BY <1>2, <2>5 DEF Hit, NothingUncommitted, redis, writes
    <3>3. QED
      BY <2>1, <3>1, <3>2
  <2>6. ASSUME NEW r \in Readers, Query(r)
        PROVE  NothingUncommitted'
    BY <1>2, <2>6 DEF Query, NothingUncommitted, TypeOK, redis, writes
  <2>7. ASSUME NEW r \in Readers, Fill(r) \/ AnswerEmpty(r)
        PROVE  NothingUncommitted'
    <3>1. seen[r] \in SUBSET committed
      BY <1>2 DEF NothingUncommitted
    <3>2. \A e \in cache' : e \in cache \/ e.seen = seen[r]
      BY <2>7 DEF Fill, AnswerEmpty, redis
    <3>3. AnswerWith(r, seen[r]) /\ UNCHANGED committed
      BY <2>7 DEF Fill, AnswerEmpty, writes
    <3>4. QED
      BY <2>1, <3>1, <3>2, <3>3
  <2>8. ASSUME NEW e \in cache, Expire(e.label)
        PROVE  NothingUncommitted'
    BY <1>2, <2>8 DEF Expire, NothingUncommitted, writes, reads
  <2>9. CASE UNCHANGED vars
    BY <1>2, <2>9 DEF NothingUncommitted, vars, redis, writes, reads
  <2>10. QED
    BY <1>2, <2>2, <2>3, <2>4, <2>5, <2>6, <2>7, <2>8, <2>9 DEF Next
<1>3. QED
  BY <1>1, <1>2, CacheTyping, PTL DEF Spec

\* The readers about to fill what the last writes have outdated, and the
\* entries that are outdated.
Stragglers == {r \in Readers : pc[r] = "fill" /\ seen[r] # Writes}
Outdated   == {e \in cache : e.seen # Writes}

\* Once all writes are over, a step brings no new straggler, and brings an
\* outdated entry only by using up a straggler.
StalenessRunsOut ==
  [][committed = Writes =>
       /\ Stragglers' \subseteq Stragglers
       /\ Outdated' \subseteq Outdated \/ Stragglers' # Stragglers]_vars

\* The safety half of StaleEntriesExpire: after the last COMMIT the readers
\* that queried before it are the only source of outdated entries, and each
\* of them fills one at most; what the TTL removes does not come back.
THEOREM StragglersRunOut == Spec => StalenessRunsOut
<1>1. ASSUME TypeOK, [Next]_vars, committed = Writes
      PROVE  /\ Stragglers' \subseteq Stragglers
             /\ Outdated' \subseteq Outdated \/ Stragglers' # Stragglers
  <2>1. ASSUME UNCHANGED <<pc, seen>>, cache' \subseteq cache
        PROVE  Stragglers' \subseteq Stragglers /\ Outdated' \subseteq Outdated
    BY <2>1 DEF Stragglers, Outdated
  <2>2. ASSUME NEW r \in Readers,
               \A q \in Readers \ {r} : pc'[q] = pc[q] /\ seen'[q] = seen[q],
               pc'[r] # "fill" \/ seen'[r] = Writes
        PROVE  Stragglers' \subseteq Stragglers /\ r \notin Stragglers'
    BY <2>2 DEF Stragglers
  <2>3. ASSUME NEW w \in Writes, Commit(w) \/ Bump(w) \/ Reply(w)
        PROVE  UNCHANGED <<pc, seen, cache>>
    BY <2>3 DEF Commit, Bump, Reply, redis, reads
  <2>4. ASSUME NEW r \in Readers,
               \/ Begin(r) \/ GetVersion(r) \/ SetVersion(r) \/ Hit(r) \/ Miss(r)
               \/ Query(r) \/ AnswerEmpty(r)
        PROVE  Stragglers' \subseteq Stragglers /\ Outdated' \subseteq Outdated
    <3>1. cache' = cache
      BY <2>4 DEF Begin, GetVersion, SetVersion, Hit, Miss, Query, AnswerEmpty, redis
    <3>2. /\ \A q \in Readers \ {r} : pc'[q] = pc[q] /\ seen'[q] = seen[q]
          /\ pc'[r] # "fill" \/ seen'[r] = Writes
      BY <1>1, <2>4 DEF Begin, GetVersion, SetVersion, Advance, Hit, Miss, Query,
         AnswerEmpty, AnswerWith, TypeOK
    <3>3. QED
      BY <2>2, <3>1, <3>2 DEF Outdated
  <2>5. ASSUME NEW r \in Readers, Fill(r)
        PROVE  /\ Stragglers' \subseteq Stragglers
               /\ Outdated' \subseteq Outdated \/ Stragglers' # Stragglers
    <3>1. /\ \A q \in Readers \ {r} : pc'[q] = pc[q] /\ seen'[q] = seen[q]
          /\ pc[r] = "fill" /\ pc'[r] = "idle"
      BY <1>1, <2>5 DEF Fill, AnswerWith, TypeOK
    <3>2. Stragglers' \subseteq Stragglers /\ r \notin Stragglers'
      BY <2>2, <3>1
    <3>3. CASE r \in Stragglers
      BY <3>2, <3>3
    <3>4. CASE r \notin Stragglers
      <4>1. seen[r] = Writes
        BY <3>1, <3>4 DEF Stragglers
      <4>2. \A e \in cache' : e \in cache \/ e.seen = Writes
        BY <2>5, <4>1 DEF Fill
      <4>3. QED
        BY <3>2, <4>2 DEF Outdated
    <3>5. QED
      BY <3>3, <3>4
  <2>6. ASSUME NEW e \in cache, Expire(e.label)
        PROVE  UNCHANGED <<pc, seen>> /\ cache' \subseteq cache
    BY <2>6 DEF Expire, reads
  <2>7. CASE UNCHANGED vars
    BY <2>1, <2>7 DEF vars, redis, reads
  <2>8. QED
    BY <1>1, <2>1, <2>3, <2>4, <2>5, <2>6, <2>7 DEF Next
<1>2. QED
  BY <1>1, CacheTyping, PTL DEF Spec, StalenessRunsOut

-----------------------------------------------------------------------------
(* The views of the API.                                                   *)

Views == {"get_membership", "list_users", "list_orgs", "list_projects",
          "list_members"}

\* Some key the handler INCRs is a key the view reads.
Reaches(w, v) ==
  \E i \in 1..Len(Invalidates[w]), j \in 1..Len(ReadsOf[v]) :
    Invalidates[w][i] = ReadsOf[v][j]

\* One common key is enough.
LEMMA ReachesAt ==
  ASSUME NEW v, NEW w,
         NEW i \in 1..Len(Invalidates[w]), NEW j \in 1..Len(ReadsOf[v]),
         Invalidates[w][i] = ReadsOf[v][j]
  PROVE  Reaches(w, v)
  BY DEF Reaches

\* Every handler invalidates every view it changes, but for Uninvalidated.
LEMMA WritesReachViews ==
  ASSUME NEW v \in Views, NEW w \in ChangedBy[v] \ Uninvalidated[v]
  PROVE  Reaches(w, v)
<1>1. CASE v = "get_membership"
  <2>1. CASE w \in {"add_member", "remove_member"}
    <3>1. 1 \in 1..Len(Invalidates[w]) /\ Invalidates[w][1] = "org_id:version"
      BY <2>1 DEF Invalidates, OnMemChange
    <3>2. 1 \in 1..Len(ReadsOf[v]) /\ ReadsOf[v][1] = "org_id:version"
      BY <1>1 DEF ReadsOf
    <3>3. QED
      BY <3>1, <3>2, ReachesAt
  <2>2. CASE w = "delete_organization"
    <3>1. 2 \in 1..Len(Invalidates[w]) /\ Invalidates[w][2] = "org_id:version"
      BY <2>2 DEF Invalidates, OnOrgDelete
    <3>2. 1 \in 1..Len(ReadsOf[v]) /\ ReadsOf[v][1] = "org_id:version"
      BY <1>1 DEF ReadsOf
    <3>3. QED
      BY <3>1, <3>2, ReachesAt
  <2>3. QED
    BY <1>1, <2>1, <2>2 DEF ChangedBy, Uninvalidated
<1>2. CASE v = "list_users"
  <2>1. CASE w \in {"add_member", "remove_member"}
    <3>1. 1 \in 1..Len(Invalidates[w]) /\ Invalidates[w][1] = "org_id:version"
      BY <2>1 DEF Invalidates, OnMemChange
    <3>2. 1 \in 1..Len(ReadsOf[v]) /\ ReadsOf[v][1] = "org_id:version"
      BY <1>2 DEF ReadsOf
    <3>3. QED
      BY <3>1, <3>2, ReachesAt
  <2>2. CASE w = "delete_organization"
    <3>1. 2 \in 1..Len(Invalidates[w]) /\ Invalidates[w][2] = "org_id:version"
      BY <2>2 DEF Invalidates, OnOrgDelete
    <3>2. 1 \in 1..Len(ReadsOf[v]) /\ ReadsOf[v][1] = "org_id:version"
      BY <1>2 DEF ReadsOf
    <3>3. QED
      BY <3>1, <3>2, ReachesAt
  <2>3. QED
    BY <1>2, <2>1, <2>2 DEF ChangedBy, Uninvalidated
<1>3. CASE v = "list_orgs"
  <2>1. CASE w \in {"add_member", "remove_member"}
    <3>1. 2 \in 1..Len(Invalidates[w]) /\ Invalidates[w][2] = "user_id:version"
      BY <2>1 DEF Invalidates, OnMemChange
    <3>2. 1 \in 1..Len(ReadsOf[v]) /\ ReadsOf[v][1] = "user_id:version"
      BY <1>3 DEF ReadsOf
    <3>3. QED
      BY <3>1, <3>2, ReachesAt
  <2>2. CASE w = "delete_organization"
    <3>1. 1 \in 1..Len(Invalidates[w]) /\ Invalidates[w][1] = "global:version"
      BY <2>2 DEF Invalidates, OnOrgDelete
    <3>2. 2 \in 1..Len(ReadsOf[v]) /\ ReadsOf[v][2] = "global:version"
      BY <1>3 DEF ReadsOf
    <3>3. QED
      BY <3>1, <3>2, ReachesAt
  <2>3. QED
    BY <1>3, <2>1, <2>2 DEF ChangedBy, Uninvalidated
<1>4. CASE v = "list_projects"
  <2>1. CASE w \in {"create_project", "update_project", "delete_project"}
    <3>1. 1 \in 1..Len(Invalidates[w]) /\ Invalidates[w][1] = "org_id:project_version"
      BY <2>1 DEF Invalidates, OnProjectChange
    <3>2. 1 \in 1..Len(ReadsOf[v]) /\ ReadsOf[v][1] = "org_id:project_version"
      BY <1>4 DEF ReadsOf
    <3>3. QED
      BY <3>1, <3>2, ReachesAt
  <2>2. QED
    BY <1>4, <2>1 DEF ChangedBy, Uninvalidated
<1>5. CASE v = "list_members"
  <2>1. CASE w \in {"add_project_member", "remove_project_member"}
    <3>1. 1 \in 1..Len(Invalidates[w]) /\ Invalidates[w][1] = "project_id:version"
      BY <2>1 DEF Invalidates, OnProjectMemChange
    <3>2. 2 \in 1..Len(ReadsOf[v]) /\ ReadsOf[v][2] = "project_id:version"
      BY <1>5 DEF ReadsOf
    <3>3. QED
      BY <3>1, <3>2, ReachesAt
  <2>2. CASE w = "remove_member"
    <3>1. 1 \in 1..Len(Invalidates[w]) /\ Invalidates[w][1] = "org_id:version"
      BY <2>2 DEF Invalidates, OnMemChange
    <3>2. 1 \in 1..Len(ReadsOf[v]) /\ ReadsOf[v][1] = "org_id:version"
      BY <1>5 DEF ReadsOf
    <3>3. QED
      BY <3>1, <3>2, ReachesAt
  <2>3. CASE w = "delete_project"
    <3>1. 2 \in 1..Len(Invalidates[w]) /\ Invalidates[w][2] = "project_id:version"
      BY <2>3 DEF Invalidates, OnProjectChange
    <3>2. 2 \in 1..Len(ReadsOf[v]) /\ ReadsOf[v][2] = "project_id:version"
      BY <1>5 DEF ReadsOf
    <3>3. QED
      BY <3>1, <3>2, ReachesAt
  <2>4. CASE w = "delete_organization"
    <3>1. 2 \in 1..Len(Invalidates[w]) /\ Invalidates[w][2] = "org_id:version"
      BY <2>4 DEF Invalidates, OnOrgDelete
    <3>2. 1 \in 1..Len(ReadsOf[v]) /\ ReadsOf[v][1] = "org_id:version"
      BY <1>5 DEF ReadsOf
    <3>3. QED
      BY <3>1, <3>2, ReachesAt
  <2>5. QED
    BY <1>5, <2>1, <2>2, <2>3, <2>4 DEF ChangedBy, Uninvalidated
<1>6. QED
  BY <1>1, <1>2, <1>3, <1>4, <1>5 DEF Views

\* A user who lists organizations, members or projects, or is authorized,
\* after add_member, remove_member, delete_organization or a project handler
\* has replied sees the change, whatever other requests the server handles:
\* each cached read implements CachePromise for any set of the handlers that
\* change it, as long as no SET of a version key takes an INCR back.
THEOREM ViewsWhileGrowing ==
  ASSUME NEW v \in Views, ViewOrder = ReadsOf[v],
         Writes \subseteq ChangedBy[v] \ Uninvalidated[v],
         BumpOrder = InvalidatesOfWrites
  PROVE  Spec /\ VersionsGrow => Implements
<1>1. ASSUME NEW w \in Writes
      PROVE  \E i \in 1..Len(BumpOrder[w]) : BumpOrder[w][i] \in ViewKeys
  <2>1. BumpOrder[w] = Invalidates[w]
    BY DEF InvalidatesOfWrites
  <2>2. Reaches(w, v)
    BY WritesReachViews
  <2>3. QED
    BY <2>1, <2>2 DEF Reaches, ViewKeys
<1>2. Covered
  BY <1>1 DEF Covered
<1>3. QED
  BY <1>2, RefinementWhileGrowing

\* ... and so without a condition once the version keys exist.
THEOREM ViewsKeepThePromise ==
  ASSUME Warm = Keys,
         NEW v \in Views, ViewOrder = ReadsOf[v],
         Writes \subseteq ChangedBy[v] \ Uninvalidated[v],
         BumpOrder = InvalidatesOfWrites
  PROVE  Spec => Implements
  BY ViewsWhileGrowing, WarmKeysGrow
=============================================================================
