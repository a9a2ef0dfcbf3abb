------------------------- MODULE RateLimiterProofs -------------------------
(***************************************************************************)
(* The window bound of the rate limiter for any number of clients, any     *)
(* limit, any time frame and however the clock is set.                     *)
(***************************************************************************)
EXTENDS RateLimiter, FiniteSetTheorems, TLAPS

\* The log holds all accepted calls of the window that it still bounds.
Logged ==
  \A c \in Clients :
    /\ accepted[c] \subseteq Calls
    /\ IsFiniteSet(accepted[c])
    /\ \A a \in accepted[c] : a.when > elapsed - (TimeFrame - ahead) => a \in calls[c]

\* Requests were rejected in the past.
Past ==
  /\ calls \in [Clients -> SUBSET Calls]
  /\ accepted \in [Clients -> SUBSET Calls]
  /\ rejected \in [Clients -> SUBSET (Nat \X Nat)]
  /\ \A c \in Clients : \A r \in rejected[c] : r[1] <= elapsed /\ r[2] <= behind

LimiterInv == TypeOK /\ Past /\ Logged /\ WindowBound /\ RejectionsJustified

\* Windows are finite.
LEMMA WindowFinite ==
  ASSUME Logged, NEW c \in Clients, NEW t, NEW length
  PROVE  /\ IsFiniteSet(InWindow(c, t, length))
         /\ Cardinality(InWindow(c, t, length)) \in Nat
<1>1. IsFiniteSet(accepted[c]) /\ InWindow(c, t, length) \subseteq accepted[c]
  BY DEF Logged, InWindow
<1>2. QED
  BY <1>1, FS_Subset, FS_CardinalityType

\* A larger window holds no fewer calls.
LEMMA LargerHoldsMore ==
  ASSUME NEW S, NEW T, IsFiniteSet(T), S \subseteq T
  PROVE  /\ IsFiniteSet(S) /\ Cardinality(S) \in Nat /\ Cardinality(T) \in Nat
         /\ Cardinality(S) <= Cardinality(T)
BY FS_Subset, FS_CardinalityType

\* The clock that tells which calls are recent is wrong about each of them by
\* no more than it has been set.
LEMMA RecentIsNearlyWindow ==
  ASSUME TypeOK, Past, Logged, NEW c \in Clients
  PROVE  /\ InWindow(c, elapsed, TimeFrame - ahead) \subseteq Recent(c)
         /\ Recent(c) \subseteq InWindow(c, elapsed, TimeFrame + behind)
         /\ IsFiniteSet(Recent(c)) /\ Cardinality(Recent(c)) \in Nat
<1>1. /\ elapsed \in Nat /\ behind \in Nat /\ ahead \in Nat /\ TimeFrame \in Nat
      /\ calls[c] \subseteq accepted[c]
      /\ \A a \in accepted[c] :
           /\ a.at \in Int /\ a.when \in Nat /\ a.when <= elapsed
           /\ a.when - behind <= a.at /\ a.at <= a.when + ahead
  BY LimitAssumption DEF TypeOK, Past, Calls
<1>2. ASSUME NEW a \in InWindow(c, elapsed, TimeFrame - ahead) PROVE a \in Recent(c)
  <2>1. a \in accepted[c] /\ elapsed - (TimeFrame - ahead) < a.when
    BY DEF InWindow
  <2>2. a \in calls[c]
    BY <1>1, <2>1 DEF Logged
  <2>3. a.at > now - TimeFrame
    BY <1>1, <2>1 DEF now
  <2> QED
    BY <2>2, <2>3 DEF Recent
<1>3. ASSUME NEW a \in Recent(c) PROVE a \in InWindow(c, elapsed, TimeFrame + behind)
  BY <1>1 DEF Recent, InWindow, now
<1>4. IsFiniteSet(Recent(c)) /\ Cardinality(Recent(c)) \in Nat
  BY <1>1, LargerHoldsMore DEF Logged, Recent
<1> QED
  BY <1>2, <1>3, <1>4

\* As time passes calls leave the window that ends now, and none enters it;
\* setting the clock forward makes the windows shorter.
LEMMA ClockStep ==
  ASSUME LimiterInv, UNCHANGED <<calls, served, accepted, rejected>>,
         elapsed' \in {elapsed, elapsed + 1}, behind' \in Nat, ahead' \in Nat,
         behind <= behind', ahead <= ahead'
  PROVE  LimiterInv'
<1>1. /\ elapsed \in Nat /\ behind \in Nat /\ ahead \in Nat /\ TimeFrame \in Nat
      /\ MaxCalls \in Nat
      /\ \A c \in Clients : \A a \in accepted[c] :
           /\ a.at \in Int /\ a.when \in Nat /\ a.when <= elapsed
           /\ a.when - behind <= a.at /\ a.at <= a.when + ahead
  BY LimitAssumption DEF LimiterInv, TypeOK, Past, Calls
<1>2. TypeOK'
  <2>1. \A c \in Clients : \A a \in accepted[c] :
          /\ a.when <= elapsed'
          /\ a.when - behind' <= a.at /\ a.at <= a.when + ahead'
    BY <1>1
  <2> QED
    BY <1>1, <2>1 DEF LimiterInv, TypeOK
<1>3. Past'
  <2>1. \A c \in Clients : \A r \in rejected[c] : r[1] \in Nat /\ r[2] \in Nat
    BY DEF LimiterInv, Past
  <2>2. \A c \in Clients : \A r \in rejected[c] : r[1] <= elapsed' /\ r[2] <= behind'
    BY <1>1, <2>1 DEF LimiterInv, Past
  <2> QED
    BY <2>2 DEF LimiterInv, Past
<1>4. Logged'
  <2>1. \A c \in Clients : \A a \in accepted[c] :
          a.when > elapsed' - (TimeFrame - ahead') => a.when > elapsed - (TimeFrame - ahead)
    BY <1>1
  <2> QED
    BY <2>1 DEF LimiterInv, Logged
<1>5. WindowBound'
  <2> SUFFICES ASSUME NEW d \in Clients, NEW t \in 0..elapsed'
               PROVE  Cardinality(InWindow(d, t, TimeFrame - ahead')) <= MaxCalls
    BY DEF WindowBound, InWindow
  <2>1. PICK s \in 0..elapsed :
          InWindow(d, t, TimeFrame - ahead') \subseteq InWindow(d, s, TimeFrame - ahead)
    <3>1. CASE t \in 0..elapsed
      <4>1. InWindow(d, t, TimeFrame - ahead') \subseteq InWindow(d, t, TimeFrame - ahead)
        BY <1>1, <3>1 DEF InWindow
      <4> QED
        BY <3>1, <4>1
    <3>2. CASE t \notin 0..elapsed
      <4>1. t = elapsed + 1
        BY <1>1, <3>2
      <4>2. InWindow(d, t, TimeFrame - ahead') \subseteq InWindow(d, elapsed, TimeFrame - ahead)
        BY <1>1, <4>1 DEF InWindow
      <4> QED
        BY <1>1, <4>2
    <3> QED
      BY <3>1, <3>2
  <2>2. Cardinality(InWindow(d, s, TimeFrame - ahead)) <= MaxCalls
    BY DEF LimiterInv, WindowBound
  <2>3. IsFiniteSet(InWindow(d, s, TimeFrame - ahead))
    BY WindowFinite DEF LimiterInv
  <2> HIDE DEF LimiterInv
  <2>4. /\ Cardinality(InWindow(d, t, TimeFrame - ahead')) \in Nat
        /\ Cardinality(InWindow(d, s, TimeFrame - ahead)) \in Nat
        /\ Cardinality(InWindow(d, t, TimeFrame - ahead')) <=
             Cardinality(InWindow(d, s, TimeFrame - ahead))
    BY <2>1, <2>3, LargerHoldsMore
  <2> QED
    BY <1>1, <2>2, <2>4
<1>6. RejectionsJustified'
  BY DEF LimiterInv, RejectionsJustified, InWindow
<1> QED
  BY <1>2, <1>3, <1>4, <1>5, <1>6 DEF LimiterInv

\* An accepted call is in the windows of its client that end now, and in no
\* earlier ones.
LEMMA AcceptWindows ==
  ASSUME LimiterInv, NEW c \in Clients, Accept(c),
         NEW d \in Clients, NEW t \in 0..elapsed, NEW length \in Int
  PROVE  /\ d # c \/ t # elapsed => InWindow(d, t, length)' = InWindow(d, t, length)
         /\ InWindow(d, t, length) \subseteq InWindow(d, t, length)'
         /\ InWindow(c, elapsed, length)' \subseteq InWindow(c, elapsed, length)
              \cup {[at |-> now, when |-> elapsed, n |-> served[c] + 1]}
<1>1. /\ elapsed' = elapsed
      /\ accepted'[c] =
           accepted[c] \cup {[at |-> now, when |-> elapsed, n |-> served[c] + 1]}
      /\ d # c => accepted'[d] = accepted[d]
  BY DEF Accept, LimiterInv, Past, clock
<1>2. elapsed \in Nat /\ t \in Nat /\ t <= elapsed
  BY DEF LimiterInv, TypeOK
<1>3. QED
  BY <1>1, <1>2 DEF InWindow

\* Accepting a call keeps the log, the bound and the reasons of earlier 429s.
LEMMA AcceptStep ==
  ASSUME LimiterInv, NEW c \in Clients, Accept(c)
  PROVE  LimiterInv'
<1> DEFINE a == [at |-> now, when |-> elapsed, n |-> served[c] + 1]
<1>1. /\ elapsed \in Nat /\ behind \in Nat /\ ahead \in Nat /\ served[c] \in Nat
      /\ TimeFrame \in Nat /\ MaxCalls \in Nat
  BY LimitAssumption DEF LimiterInv, TypeOK
<1>2. /\ elapsed' = elapsed /\ behind' = behind /\ ahead' = ahead
      /\ rejected' = rejected /\ served' = [served EXCEPT ![c] = served[c] + 1]
      /\ calls' = [calls EXCEPT ![c] = Recent(c) \cup {a}]
      /\ accepted' = [accepted EXCEPT ![c] = accepted[c] \cup {a}]
      /\ ~Full(c)
  BY DEF Accept, clock
<1>3. /\ calls'[c] = Recent(c) \cup {a} /\ accepted'[c] = accepted[c] \cup {a}
      /\ served'[c] = served[c] + 1
      /\ \A d \in Clients \ {c} : calls'[d] = calls[d] /\ accepted'[d] = accepted[d]
                               /\ served'[d] = served[d]
  BY <1>2 DEF LimiterInv, TypeOK, Past
<1>4. /\ a \in Calls /\ a.when = elapsed /\ a.at = elapsed - behind + ahead
      /\ a.n = served[c] + 1
  BY <1>1 DEF Calls, now
<1>5. /\ InWindow(c, elapsed, TimeFrame - ahead) \subseteq Recent(c)
      /\ Recent(c) \subseteq calls[c]
      /\ IsFiniteSet(Recent(c)) /\ Cardinality(Recent(c)) \in Nat
  BY RecentIsNearlyWindow DEF LimiterInv, Recent
<1> HIDE DEF a
<1>6. TypeOK'
  <2>1. \A b \in accepted'[c] :
          /\ b.when <= elapsed' /\ b.n <= served'[c]
          /\ b.when - behind' <= b.at /\ b.at <= b.when + ahead'
    <3> SUFFICES ASSUME NEW b \in accepted'[c]
                 PROVE  /\ b.when <= elapsed /\ b.n <= served[c] + 1
                        /\ b.when - behind <= b.at /\ b.at <= b.when + ahead
      BY <1>2, <1>3
    <3>1. CASE b = a
      BY <1>1, <1>4, <3>1
    <3>2. CASE b \in accepted[c]
      <4>1. b \in Calls
        BY <3>2 DEF LimiterInv, Past
      <4>2. b.n \in Nat
        BY <4>1 DEF Calls
      <4> QED
        BY <1>1, <3>2, <4>2 DEF LimiterInv, TypeOK
    <3> QED
      BY <1>3, <3>1, <3>2
  <2>2. calls'[c] \subseteq accepted'[c]
    BY <1>3, <1>5 DEF LimiterInv, TypeOK
  <2>3. served' \in [Clients -> Nat]
    BY <1>1, <1>2 DEF LimiterInv, TypeOK
  <2> QED
    BY <1>2, <1>3, <2>1, <2>2, <2>3 DEF LimiterInv, TypeOK
<1>7. Past'
  <2>1. Recent(c) \cup {a} \subseteq Calls /\ accepted[c] \cup {a} \subseteq Calls
    BY <1>4, <1>5 DEF LimiterInv, Past
  <2> QED
    BY <1>2, <2>1 DEF LimiterInv, Past
<1>8. Logged'
  <2>1. IsFiniteSet(accepted'[c])
    <3>1. IsFiniteSet(accepted[c])
      BY DEF LimiterInv, Logged
    <3> QED
      BY <1>3, <3>1, FS_AddElement
  <2>2. \A b \in accepted'[c] : b.when > elapsed - (TimeFrame - ahead) => b \in calls'[c]
    <3> SUFFICES ASSUME NEW b \in accepted[c], b.when > elapsed - (TimeFrame - ahead)
                 PROVE  b \in Recent(c)
      BY <1>3
    <3>1. b.when <= elapsed
      BY DEF LimiterInv, TypeOK
    <3> QED
      BY <1>5, <3>1 DEF InWindow
  <2> QED
    BY <1>2, <1>3, <1>7, <2>1, <2>2 DEF LimiterInv, Logged, Past
<1>9. WindowBound'
  <2>0. PICK length \in Int : length = TimeFrame - ahead
    BY <1>1
  <2> SUFFICES ASSUME NEW d \in Clients, NEW t \in 0..elapsed
               PROVE  Cardinality(InWindow(d, t, length)') <= MaxCalls
    BY <1>2, <2>0 DEF WindowBound, InWindow
  <2>1. CASE d = c /\ t = elapsed
    <3>0. InWindow(d, t, length)' = InWindow(c, elapsed, length)'
      BY <1>2, <2>1 DEF InWindow
    <3>1. InWindow(d, t, length)' \subseteq Recent(c) \cup {a}
      BY <1>5, <2>0, <2>1, <3>0, AcceptWindows DEF a
    <3>2. /\ IsFiniteSet(Recent(c) \cup {a})
          /\ Cardinality(Recent(c) \cup {a}) <= Cardinality(Recent(c)) + 1
      BY <1>5, FS_AddElement
    <3>3. Cardinality(Recent(c)) < MaxCalls
      BY <1>1, <1>2, <1>5 DEF Full
    <3>4. /\ Cardinality(InWindow(d, t, length)') \in Nat
          /\ Cardinality(Recent(c) \cup {a}) \in Nat
          /\ Cardinality(InWindow(d, t, length)') <= Cardinality(Recent(c) \cup {a})
      BY <3>1, <3>2, LargerHoldsMore
    <3> QED
      BY <1>1, <1>5, <3>2, <3>3, <3>4
  <2>2. CASE d # c \/ t # elapsed
    <3>1. InWindow(d, t, length)' = InWindow(d, t, length)
      BY <2>2, AcceptWindows
    <3> QED
      BY <2>0, <3>1 DEF LimiterInv, WindowBound
  <2> QED
    BY <2>1, <2>2
<1>10. RejectionsJustified'
  <2> SUFFICES ASSUME NEW d \in Clients, NEW r \in rejected[d]
               PROVE  Cardinality(InWindow(d, r[1], TimeFrame + r[2])') >= MaxCalls
    BY <1>2 DEF RejectionsJustified, InWindow
  <2>1. r[1] \in 0..elapsed /\ TimeFrame + r[2] \in Int
    BY <1>1 DEF LimiterInv, Past
  <2>2. InWindow(d, r[1], TimeFrame + r[2]) \subseteq InWindow(d, r[1], TimeFrame + r[2])'
    BY <2>1, AcceptWindows
  <2>3. IsFiniteSet(accepted'[d])
    BY <1>8 DEF Logged
  <2>4. IsFiniteSet(InWindow(d, r[1], TimeFrame + r[2])')
    BY <1>2, <2>3, LargerHoldsMore DEF InWindow
  <2>5. /\ Cardinality(InWindow(d, r[1], TimeFrame + r[2])) <=
             Cardinality(InWindow(d, r[1], TimeFrame + r[2])')
        /\ Cardinality(InWindow(d, r[1], TimeFrame + r[2])) \in Nat
        /\ Cardinality(InWindow(d, r[1], TimeFrame + r[2])') \in Nat
    BY <2>2, <2>4, LargerHoldsMore
  <2>6. Cardinality(InWindow(d, r[1], TimeFrame + r[2])) >= MaxCalls
    BY DEF LimiterInv, RejectionsJustified
  <2> QED
    BY <1>1, <2>5, <2>6
<1> QED
  BY <1>6, <1>7, <1>8, <1>9, <1>10 DEF LimiterInv

\* A 429 prunes the log and is justified by what is left of it.
LEMMA RejectStep ==
  ASSUME LimiterInv, NEW c \in Clients, Reject(c)
  PROVE  LimiterInv'
<1>1. /\ elapsed' = elapsed /\ behind' = behind /\ ahead' = ahead
      /\ accepted' = accepted /\ served' = served
      /\ calls' = [calls EXCEPT ![c] = Recent(c)]
      /\ rejected' = [rejected EXCEPT ![c] = rejected[c] \cup {<<elapsed, behind>>}]
  BY DEF Reject, clock
<1>2. elapsed \in Nat /\ behind \in Nat /\ ahead \in Nat
      /\ TimeFrame \in Nat /\ MaxCalls \in Nat
  BY LimitAssumption DEF LimiterInv, TypeOK
<1>3. /\ InWindow(c, elapsed, TimeFrame - ahead) \subseteq Recent(c)
      /\ Recent(c) \subseteq InWindow(c, elapsed, TimeFrame + behind)
      /\ Recent(c) \subseteq calls[c]
      /\ Cardinality(Recent(c)) \in Nat /\ Cardinality(Recent(c)) >= MaxCalls
  BY RecentIsNearlyWindow DEF LimiterInv, Recent, Reject, Full
<1>4. /\ \A d \in Clients \ {c} : calls'[d] = calls[d] /\ rejected'[d] = rejected[d]
      /\ calls'[c] = Recent(c) /\ rejected'[c] = rejected[c] \cup {<<elapsed, behind>>}
  BY <1>1 DEF LimiterInv, Past
<1>5. TypeOK'
  BY <1>1, <1>2, <1>3, <1>4 DEF LimiterInv, TypeOK
<1>6. Past'
  <2>1. Recent(c) \in SUBSET Calls /\ rejected[c] \cup {<<elapsed, behind>>} \in SUBSET (Nat \X Nat)
    BY <1>2, <1>3 DEF LimiterInv, Past
  <2>2. calls' \in [Clients -> SUBSET Calls] /\ rejected' \in [Clients -> SUBSET (Nat \X Nat)]
    BY <1>1, <2>1 DEF LimiterInv, Past
  <2>3. \A d \in Clients : \A r \in rejected'[d] : r[1] <= elapsed' /\ r[2] <= behind'
    BY <1>1, <1>2, <1>4 DEF LimiterInv, Past
  <2> QED
    BY <1>1, <2>2, <2>3 DEF LimiterInv, Past
<1>7. Logged'
  <2>1. \A a \in accepted[c] : a.when > elapsed - (TimeFrame - ahead) => a \in Recent(c)
    BY <1>3 DEF LimiterInv, TypeOK, InWindow
  <2> QED
    BY <1>1, <1>4, <2>1 DEF LimiterInv, Logged
<1>8. \A d, t, length : InWindow(d, t, length)' = InWindow(d, t, length)
  BY <1>1 DEF InWindow
<1>9. WindowBound'
  BY <1>1 DEF LimiterInv, WindowBound, InWindow
<1>10. RejectionsJustified'
  <2>1. Cardinality(InWindow(c, elapsed, TimeFrame + behind)) >= MaxCalls
    <3>1. IsFiniteSet(InWindow(c, elapsed, TimeFrame + behind))
      BY WindowFinite DEF LimiterInv
    <3>2. /\ Cardinality(InWindow(c, elapsed, TimeFrame + behind)) \in Nat
          /\ Cardinality(Recent(c)) <= Cardinality(InWindow(c, elapsed, TimeFrame + behind))
      BY <1>3, <3>1, LargerHoldsMore
    <3> QED
      BY <1>2, <1>3, <3>2
  <2> SUFFICES ASSUME NEW d \in Clients, NEW r \in rejected'[d]
               PROVE  Cardinality(InWindow(d, r[1], TimeFrame + r[2])) >= MaxCalls
    BY <1>1 DEF RejectionsJustified, InWindow
  <2>2. CASE r \in rejected[d]
    BY <2>2 DEF LimiterInv, RejectionsJustified
  <2>3. CASE r \notin rejected[d]
    <3>1. d = c /\ r = <<elapsed, behind>>
      BY <1>4, <2>3
    <3> QED
      BY <2>1, <3>1
  <2> QED
    BY <2>2, <2>3
<1> QED
  BY <1>5, <1>6, <1>7, <1>9, <1>10 DEF LimiterInv

\* The invariant is inductive.
THEOREM LimiterInductive == Spec => []LimiterInv
<1>1. Init => LimiterInv
  <2> SUFFICES ASSUME Init PROVE LimiterInv
    OBVIOUS
  <2>1. TypeOK /\ Past
    BY DEF Init, TypeOK, Past
  <2>2. Logged
    BY FS_EmptySet DEF Init, Logged
  <2>3. \A c \in Clients, t \in 0..elapsed : InWindow(c, t, TimeFrame - ahead) = {}
    BY DEF Init, InWindow
  <2>4. WindowBound
    BY <2>3, FS_EmptySet, LimitAssumption DEF WindowBound
  <2>5. RejectionsJustified
    BY DEF Init, RejectionsJustified
  <2>6. QED
    BY <2>1, <2>2, <2>4, <2>5 DEF LimiterInv
<1>2. LimiterInv /\ [Next]_vars => LimiterInv'
  <2> SUFFICES ASSUME LimiterInv, [Next]_vars PROVE LimiterInv'
    OBVIOUS
  <2>1. elapsed \in Nat /\ behind \in Nat /\ ahead \in Nat
    BY DEF LimiterInv, TypeOK
  <2>2. CASE Tick \/ SetBack \/ SetForward
    BY <2>1, <2>2, ClockStep DEF Tick, SetBack, SetForward
  <2>3. CASE UNCHANGED vars
    BY <2>1, <2>3, ClockStep DEF vars, clock
  <2>4. QED
    BY <2>2, <2>3, AcceptStep, RejectStep DEF Next
<1>3. QED
  BY <1>1, <1>2, PTL DEF Spec

\* The limiter logs accepted calls only, at times that are wrong by no more
\* than the clock has been set.
THEOREM LimiterTyping == Spec => []TypeOK
<1>1. LimiterInv => TypeOK
  BY DEF LimiterInv
<1>2. QED
  BY <1>1, LimiterInductive, PTL

\* No client gets more than MaxCalls calls through in any window, for every
\* limit, time frame and number of clients: less what the clock is set forward.
THEOREM WindowIsBounded == Spec => []WindowBound
<1>1. LimiterInv => WindowBound
  BY DEF LimiterInv
<1>2. QED
  BY <1>1, LimiterInductive, PTL

\* Every 429 is sent to a client whose window is used up: with what the clock
\* was set back.
THEOREM RejectionsAreJustified == Spec => []RejectionsJustified
<1>1. LimiterInv => RejectionsJustified
  BY DEF LimiterInv
<1>2. QED
  BY <1>1, LimiterInductive, PTL
=============================================================================
