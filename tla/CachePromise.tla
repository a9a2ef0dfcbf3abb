---------------------------- MODULE CachePromise ----------------------------
(***************************************************************************)
(* What a cached read of the API owes its clients, without any cache.      *)
(*                                                                         *)
(* The data is the set of writes committed so far.  A write is            *)
(* acknowledged when its handler has replied.  A read that starts after    *)
(* the acknowledgement of a write reflects it; it reflects no write that   *)
(* was not committed by the time it answers.                               *)
(***************************************************************************)
CONSTANTS Writes, Readers, Nil

VARIABLES
  committed,     \* writes committed to the database
  acknowledged,  \* writes whose handler has replied
  must,          \* per reader: what its answer has to reflect, Nil if idle
  answer         \* per reader: what its last answer reflects, Nil if none

vars == <<committed, acknowledged, must, answer>>

Init ==
  /\ committed = {}
  /\ acknowledged = {}
  /\ must = [r \in Readers |-> Nil]
  /\ answer = [r \in Readers |-> Nil]

Commit(w) ==
  /\ committed' = committed \cup {w}
  /\ UNCHANGED <<acknowledged, must, answer>>

Acknowledge(w) ==
  /\ w \in committed
  /\ acknowledged' = acknowledged \cup {w}
  /\ UNCHANGED <<committed, must, answer>>

Begin(r) ==
  /\ must[r] = Nil
  /\ must' = [must EXCEPT ![r] = acknowledged]
  /\ answer' = [answer EXCEPT ![r] = Nil]
  /\ UNCHANGED <<committed, acknowledged>>

Answer(r) ==
  /\ must[r] # Nil
  /\ \E seen \in SUBSET committed :
       must[r] \subseteq seen /\ answer' = [answer EXCEPT ![r] = seen]
  /\ must' = [must EXCEPT ![r] = Nil]
  /\ UNCHANGED <<committed, acknowledged>>

Next ==
  \/ \E w \in Writes : Commit(w) \/ Acknowledge(w)
  \/ \E r \in Readers : Begin(r) \/ Answer(r)

Spec == Init /\ [][Next]_vars
=============================================================================
