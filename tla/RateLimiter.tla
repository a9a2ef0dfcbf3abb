---------------------------- MODULE RateLimiter ----------------------------
(***************************************************************************)
(* core/rate_limiter.py: a sliding-window log of the accepted calls of each *)
(* client address.  One instance guards one router; __call__ has no await, *)
(* so a call is one step.  A list of times is a set of numbered calls here: *)
(* its order is never looked at, but two calls may carry the same time.    *)
(*                                                                         *)
(* time.time() is the wall clock of the host: it may be set back and       *)
(* forward while the service runs.  A call carries the time that the       *)
(* limiter has logged (at), and as history the time that had really passed *)
(* (when) and its number (n).                                              *)
(***************************************************************************)
EXTENDS Integers, FiniteSets

CONSTANTS
  Clients,    \* request.client.host
  MaxCalls,   \* max_calls
  TimeFrame,  \* time_frame
  MaxTime,    \* bound on the time that passes
  MaxShift    \* bound on how far the clock is set, either way

ASSUME LimitAssumption ==
  /\ MaxCalls \in Nat /\ TimeFrame \in Nat \ {0}
  /\ MaxTime \in Nat /\ MaxShift \in Nat

VARIABLES
  elapsed,   \* the time that has really passed
  behind,    \* how far the clock has been set back, in all
  ahead,     \* how far it has been set forward, in all
  calls,     \* self.calls
  served,    \* history: the number of calls accepted from each client
  accepted,  \* history: the calls accepted from each client
  rejected   \* history: each client's 429s: when, and how far back the clock was

clock == <<elapsed, behind, ahead>>
vars  == <<clock, calls, served, accepted, rejected>>

\* time.time()
now == elapsed - behind + ahead

Init ==
  /\ elapsed = 0 /\ behind = 0 /\ ahead = 0
  /\ calls = [c \in Clients |-> {}]
  /\ served = [c \in Clients |-> 0]
  /\ accepted = [c \in Clients |-> {}]
  /\ rejected = [c \in Clients |-> {}]

\* Mutant: a call as old as the window still counts.
RecentOrEqual(c) == {a \in calls[c] : a.at >= now - TimeFrame}

\* The list comprehension at the start of __call__.
Recent(c) == {a \in calls[c] : a.at > now - TimeFrame}

\* Mutant: off by one in the comparison.
OverFull(c) == Cardinality(Recent(c)) > MaxCalls

Full(c) == Cardinality(Recent(c)) >= MaxCalls

Reject(c) ==
  /\ Full(c)
  /\ calls' = [calls EXCEPT ![c] = Recent(c)]
  /\ rejected' = [rejected EXCEPT ![c] = @ \cup {<<elapsed, behind>>}]
  /\ UNCHANGED <<clock, served, accepted>>

\* Mutant: the log keeps the time at which the call leaves the window.
AcceptWithDeadline(c) ==
  LET a == [at |-> now + TimeFrame, when |-> elapsed, n |-> served[c] + 1] IN
  /\ ~Full(c)
  /\ calls' = [calls EXCEPT ![c] = Recent(c) \cup {a}]
  /\ served' = [served EXCEPT ![c] = @ + 1]
  /\ accepted' = [accepted EXCEPT ![c] = @ \cup {a}]
  /\ UNCHANGED <<clock, rejected>>

Accept(c) ==
  LET a == [at |-> now, when |-> elapsed, n |-> served[c] + 1] IN
  /\ ~Full(c)
  /\ calls' = [calls EXCEPT ![c] = Recent(c) \cup {a}]
  /\ served' = [served EXCEPT ![c] = @ + 1]
  /\ accepted' = [accepted EXCEPT ![c] = @ \cup {a}]
  /\ UNCHANGED <<clock, rejected>>

Tick ==
  /\ elapsed < MaxTime
  /\ elapsed' = elapsed + 1
  /\ UNCHANGED <<behind, ahead, calls, served, accepted, rejected>>

\* An operator or NTP corrects the clock of the host.
SetBack ==
  /\ behind < MaxShift
  /\ behind' = behind + 1
  /\ UNCHANGED <<elapsed, ahead, calls, served, accepted, rejected>>

SetForward ==
  /\ ahead < MaxShift
  /\ ahead' = ahead + 1
  /\ UNCHANGED <<elapsed, behind, calls, served, accepted, rejected>>

Next == Tick \/ SetBack \/ SetForward \/ \E c \in Clients : Accept(c) \/ Reject(c)

Spec == Init /\ [][Next]_vars
-----------------------------------------------------------------------------
(* Properties.                                                             *)

Calls == [at : Int, when : Nat, n : Nat]

\* The log holds accepted calls; each has a number that was given out, and
\* its time is wrong by no more than the clock has been set.
TypeOK ==
  /\ elapsed \in Nat /\ behind \in Nat /\ ahead \in Nat
  /\ served \in [Clients -> Nat]
  /\ \A c \in Clients :
       /\ calls[c] \subseteq accepted[c]
       /\ rejected[c] \subseteq Nat \X Nat
       /\ \A a \in accepted[c] :
            /\ a.when <= elapsed /\ a.n <= served[c]
            /\ a.when - behind <= a.at /\ a.at <= a.when + ahead

\* The calls accepted from c in the stretch of real time that ends at t.
InWindow(c, t, length) ==
  {a \in accepted[c] : t - length < a.when /\ a.when <= t}

\* However calls are spaced, no window of the time frame's length holds more
\* than MaxCalls accepted calls of a client: not only the windows that end at
\* a call, and although every call throws part of the log away.  Setting the
\* clock back lets nobody through, setting it forward shortens the window by
\* as much and no more.
WindowBound ==
  \A c \in Clients : \A t \in 0..elapsed :
    Cardinality(InWindow(c, t, TimeFrame - ahead)) <= MaxCalls

\* A 429 is only sent to a client that used its window up: rejected calls do
\* not count against it, so a blocked client that keeps calling is let in as
\* soon as its oldest accepted call is a time frame old - later only by what
\* the clock has been set back.
RejectionsJustified ==
  \A c \in Clients : \A r \in rejected[c] :
    Cardinality(InWindow(c, r[1], TimeFrame + r[2])) >= MaxCalls

\* The window as it is meant, whatever becomes of the clock.  It is not kept:
\* a clock set forward throws the log away.
WindowBoundByAnyClock ==
  \A c \in Clients : \A t \in 0..elapsed :
    Cardinality(InWindow(c, t, TimeFrame)) <= MaxCalls
=============================================================================
