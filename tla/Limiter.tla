------------------------------- MODULE Limiter -------------------------------
(***************************************************************************)
(* auth.Limiter: a sliding log of the attempts let through, per key. Allow *)
(* runs under the mutex, so one call is one step. A slice of times is the  *)
(* set of its elements, told apart by a serial number.                     *)
(***************************************************************************)
EXTENDS Naturals, FiniteSets

CONSTANTS
  Keys,     \* what is limited: a client address as one process sees it
  MaxHits,  \* Limiter.max
  Window,   \* Limiter.window, in ticks
  MaxTime   \* bound: the clock stops here

ASSUME LimiterAssumption == MaxHits \in Nat /\ Window \in Nat /\ MaxTime \in Nat

VARIABLES
  hits,     \* Limiter.hits
  now,      \* the clock
  allowed   \* history: every attempt let through since the process started

lvars == <<hits, now, allowed>>

Hit == [n : Nat, t : 0 .. MaxTime]

LimiterInit ==
  /\ hits = [k \in Keys |-> {}]
  /\ now = 0
  /\ allowed = [k \in Keys |-> {}]

\* A mutant: !t.Before(now - window), which keeps an entry of one window ago.
Mutant_Kept(log) == {a \in log : a.t + Window >= now}

\* The entries with t.After(now - window), moved to the front of the slice.
Kept(log) == {a \in log : a.t + Window > now}

\* A mutant: one attempt more than max.
Mutant_Within(k) == Cardinality(Kept(hits[k])) <= MaxHits

Within(k) == Cardinality(Kept(hits[k])) < MaxHits

\* A mutant: the entry holds the end of its window.
Mutant_Accept(k) ==
  LET a == [n |-> Cardinality(allowed[k]) + 1, t |-> now + Window] IN
  /\ Within(k)
  /\ hits' = [hits EXCEPT ![k] = Kept(@) \cup {a}]
  /\ allowed' = [allowed EXCEPT ![k] = @ \cup {a}]
  /\ UNCHANGED now

\* Allow returning true, and Allow returning false: both drop what is too old,
\* and a refused attempt leaves no entry.
Accept(k) ==
  LET a == [n |-> Cardinality(allowed[k]) + 1, t |-> now] IN
  /\ Within(k)
  /\ hits' = [hits EXCEPT ![k] = Kept(@) \cup {a}]
  /\ allowed' = [allowed EXCEPT ![k] = @ \cup {a}]
  /\ UNCHANGED now

Refuse(k) ==
  /\ ~Within(k)
  /\ hits' = [hits EXCEPT ![k] = Kept(@)]
  /\ UNCHANGED <<now, allowed>>

\* A new process starts with an empty map.
Forget(K) ==
  /\ hits' = [k \in Keys |-> IF k \in K THEN {} ELSE hits[k]]
  /\ allowed' = [k \in Keys |-> IF k \in K THEN {} ELSE allowed[k]]
  /\ UNCHANGED now

Tick == now < MaxTime /\ now' = now + 1 /\ UNCHANGED <<hits, allowed>>

LimiterNext ==
  \/ \E k \in Keys : Accept(k) \/ Refuse(k)
  \/ \E K \in SUBSET Keys : Forget(K)
  \/ Tick

LimiterSpec == LimiterInit /\ [][LimiterNext]_lvars

LimiterTypeOK ==
  /\ hits \in [Keys -> SUBSET Hit]
  /\ now \in 0 .. MaxTime
  /\ allowed \in [Keys -> SUBSET Hit]

\* The attempts on k let through in the window that ends at time t.
InWindow(k, t) == {a \in allowed[k] : a.t <= t /\ a.t + Window > t}

\* No window, wherever it begins, holds more than max attempts let through by
\* one process: forgetting old entries never lets one in too early.
WindowHolds == \A k \in Keys, t \in 0 .. MaxTime : Cardinality(InWindow(k, t)) <= MaxHits

\* The log has what it needs and no more: somebody who keeps trying is let in
\* again as soon as the attempts let through, alone, are few enough.
OnlyAllowedCount == \A k \in Keys : Kept(hits[k]) = InWindow(k, now)
===============================================================================
