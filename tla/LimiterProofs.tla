---------------------------- MODULE LimiterProofs ----------------------------
(***************************************************************************)
(* Theorems about Limiter, for any keys, any max and any window. The       *)
(* serial numbers make the set of attempts stand for the slice: a new one  *)
(* is never one that is there already.                                     *)
(***************************************************************************)
EXTENDS Limiter, FiniteSetTheorems, TLAPS

\* Attempts were made in the past and are numbered in order; the log is part of
\* their history.
LogInv ==
  \A k \in Keys :
    /\ IsFiniteSet(allowed[k])
    /\ hits[k] \subseteq allowed[k]
    /\ \A a \in allowed[k] : a.t <= now /\ a.n <= Cardinality(allowed[k])

LimiterInv == LimiterTypeOK /\ LogInv /\ OnlyAllowedCount /\ WindowHolds

\* An attempt let through: the entry that Accept makes.
Entry(k) == [n |-> Cardinality(allowed[k]) + 1, t |-> now]

-------------------------------------------------------------------------------
\* An entry is new, so that every attempt let through counts.
LEMMA EntryIsNew ==
  ASSUME LimiterInv, NEW k \in Keys
  PROVE  /\ Entry(k) \in Hit /\ Entry(k) \notin allowed[k]
         /\ IsFiniteSet(allowed[k] \cup {Entry(k)})
         /\ Cardinality(allowed[k]) \in Nat
         /\ Cardinality(allowed[k] \cup {Entry(k)}) = Cardinality(allowed[k]) + 1
<1>1. IsFiniteSet(allowed[k]) /\ now \in 0 .. MaxTime
  BY DEF LimiterInv, LogInv, LimiterTypeOK
<1>2. Cardinality(allowed[k]) \in Nat
  BY <1>1, FS_CardinalityType
<1>3. Entry(k) \in Hit
  BY <1>1, <1>2 DEF Entry, Hit
<1>4. Entry(k) \notin allowed[k]
  <2> SUFFICES ASSUME Entry(k) \in allowed[k] PROVE FALSE
    OBVIOUS
  <2>1. Entry(k).n <= Cardinality(allowed[k])
    BY DEF LimiterInv, LogInv
  <2> QED
    BY <2>1, <1>2 DEF Entry
<1> QED
  BY <1>1, <1>2, <1>3, <1>4, FS_AddElement

\* A window holds a subset of the attempts, a finite one.
LEMMA WindowIsFinite ==
  ASSUME LimiterInv, NEW k \in Keys, NEW t \in 0 .. MaxTime
  PROVE  IsFiniteSet(InWindow(k, t)) /\ Cardinality(InWindow(k, t)) \in Nat
<1>1. IsFiniteSet(allowed[k]) /\ InWindow(k, t) \subseteq allowed[k]
  BY DEF LimiterInv, LogInv, InWindow
<1> QED
  BY <1>1, FS_Subset, FS_CardinalityType

LEMMA LimiterInitInv == LimiterInit => LimiterInv
<1> SUFFICES ASSUME LimiterInit PROVE LimiterInv
  OBVIOUS
<1> USE LimiterAssumption
<1>1. LimiterTypeOK
  BY DEF LimiterInit, LimiterTypeOK
<1>2. LogInv
  BY FS_EmptySet DEF LimiterInit, LogInv
<1>3. OnlyAllowedCount
  BY DEF LimiterInit, OnlyAllowedCount, Kept, InWindow
<1>4. WindowHolds
  <2>1. \A k \in Keys, t \in 0 .. MaxTime : InWindow(k, t) = {}
    BY DEF LimiterInit, InWindow
  <2> QED
    BY <2>1, FS_EmptySet DEF WindowHolds
<1> QED
  BY <1>1, <1>2, <1>3, <1>4 DEF LimiterInv

-------------------------------------------------------------------------------
\* An attempt is let in only when the window that ends now has room; the windows
\* that end later hold no more of the earlier attempts than that one.
LEMMA AcceptInv ==
  ASSUME LimiterInv, NEW k \in Keys, Accept(k)
  PROVE  LimiterInv'
<1> USE LimiterAssumption
<1> DEFINE a == Entry(k)
<1>1. /\ hits' = [hits EXCEPT ![k] = Kept(@) \cup {a}]
      /\ allowed' = [allowed EXCEPT ![k] = @ \cup {a}]
      /\ now' = now /\ Cardinality(Kept(hits[k])) < MaxHits
  BY DEF Accept, Entry, Within
<1>2. /\ a \in Hit /\ a.t = now /\ a.n = Cardinality(allowed[k]) + 1
      /\ Cardinality(allowed[k]) \in Nat
      /\ IsFiniteSet(allowed[k] \cup {a})
      /\ Cardinality(allowed[k] \cup {a}) = Cardinality(allowed[k]) + 1
  BY EntryIsNew DEF Entry
<1>3. /\ hits \in [Keys -> SUBSET Hit] /\ allowed \in [Keys -> SUBSET Hit]
      /\ now \in 0 .. MaxTime /\ Kept(hits[k]) \subseteq hits[k]
  BY DEF LimiterInv, LimiterTypeOK, Kept
<1>4. /\ hits'[k] = Kept(hits[k]) \cup {a} /\ allowed'[k] = allowed[k] \cup {a}
      /\ \A j \in Keys \ {k} : hits'[j] = hits[j] /\ allowed'[j] = allowed[j]
  BY <1>1, <1>3
<1>5. LimiterTypeOK'
  BY <1>1, <1>2, <1>3 DEF LimiterTypeOK
<1>6. LogInv'
  <2> SUFFICES ASSUME NEW j \in Keys
               PROVE  /\ IsFiniteSet(allowed'[j]) /\ hits'[j] \subseteq allowed'[j]
                      /\ \A b \in allowed'[j] : b.t <= now /\ b.n <= Cardinality(allowed'[j])
    BY <1>1 DEF LogInv
  <2>1. CASE j # k
    BY <2>1, <1>4 DEF LimiterInv, LogInv
  <2>2. CASE j = k
    <3>1. \A b \in allowed[k] : b \in Hit /\ b.t <= now /\ b.n <= Cardinality(allowed[k])
      BY <1>3 DEF LimiterInv, LogInv
    <3>2. \A b \in allowed[k] : b.n <= Cardinality(allowed[k]) + 1
      BY <3>1, <1>2 DEF Hit
    <3> QED
      BY <2>2, <3>1, <3>2, <1>2, <1>3, <1>4 DEF LimiterInv, LogInv
  <2> QED
    BY <2>1, <2>2
<1>7. OnlyAllowedCount'
  <2> SUFFICES ASSUME NEW j \in Keys PROVE (Kept(hits[j]) = InWindow(j, now))'
    BY DEF OnlyAllowedCount
  <2>1. Kept(hits[j]) = InWindow(j, now)
    BY DEF LimiterInv, OnlyAllowedCount
  <2>2. CASE j # k
    BY <2>1, <2>2, <1>1, <1>4 DEF Kept, InWindow
  <2>3. CASE j = k
    BY <2>1, <2>3, <1>1, <1>2, <1>3, <1>4 DEF Kept, InWindow
  <2> QED
    BY <2>2, <2>3
<1>8. WindowHolds'
  <2> SUFFICES ASSUME NEW j \in Keys, NEW t \in 0 .. MaxTime
               PROVE  Cardinality(InWindow(j, t)') <= MaxHits
    BY <1>1 DEF WindowHolds, InWindow
  <2>1. Cardinality(InWindow(j, t)) <= MaxHits
    BY DEF LimiterInv, WindowHolds
  <2>2. CASE j # k \/ t < now
    <3>1. InWindow(j, t)' = InWindow(j, t)
      BY <2>2, <1>2, <1>3, <1>4 DEF InWindow
    <3> QED
      BY <2>1, <3>1
  <2>3. CASE j = k /\ t >= now
    <3>1. InWindow(k, t)' \subseteq InWindow(k, now) \cup {a}
      <4>1. \A b \in allowed[k] : b \in Hit /\ b.t <= now
        BY <1>3 DEF LimiterInv, LogInv
      <4> QED
        BY <4>1, <2>3, <1>3, <1>4 DEF InWindow, Hit
    <3>2. /\ IsFiniteSet(InWindow(k, now)) /\ Cardinality(InWindow(k, now)) \in Nat
          /\ Cardinality(InWindow(k, now)) < MaxHits
      BY WindowIsFinite, <1>1, <1>3 DEF LimiterInv, OnlyAllowedCount
    <3>3. /\ IsFiniteSet(InWindow(k, now) \cup {a})
          /\ Cardinality(InWindow(k, now) \cup {a}) <= Cardinality(InWindow(k, now)) + 1
      BY <3>2, FS_AddElement
    <3>4. /\ Cardinality(InWindow(k, t)') <= Cardinality(InWindow(k, now) \cup {a})
          /\ Cardinality(InWindow(k, t)') \in Nat /\ Cardinality(InWindow(k, now) \cup {a}) \in Nat
      BY <3>1, <3>3, FS_Subset, FS_CardinalityType
    <3> QED
      BY <2>3, <3>2, <3>3, <3>4
  <2> QED
    BY <2>2, <2>3, <1>3
<1> QED
  BY <1>5, <1>6, <1>7, <1>8 DEF LimiterInv

\* A refused attempt only drops entries that no window from now on holds.
LEMMA RefuseInv ==
  ASSUME LimiterInv, NEW k \in Keys, Refuse(k)
  PROVE  LimiterInv'
<1>1. hits' = [hits EXCEPT ![k] = Kept(@)] /\ now' = now /\ allowed' = allowed
  BY DEF Refuse
<1>2. /\ hits \in [Keys -> SUBSET Hit] /\ Kept(hits[k]) \subseteq hits[k]
      /\ Kept(Kept(hits[k])) = Kept(hits[k])
  BY DEF LimiterInv, LimiterTypeOK, Kept
<1>3. \A j \in Keys : hits'[j] = IF j = k THEN Kept(hits[k]) ELSE hits[j]
  BY <1>1, <1>2
<1>4. LimiterTypeOK'
  BY <1>1, <1>2, <1>3 DEF LimiterInv, LimiterTypeOK
<1>5. LogInv'
  BY <1>1, <1>2, <1>3 DEF LimiterInv, LogInv
<1>6. OnlyAllowedCount'
  <2> SUFFICES ASSUME NEW j \in Keys PROVE (Kept(hits[j]) = InWindow(j, now))'
    BY DEF OnlyAllowedCount
  <2>1. Kept(hits[j]) = InWindow(j, now) /\ InWindow(j, now)' = InWindow(j, now)
    BY <1>1 DEF LimiterInv, OnlyAllowedCount, InWindow
  <2>2. Kept(hits[j])' = Kept(hits[j])
    BY <1>1, <1>2, <1>3 DEF Kept
  <2> QED
    BY <2>1, <2>2
<1>7. WindowHolds'
  BY <1>1 DEF LimiterInv, WindowHolds, InWindow
<1> QED
  BY <1>4, <1>5, <1>6, <1>7 DEF LimiterInv

LEMMA ForgetInv ==
  ASSUME LimiterInv, NEW K \in SUBSET Keys, Forget(K)
  PROVE  LimiterInv'
<1> USE LimiterAssumption
<1>1. /\ now' = now
      /\ \A k \in K : hits'[k] = {} /\ allowed'[k] = {}
      /\ \A k \in Keys \ K : hits'[k] = hits[k] /\ allowed'[k] = allowed[k]
  BY DEF Forget
<1>2. LimiterTypeOK'
  BY DEF LimiterInv, LimiterTypeOK, Forget
<1>3. LogInv'
  <2>1. \A k \in K : IsFiniteSet(allowed'[k]) /\ hits'[k] \subseteq allowed'[k]
    BY <1>1, FS_EmptySet
  <2> QED
    BY <1>1, <2>1 DEF LimiterInv, LogInv
<1>4. OnlyAllowedCount'
  <2>1. \A k \in Keys \ K : (Kept(hits[k]) = InWindow(k, now))'
    BY <1>1 DEF LimiterInv, OnlyAllowedCount, Kept, InWindow
  <2>2. \A k \in K : (Kept(hits[k]) = InWindow(k, now))'
    BY <1>1 DEF Kept, InWindow
  <2> QED
    BY <2>1, <2>2 DEF OnlyAllowedCount
<1>5. WindowHolds'
  <2> SUFFICES ASSUME NEW k \in Keys, NEW t \in 0 .. MaxTime
               PROVE  Cardinality(InWindow(k, t)') <= MaxHits
    BY DEF WindowHolds, InWindow
  <2>1. CASE k \in K
    <3>1. InWindow(k, t)' = {}
      BY <1>1, <2>1 DEF InWindow
    <3> QED
      BY <3>1, FS_EmptySet
  <2>2. CASE k \notin K
    <3>1. InWindow(k, t)' = InWindow(k, t)
      BY <1>1, <2>2 DEF InWindow
    <3> QED
      BY <3>1 DEF LimiterInv, WindowHolds
  <2> QED
    BY <2>1, <2>2
<1> QED
  BY <1>2, <1>3, <1>4, <1>5 DEF LimiterInv

LEMMA TickInv ==
  ASSUME LimiterInv, Tick
  PROVE  LimiterInv'
<1> USE LimiterAssumption
<1>1. now \in 0 .. MaxTime /\ now' = now + 1 /\ now' \in 0 .. MaxTime /\ hits' = hits /\ allowed' = allowed
  BY DEF LimiterInv, LimiterTypeOK, Tick
<1>2. \A k \in Keys : \A a \in allowed[k] : a \in Hit /\ a.t <= now
  BY DEF LimiterInv, LimiterTypeOK, LogInv
<1>3. LimiterTypeOK'
  BY <1>1 DEF LimiterInv, LimiterTypeOK
<1>4. LogInv'
  <2>1. \A k \in Keys : \A a \in allowed[k] : a.t <= now + 1
    BY <1>1, <1>2 DEF Hit
  <2> QED
    BY <1>1, <2>1 DEF LimiterInv, LogInv
<1>5. OnlyAllowedCount'
  <2> SUFFICES ASSUME NEW k \in Keys
               PROVE  {a \in hits[k] : a.t + Window > now + 1}
                        = {a \in allowed[k] : a.t <= now + 1 /\ a.t + Window > now + 1}
    BY <1>1 DEF OnlyAllowedCount, Kept, InWindow
  <2>1. {a \in hits[k] : a.t + Window > now} = {a \in allowed[k] : a.t <= now /\ a.t + Window > now}
    BY DEF LimiterInv, OnlyAllowedCount, Kept, InWindow
  <2>2. hits[k] \subseteq allowed[k]
    BY DEF LimiterInv, LogInv
  <2> QED
    BY <1>1, <1>2, <2>1, <2>2 DEF Hit
<1>6. WindowHolds'
  BY <1>1 DEF LimiterInv, WindowHolds, InWindow
<1> QED
  BY <1>3, <1>4, <1>5, <1>6 DEF LimiterInv

\* Every step of the limiter, and a stutter, keeps the invariant.
LEMMA LimiterStepInv == LimiterInv /\ [LimiterNext]_lvars => LimiterInv'
<1> SUFFICES ASSUME LimiterInv, [LimiterNext]_lvars PROVE LimiterInv'
  OBVIOUS
<1>1. CASE UNCHANGED lvars
  BY <1>1 DEF lvars, LimiterInv, LimiterTypeOK, LogInv, OnlyAllowedCount, WindowHolds,
              Kept, InWindow
<1> QED
  BY <1>1, AcceptInv, RefuseInv, ForgetInv, TickInv DEF LimiterNext

-------------------------------------------------------------------------------
\* No window, wherever it begins, holds more than max attempts let through
\* (Allow, ratelimit.go:21).
THEOREM WindowAlwaysHolds == LimiterSpec => []WindowHolds
<1>1. LimiterInv => WindowHolds
  BY DEF LimiterInv
<1> QED
  BY <1>1, LimiterInitInv, LimiterStepInv, PTL DEF LimiterSpec

\* The log counts exactly the attempts let through in the window that ends now:
\* dropping old entries and refusing lock nobody out for longer.
THEOREM OnlyAllowedAlwaysCount == LimiterSpec => []OnlyAllowedCount
<1>1. LimiterInv => OnlyAllowedCount
  BY DEF LimiterInv
<1> QED
  BY <1>1, LimiterInitInv, LimiterStepInv, PTL DEF LimiterSpec
===============================================================================
