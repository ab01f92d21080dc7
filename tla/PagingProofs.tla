----------------------------- MODULE PagingProofs -----------------------------
(***************************************************************************)
(* Theorems about Paging, for any page size, any number of users and any   *)
(* searches. A user's place on a list is the number of rows before it; the *)
(* places of a list are 0, 1, ... without gaps, and sign-ups only push     *)
(* somebody back.                                                          *)
(***************************************************************************)
EXTENDS Paging, FiniteSetTheorems, FunctionTheorems, TLAPS

Above(S, u)  == Cardinality({v \in S : v > u})
Before(q, u) == Above(Matching(q), u)

\* A request past its count is for a page there was then, and what has happened
\* to the table since shows in the number of pages.
RequestInv ==
  /\ req.pc \in {"count", "list"} => req.raced \subseteq walk.changes
  /\ req.pc = "list" =>
       /\ req.page <= req.pages /\ req.pages <= MaxId
       /\ "deleted" \notin req.raced => req.pages <= NumPages(CountUsers(req.q))
       /\ req.raced = {} => req.pages = NumPages(CountUsers(req.q))

\* A walk through a list that does not change: what has been seen are the places
\* before the page that comes next, which there is.
OnceInv ==
  walk.on /\ walk.changes = {} =>
    /\ ~walk.twice
    /\ req.pc = "count" => req.page <= NumPages(CountUsers(req.q))
    /\ req.pc # "idle" => \A u \in walk.seen : Before(req.q, u) < (req.page - 1) * PageSize
    /\ req.pc = "idle" => /\ shown.pages = NumPages(CountUsers(shown.q))
                          /\ \A u \in walk.seen : Before(shown.q, u) < shown.page * PageSize

\* A walk through a list that only grows: who was on it and has not been seen is
\* still to come.
AllInv ==
  walk.on /\ "deleted" \notin walk.changes /\ "added" \notin walk.raced =>
    /\ walk.seen = {} => walk.had = {} \/ req.pc # "count"
    /\ req.pc = "count" /\ walk.seen = {} => req.page = 1
    /\ req.pc # "idle" =>
         /\ walk.had \subseteq Matching(req.q)
         /\ \A u \in walk.had \ walk.seen : Before(req.q, u) >= (req.page - 1) * PageSize
    /\ req.pc = "idle" =>
         /\ walk.had \subseteq Matching(shown.q) /\ shown.ids \subseteq walk.seen
         /\ \A u \in walk.had \ walk.seen : Before(shown.q, u) >= shown.page * PageSize

PageInv == shown.page <= shown.pages

Inv == /\ TypeOK /\ RequestInv /\ PageInv /\ OnceInv /\ AllInv
       /\ EmptyOnlyIfRaced /\ WalkSeesAll

-------------------------------------------------------------------------------
(* Numbers of pages.                                                           *)

LEMMA Times ==
  ASSUME NEW a \in Int, NEW b \in Int, a <= b
  PROVE  a * PageSize <= b * PageSize
<1>1. PageSize \in Nat
  BY PagingAssumption
<1>2. b * PageSize = a * PageSize + (b - a) * PageSize
  BY <1>1
<1>3. (b - a) * PageSize >= 0
  BY <1>1
<1> QED
  BY <1>1, <1>2, <1>3

\* Dividing and rounding up: the last page is not empty, and no row is left over.
LEMMA LastPage ==
  ASSUME NEW n \in Nat
  PROVE  /\ NumPages(n) \in Nat \ {0}
         /\ n <= NumPages(n) * PageSize
         /\ NumPages(n) > 1 => (NumPages(n) - 1) * PageSize < n
<1> DEFINE t == n + PageSize - 1
           d == t \div PageSize
<1>1. PageSize \in Nat \ {0} /\ t \in Nat
  BY PagingAssumption
<1>2. d \in Nat /\ d * PageSize <= t /\ t < d * PageSize + PageSize
  <2> HIDE DEF t
  <2>1. d \in Int /\ d >= 0
    BY <1>1
  <2>2. d * PageSize <= t
    BY <1>1
  <2>3. t < d * PageSize + PageSize
    BY <1>1
  <2> QED
    BY <2>1, <2>2, <2>3
<1>3. NumPages(n) = IF d < 1 THEN 1 ELSE d
  BY DEF NumPages
<1>4. (d - 1) * PageSize = d * PageSize - PageSize
  BY <1>1, <1>2
<1>5. CASE d < 1
  BY <1>1, <1>2, <1>3, <1>5
<1>6. CASE d >= 1
  BY <1>1, <1>2, <1>3, <1>4, <1>6
<1> QED
  BY <1>2, <1>5, <1>6

\* More rows make no fewer pages, and there are not more pages than rows.
LEMMA MorePages ==
  ASSUME NEW m \in Nat, NEW n \in Nat, m <= n
  PROVE  NumPages(m) <= NumPages(n)
<1> SUFFICES ASSUME NumPages(m) > NumPages(n) PROVE FALSE
  BY LastPage
<1>1. NumPages(m) \in Nat /\ NumPages(n) \in Nat \ {0} /\ PageSize \in Nat
  BY LastPage, PagingAssumption
<1>2. (NumPages(m) - 1) * PageSize < m
  BY <1>1, LastPage
<1>3. NumPages(n) * PageSize <= (NumPages(m) - 1) * PageSize
  BY <1>1, Times
<1>4. n <= NumPages(n) * PageSize
  BY LastPage
<1> QED
  BY <1>1, <1>2, <1>3, <1>4

LEMMA FewPages ==
  ASSUME NEW n \in Nat, n <= MaxId
  PROVE  NumPages(n) <= MaxId
<1>1. NumPages(n) \in Nat \ {0} /\ PageSize \in Nat \ {0} /\ MaxId \in Nat \ {0}
  BY LastPage, PagingAssumption
<1>2. CASE NumPages(n) > 1
  <2>1. (NumPages(n) - 1) * PageSize < n
    BY <1>2, LastPage
  <2>2. (NumPages(n) - 1) * PageSize >= NumPages(n) - 1
    BY <1>1
  <2> QED
    BY <1>1, <2>1, <2>2
<1> QED
  BY <1>1, <1>2

-------------------------------------------------------------------------------
(* Places on a list of user ids S.                                             *)

LEMMA Places ==
  ASSUME NEW S \in SUBSET (1 .. MaxId)
  PROVE  /\ IsFiniteSet(S) /\ Cardinality(S) \in 0 .. MaxId
         /\ \A u \in 1 .. MaxId : Above(S, u) \in Nat
         /\ \A u \in S : Above(S, u) \in 0 .. Cardinality(S) - 1
<1>1. IsFiniteSet(1 .. MaxId) /\ Cardinality(1 .. MaxId) = MaxId /\ MaxId \in Nat \ {0}
  BY FS_Interval, PagingAssumption
<1>2. IsFiniteSet(S) /\ Cardinality(S) <= MaxId /\ Cardinality(S) \in Nat
  BY <1>1, FS_Subset, FS_CardinalityType
<1>3. ASSUME NEW u \in 1 .. MaxId PROVE Above(S, u) \in Nat
  <2>1. {v \in S : v > u} \in SUBSET S
    OBVIOUS
  <2>2. IsFiniteSet({v \in S : v > u})
    BY <1>2, <2>1, FS_Subset
  <2> QED
    BY <2>2, FS_CardinalityType DEF Above
<1>4. ASSUME NEW u \in S PROVE Above(S, u) < Cardinality(S)
  <2> DEFINE T == {v \in S : v > u}
  <2>1. T \in SUBSET S /\ u \notin T
    OBVIOUS
  <2>2. Cardinality(T) <= Cardinality(S) /\ Cardinality(T) # Cardinality(S)
    <3> HIDE DEF T
    <3> QED
      BY <1>2, <2>1, FS_Subset
  <2> QED
    BY <1>2, <1>3, <2>2 DEF Above
<1> QED
  BY <1>1, <1>2, <1>3, <1>4

\* The older of two users comes later.
LEMMA OlderIsLater ==
  ASSUME NEW S \in SUBSET (1 .. MaxId), NEW u \in S, NEW w \in S, u < w
  PROVE  Above(S, w) < Above(S, u)
<1> DEFINE T == {v \in S : v > u}
           U == {v \in S : v > w}
<1>1. IsFiniteSet(T) /\ U \in SUBSET T /\ w \in T /\ w \notin U
  <2>1. IsFiniteSet(S) /\ T \in SUBSET S
    BY Places
  <2>2. IsFiniteSet(T)
    <3> HIDE DEF T
    <3> QED
      BY <2>1, FS_Subset
  <2>3. u \in Int /\ w \in Int /\ S \subseteq Int
    BY PagingAssumption
  <2>4. w \in T /\ w \notin U
    BY <2>3
  <2>5. \A v \in S : v > w => v > u
    BY <2>3
  <2>6. U \in SUBSET T
    BY <2>5
  <2> QED
    BY <2>2, <2>4, <2>6
<1>2. Cardinality(U) <= Cardinality(T) /\ Cardinality(U) # Cardinality(T)
  <2> HIDE DEF T, U
  <2> QED
    BY <1>1, FS_Subset
<1>3. Above(S, w) = Cardinality(U) /\ Above(S, u) = Cardinality(T)
  BY DEF Above
<1>4. Above(S, w) \in Nat /\ Above(S, u) \in Nat
  BY Places
<1> QED
  BY <1>2, <1>3, <1>4

\* One user on each place, and no place without a user.
LEMMA PlaceTaken ==
  ASSUME NEW S \in SUBSET (1 .. MaxId)
  PROVE  /\ \A u, w \in S : Above(S, u) = Above(S, w) => u = w
         /\ \A k \in 0 .. Cardinality(S) - 1 : \E u \in S : Above(S, u) = k
<1> DEFINE T == 0 .. Cardinality(S) - 1
           f == [u \in S |-> Above(S, u)]
<1>1. \A u, w \in S : Above(S, u) = Above(S, w) => u = w
  <2> SUFFICES ASSUME NEW u \in S, NEW w \in S, Above(S, u) = Above(S, w) PROVE u = w
    OBVIOUS
  <2>1. Above(S, u) \in Nat /\ Above(S, w) \in Nat
    BY Places
  <2>2. ~(u < w) /\ ~(w < u)
    BY <2>1, OlderIsLater
  <2> QED
    BY <2>2
<1>2. IsFiniteSet(T) /\ Cardinality(T) = Cardinality(S)
  <2>1. Cardinality(S) \in Nat
    BY Places
  <2>2. IsFiniteSet(0 .. Cardinality(S) - 1)
        /\ Cardinality(0 .. Cardinality(S) - 1) =
             IF 0 > Cardinality(S) - 1 THEN 0 ELSE Cardinality(S) - 1 - 0 + 1
    BY <2>1, FS_Interval
  <2> QED
    BY <2>1, <2>2
<1>3. f \in [S -> T]
  BY Places
<1>4. f \in Injection(S, T)
  <2>1. \A u, w \in S : f[u] = f[w] => u = w
    BY <1>1
  <2> HIDE DEF f, T
  <2> QED
    BY <1>3, <2>1, Fun_IsInj
<1>5. f \in Surjection(S, T)
  <2> HIDE DEF f, T
  <2> QED
    BY <1>2, <1>4, FS_Injection
<1>6. \A k \in T : \E u \in S : f[u] = k
  <2> HIDE DEF f, T
  <2> QED
    BY <1>5, Fun_SurjectionProperties
<1> QED
  BY <1>1, <1>6

PageOf(S, page) == {u \in S : Above(S, u) \in (page - 1) * PageSize .. page * PageSize - 1}

LEMMA FirstPlace ==
  ASSUME NEW page \in Nat \ {0}
  PROVE  /\ (page - 1) * PageSize \in Nat /\ page * PageSize \in Nat
         /\ page * PageSize = (page - 1) * PageSize + PageSize
  BY PagingAssumption

\* A page that begins on the list has somebody on it.
LEMMA PageNotEmpty ==
  ASSUME NEW S \in SUBSET (1 .. MaxId), NEW page \in Nat \ {0},
         (page - 1) * PageSize < Cardinality(S)
  PROVE  PageOf(S, page) # {}
<1> DEFINE k == (page - 1) * PageSize
<1>1. k \in Nat /\ page * PageSize = k + PageSize /\ PageSize \in Nat \ {0}
  BY FirstPlace, PagingAssumption
<1>2. Cardinality(S) \in Nat /\ k < Cardinality(S)
  BY Places
<1> HIDE DEF k
<1>3. PICK u \in S : Above(S, u) = k
  BY <1>1, <1>2, PlaceTaken
<1>4. k \in k .. page * PageSize - 1
  BY <1>1
<1>5. u \in {v \in S : Above(S, v) \in k .. page * PageSize - 1}
  BY <1>3, <1>4
<1> QED
  BY <1>5 DEF PageOf, k

\* A page that ends on the list is full.
LEMMA PageFull ==
  ASSUME NEW S \in SUBSET (1 .. MaxId), NEW page \in Nat \ {0},
         page * PageSize <= Cardinality(S)
  PROVE  Cardinality(PageOf(S, page)) = PageSize
<1> DEFINE lo == (page - 1) * PageSize
           hi == page * PageSize - 1
           T  == PageOf(S, page)
           f  == [u \in T |-> Above(S, u)]
<1>1. lo \in Nat /\ hi \in Int /\ hi - lo + 1 = PageSize /\ PageSize \in Nat \ {0} /\ lo <= hi
  BY FirstPlace, PagingAssumption
<1>2. Cardinality(S) \in Nat /\ hi <= Cardinality(S) - 1
  BY <1>1, Places
<1>3. T \in SUBSET S /\ \A u \in S : u \in T <=> Above(S, u) \in lo .. hi
  BY DEF PageOf
<1> HIDE DEF lo, hi, T
<1>4. f \in [T -> lo .. hi]
  BY <1>3
<1>5. \A u, w \in T : f[u] = f[w] => u = w
  BY <1>3, PlaceTaken
<1>6. \A k \in lo .. hi : \E u \in T : f[u] = k
  <2> SUFFICES ASSUME NEW k \in lo .. hi PROVE \E u \in T : f[u] = k
    OBVIOUS
  <2>1. k \in 0 .. Cardinality(S) - 1
    BY <1>1, <1>2
  <2>2. PICK u \in S : Above(S, u) = k
    BY <2>1, PlaceTaken
  <2> QED
    BY <1>3, <2>2
<1>7. f \in Bijection(T, lo .. hi)
  <2> HIDE DEF f
  <2> QED
    BY <1>4, <1>5, <1>6, Fun_IsBij
<1>8. IsFiniteSet(T)
  BY <1>3, Places, FS_Subset
<1>9. Cardinality(lo .. hi) = Cardinality(T)
  <2> HIDE DEF f
  <2>1. ExistsBijection(T, lo .. hi)
    BY <1>7 DEF ExistsBijection
  <2> QED
    BY <1>8, <2>1, FS_Bijection
<1>10. Cardinality(lo .. hi) = hi - lo + 1
  BY <1>1, FS_Interval
<1> QED
  BY <1>1, <1>9, <1>10 DEF T

\* Somebody more on the list only pushes others back.
LEMMA MoreBefore ==
  ASSUME NEW S \in SUBSET (1 .. MaxId), NEW T \in SUBSET S, NEW u \in 1 .. MaxId
  PROVE  Above(T, u) <= Above(S, u) /\ Cardinality(T) <= Cardinality(S)
<1>1. IsFiniteSet(S)
  BY Places
<1>2. {v \in S : v > u} \in SUBSET S /\ {v \in T : v > u} \in SUBSET {v \in S : v > u}
  OBVIOUS
<1>3. IsFiniteSet({v \in S : v > u})
  BY <1>1, <1>2, FS_Subset
<1> QED
  BY <1>1, <1>2, <1>3, FS_Subset DEF Above

\* A page that the list has shows somebody, is full unless it is the last, and
\* leaves nobody over if it is.
LEMMA OnList ==
  ASSUME NEW S \in SUBSET (1 .. MaxId), NEW page \in Nat \ {0},
         page <= NumPages(Cardinality(S))
  PROVE  /\ S # {} => PageOf(S, page) # {}
         /\ page < NumPages(Cardinality(S)) => Cardinality(PageOf(S, page)) = PageSize
         /\ page = NumPages(Cardinality(S)) => \A u \in S : Above(S, u) < page * PageSize
<1> DEFINE n == Cardinality(S)
           k == NumPages(n)
<1>1. n \in Nat /\ (S # {} => n > 0) /\ \A u \in S : Above(S, u) \in 0 .. n - 1
  BY Places, FS_EmptySet
<1>2. k \in Nat \ {0} /\ n <= k * PageSize /\ (k > 1 => (k - 1) * PageSize < n)
  BY <1>1, LastPage
<1>3. page <= k
  OBVIOUS
<1> HIDE DEF k
<1>4. (page - 1) * PageSize \in Nat /\ page * PageSize \in Nat /\ (k - 1) * PageSize \in Int
      /\ k * PageSize \in Int
  BY <1>2, FirstPlace, PagingAssumption
<1>5. S # {} => PageOf(S, page) # {}
  <2> SUFFICES ASSUME S # {} PROVE (page - 1) * PageSize < n
    BY PageNotEmpty
  <2>1. CASE page = 1
    <3>1. (page - 1) * PageSize = 0
      BY <2>1, PagingAssumption
    <3> QED
      BY <1>1, <3>1
  <2>2. CASE page > 1
    <3>1. (page - 1) * PageSize <= (k - 1) * PageSize
      BY <1>2, <1>3, Times
    <3> QED
      BY <1>1, <1>2, <1>3, <1>4, <2>2, <3>1
  <2> QED
    BY <2>1, <2>2
<1>6. page < k => Cardinality(PageOf(S, page)) = PageSize
  <2> SUFFICES ASSUME page < k PROVE page * PageSize <= n
    BY PageFull
  <2>1. page * PageSize <= (k - 1) * PageSize
    BY <1>2, Times
  <2> QED
    BY <1>1, <1>2, <1>4, <2>1
<1>7. page = k => \A u \in S : Above(S, u) < page * PageSize
  BY <1>1, <1>2, <1>4
<1> QED
  BY <1>5, <1>6, <1>7 DEF k

-------------------------------------------------------------------------------
(* The lists of a table of users U.                                            *)

LEMMA Lists ==
  ASSUME NEW U \in SUBSET (1 .. MaxId), NEW q
  PROVE  /\ U \cap Match[q] \in SUBSET (1 .. MaxId)
         /\ Cardinality(U \cap Match[q]) \in 0 .. MaxId
         /\ NumPages(Cardinality(U \cap Match[q])) \in 1 .. MaxId
         /\ \A u \in 1 .. MaxId : Above(U \cap Match[q], u) \in Nat
<1>1. MaxId \in Nat \ {0}
  BY PagingAssumption
<1>2. U \cap Match[q] \in SUBSET (1 .. MaxId)
  OBVIOUS
<1>3. Cardinality(U \cap Match[q]) \in 0 .. MaxId
  BY <1>2, Places
<1>4. NumPages(Cardinality(U \cap Match[q])) \in 1 .. MaxId
  BY <1>1, <1>3, LastPage, FewPages
<1> QED
  BY <1>2, <1>3, <1>4, Places

\* A table that grew.
LEMMA Grown ==
  ASSUME NEW V \in SUBSET (1 .. MaxId), NEW U \in SUBSET V, NEW q
  PROVE  /\ NumPages(Cardinality(U \cap Match[q])) <= NumPages(Cardinality(V \cap Match[q]))
         /\ \A u \in 1 .. MaxId : Above(U \cap Match[q], u) <= Above(V \cap Match[q], u)
<1>1. V \cap Match[q] \in SUBSET (1 .. MaxId) /\ U \cap Match[q] \in SUBSET (V \cap Match[q])
  OBVIOUS
<1>2. 1 \in 1 .. MaxId
  BY PagingAssumption
<1>3. Cardinality(U \cap Match[q]) <= Cardinality(V \cap Match[q])
  BY <1>1, <1>2, MoreBefore
<1>4. Cardinality(U \cap Match[q]) \in Nat /\ Cardinality(V \cap Match[q]) \in Nat
  BY <1>1, Places
<1> QED
  BY <1>1, <1>3, <1>4, MoreBefore, MorePages

-------------------------------------------------------------------------------
(* The steps.                                                                  *)

LEMMA InitInv == Init => Inv
<1> SUFFICES ASSUME Init PROVE Inv
  OBVIOUS
<1>1. PICK q \in Queries :
        /\ users = {} /\ lastId = 0
        /\ req = [pc |-> "idle", q |-> q, page |-> 1, pages |-> 1, raced |-> {}]
        /\ shown = [q |-> q, page |-> 1, pages |-> 1, ids |-> {}, none |-> TRUE, raced |-> {}]
        /\ walk = [on |-> FALSE, had |-> {}, seen |-> {}, twice |-> FALSE,
                   changes |-> {}, raced |-> {}]
  BY DEF Init
<1>2. TypeOK
  BY <1>1, PagingAssumption DEF TypeOK, Request, Shown, Walk, Change
<1> QED
  BY <1>1, <1>2
  DEF Inv, RequestInv, PageInv, OnceInv, AllInv, EmptyOnlyIfRaced, WalkSeesAll

LEMMA SignUpInv ==
  ASSUME Inv, SignUp
  PROVE  Inv'
<1>0. TypeOK /\ MaxId \in Nat \ {0}
  BY PagingAssumption DEF Inv
<1>1. TypeOK'
  <2>1. users' \subseteq 1 .. lastId' /\ lastId' \in 0 .. MaxId
    BY <1>0 DEF SignUp, TypeOK
  <2>2. req' \in Request /\ shown' \in Shown /\ walk' \in Walk
    BY <1>0 DEF SignUp, Meanwhile, TypeOK, Request, Walk, Change
  <2> QED
    BY <2>1, <2>2 DEF TypeOK
<1>2. /\ walk'.on = walk.on /\ walk'.had = walk.had /\ walk'.seen = walk.seen
      /\ walk'.raced = walk.raced /\ walk'.changes = walk.changes \cup {"added"}
      /\ req'.pc = req.pc /\ req'.q = req.q /\ req'.page = req.page /\ req'.pages = req.pages
      /\ req'.raced = IF req.pc = "list" THEN req.raced \cup {"added"} ELSE req.raced
      /\ shown' = shown /\ users \subseteq users'
      /\ req.q \in Queries /\ shown.q \in Queries /\ walk.had \subseteq 1 .. MaxId
      /\ req.page \in Nat \ {0} /\ req.pages \in Nat \ {0} /\ shown.page \in Nat \ {0}
  BY <1>0 DEF SignUp, Meanwhile, TypeOK, Request, Shown, Walk
<1>3. /\ users \in SUBSET users' /\ users' \in SUBSET (1 .. MaxId)
      /\ users \in SUBSET (1 .. MaxId)
  BY <1>0, <1>1, <1>2 DEF TypeOK
<1>4. RequestInv'
  <2>1. NumPages(Cardinality(users \cap Match[req.q])) <= NumPages(Cardinality(users' \cap Match[req.q]))
    BY <1>3, Grown
  <2>2. /\ NumPages(Cardinality(users \cap Match[req.q])) \in 1 .. MaxId
        /\ NumPages(Cardinality(users' \cap Match[req.q])) \in 1 .. MaxId
    BY <1>3, Lists
  <2> QED
    BY <1>0, <1>2, <2>1, <2>2 DEF Inv, RequestInv, CountUsers, Matching
<1>5. PageInv' /\ OnceInv' /\ EmptyOnlyIfRaced' /\ WalkSeesAll'
  BY <1>2 DEF Inv, PageInv, OnceInv, EmptyOnlyIfRaced, WalkSeesAll, HasNext, HasPager
<1>6. AllInv'
  <2>1. ASSUME NEW q, NEW u \in 1 .. MaxId, NEW x \in Int, Above(users \cap Match[q], u) >= x
        PROVE  Above(users' \cap Match[q], u) >= x
    <3>1. /\ Above(users \cap Match[q], u) <= Above(users' \cap Match[q], u)
          /\ Above(users \cap Match[q], u) \in Nat /\ Above(users' \cap Match[q], u) \in Nat
      BY <1>3, Grown, Lists
    <3> QED
      BY <2>1, <3>1
  <2>2. (req.page - 1) * PageSize \in Int /\ shown.page * PageSize \in Int
    BY <1>2, FirstPlace
  <2> QED
    BY <1>2, <2>1, <2>2 DEF Inv, AllInv, Before, Matching
<1> QED
  BY <1>1, <1>4, <1>5, <1>6 DEF Inv

LEMMA DeleteUserInv ==
  ASSUME Inv, NEW u \in users, DeleteUser(u)
  PROVE  Inv'
<1>1. TypeOK /\ MaxId \in Nat \ {0}
  BY PagingAssumption DEF Inv
<1>2. TypeOK'
  <2>1. users' \subseteq 1 .. lastId' /\ lastId' \in 0 .. MaxId
    BY <1>1 DEF DeleteUser, TypeOK
  <2>2. req' \in Request /\ shown' \in Shown /\ walk' \in Walk
    BY <1>1 DEF DeleteUser, Meanwhile, TypeOK, Request, Walk, Change
  <2> QED
    BY <2>1, <2>2 DEF TypeOK
<1>3. /\ walk'.on = walk.on /\ walk'.had = walk.had /\ walk'.seen = walk.seen
      /\ walk'.raced = walk.raced /\ walk'.changes = walk.changes \cup {"deleted"}
      /\ req'.pc = req.pc /\ req'.q = req.q /\ req'.page = req.page /\ req'.pages = req.pages
      /\ req'.raced = IF req.pc = "list" THEN req.raced \cup {"deleted"} ELSE req.raced
      /\ shown' = shown
  BY <1>1 DEF DeleteUser, Meanwhile, TypeOK, Request, Shown, Walk
<1> QED
  BY <1>2, <1>3
  DEF Inv, RequestInv, PageInv, OnceInv, AllInv, EmptyOnlyIfRaced, WalkSeesAll, HasNext, HasPager

LEMMA CountInv ==
  ASSUME Inv, Count
  PROVE  Inv'
<1> DEFINE M == users \cap Match[req.q]
           n == NumPages(Cardinality(M))
<1>1. TypeOK /\ MaxId \in Nat \ {0} /\ users \in SUBSET (1 .. MaxId)
  BY PagingAssumption DEF Inv, TypeOK
<1>2. n \in 1 .. MaxId /\ M \in SUBSET (1 .. MaxId) /\ \A u \in 1 .. MaxId : Above(M, u) \in Nat
  BY <1>1, Lists
<1>3. n = NumPages(CountUsers(req.q)) /\ M = Matching(req.q)
  BY DEF CountUsers, Matching
<1> HIDE DEF n, M
<1>4. /\ req.pc = "count" /\ req'.pc = "list" /\ req'.q = req.q /\ req'.raced = req.raced
      /\ req'.pages = n /\ req'.page = IF req.page > n THEN n ELSE req.page
      /\ shown' = shown /\ users' = users /\ lastId' = lastId
      /\ req.q \in Queries /\ req.page \in Nat \ {0} /\ req.raced \subseteq Change
  BY <1>1, <1>3 DEF Count, Clamp, TypeOK, Request
<1>5. /\ walk'.on = walk.on /\ walk'.seen = walk.seen /\ walk'.twice = walk.twice
      /\ walk'.changes = walk.changes /\ walk'.raced = walk.raced
      /\ walk'.had = IF walk.on /\ walk.seen = {} THEN M ELSE walk.had
      /\ walk.had \subseteq 1 .. MaxId
  BY <1>1, <1>3 DEF Count, TypeOK, Walk
<1>6. TypeOK'
  <2>1. req' \in Request
    <3>1. req' = [req EXCEPT !.pc = "list", !.pages = n, !.page = IF req.page > n THEN n ELSE req.page]
      BY <1>3 DEF Count, Clamp
    <3>2. req \in Request /\ req.page \in 1 .. MaxId + 1
      BY <1>1 DEF TypeOK, Request
    <3>3. /\ n \in 1 .. MaxId + 1
          /\ (IF req.page > n THEN n ELSE req.page) \in 1 .. MaxId + 1
      BY <1>1, <1>2, <3>2
    <3> QED
      BY <3>1, <3>2, <3>3 DEF Request
  <2>2. walk' \in Walk
    BY <1>1, <1>2, <1>3 DEF Count, TypeOK, Walk
  <2> QED
    BY <1>1, <1>4, <2>1, <2>2 DEF TypeOK
<1>7. n = NumPages(Cardinality(users' \cap Match[req'.q]))
  BY <1>4 DEF n, M
<1>8. RequestInv'
  BY <1>2, <1>4, <1>5, <1>7 DEF Inv, RequestInv, CountUsers, Matching
<1>9. PageInv' /\ EmptyOnlyIfRaced' /\ WalkSeesAll'
  BY <1>4 DEF Inv, PageInv, EmptyOnlyIfRaced, WalkSeesAll
<1>10. OnceInv'
  <2> SUFFICES ASSUME walk.on, walk.changes = {}
               PROVE  /\ ~walk.twice
                      /\ \A u \in walk.seen : Above(M, u) < (req'.page - 1) * PageSize
    BY <1>3, <1>4, <1>5 DEF OnceInv, Before, Matching
  <2>1. req.page <= n
    BY <1>3, <1>4 DEF Inv, OnceInv
  <2>2. req'.page = req.page
    BY <1>2, <1>4, <2>1
  <2> QED
    BY <1>3, <1>4, <2>2 DEF Inv, OnceInv, Before
<1>11. AllInv'
  <2> SUFFICES ASSUME walk.on, "deleted" \notin walk.changes, "added" \notin walk.raced
               PROVE  /\ walk'.had \subseteq M
                      /\ \A u \in walk'.had \ walk.seen :
                           Above(M, u) >= (req'.page - 1) * PageSize
    BY <1>3, <1>4, <1>5 DEF AllInv, Before, Matching
  <2>1. CASE walk.seen = {}
    <3>1. req.page = 1
      BY <1>4, <2>1 DEF Inv, AllInv
    <3>2. req'.page = 1
      BY <1>2, <1>4, <3>1
    <3>3. (req'.page - 1) * PageSize = 0
      BY <3>2, PagingAssumption
    <3>4. walk'.had = M
      BY <1>5, <2>1
    <3>5. \A u \in M : Above(M, u) >= 0
      BY <1>2
    <3> QED
      BY <3>3, <3>4, <3>5
  <2>2. CASE walk.seen # {}
    <3>1. (req'.page - 1) * PageSize <= (req.page - 1) * PageSize
      <4>1. req'.page \in Nat /\ req'.page <= req.page
        BY <1>2, <1>4
      <4> QED
        BY <1>4, <4>1, Times
    <3>2. (req'.page - 1) * PageSize \in Int /\ (req.page - 1) * PageSize \in Int
      BY <1>2, <1>4, PagingAssumption
    <3>3. /\ walk.had \subseteq M
          /\ \A u \in walk.had \ walk.seen : Above(M, u) >= (req.page - 1) * PageSize
      BY <1>3, <1>4 DEF Inv, AllInv, Before
    <3> QED
      BY <1>2, <1>5, <2>2, <3>1, <3>2, <3>3
  <2> QED
    BY <2>1, <2>2
<1> QED
  BY <1>6, <1>8, <1>9, <1>10, <1>11 DEF Inv

LEMMA ListInv ==
  ASSUME Inv, List
  PROVE  Inv'
<1> DEFINE M  == users \cap Match[req.q]
           P  == PageOf(M, req.page)
           n  == NumPages(Cardinality(M))
           lo == (req.page - 1) * PageSize
           hi == req.page * PageSize
<1>1. TypeOK /\ MaxId \in Nat \ {0} /\ users \in SUBSET (1 .. MaxId)
  BY PagingAssumption DEF Inv, TypeOK
<1>2. /\ req.pc = "list" /\ req.q \in Queries /\ req.page \in Nat \ {0} /\ req.pages \in Nat
      /\ req.raced \subseteq Change /\ req.page <= req.pages /\ req.pages <= MaxId
      /\ req.raced \subseteq walk.changes
  BY <1>1 DEF List, Inv, RequestInv, TypeOK, Request
<1>3. /\ n \in 1 .. MaxId /\ M \in SUBSET (1 .. MaxId) /\ P \in SUBSET M
      /\ \A u \in 1 .. MaxId : Above(M, u) \in Nat
      /\ \A u \in M : u \in P <=> Above(M, u) \in lo .. hi - 1
      /\ lo \in Nat /\ hi \in Nat
  BY <1>1, <1>2, Lists, FirstPlace DEF PageOf
<1>4. /\ M = Matching(req.q) /\ n = NumPages(CountUsers(req.q)) /\ P = ListUsers(req.q, req.page)
      /\ \A u : Above(M, u) = Before(req.q, u)
  BY DEF CountUsers, Matching, ListUsers, PageOf, Above, Before
<1>5. /\ req.page <= n => /\ M # {} => P # {}
                          /\ req.page < n => Cardinality(P) = PageSize
                          /\ req.page = n => \A u \in M : Above(M, u) < hi
  BY <1>2, <1>3, OnList
<1>6. /\ "deleted" \notin req.raced => req.pages <= n
      /\ req.raced = {} => req.pages = n
  BY <1>2, <1>4 DEF Inv, RequestInv
<1> HIDE DEF n, M, P, lo, hi
<1>7. /\ req'.pc = "idle" /\ users' = users /\ lastId' = lastId
      /\ shown' = [q |-> req.q, page |-> req.page, pages |-> req.pages, ids |-> P,
                   none |-> M = {}, raced |-> req.raced]
  BY <1>1, <1>4 DEF List, TypeOK, Request
<1>8. /\ walk'.on = walk.on /\ walk'.had = walk.had /\ walk'.changes = walk.changes
      /\ walk'.seen = walk.seen \cup P /\ walk'.raced = walk.raced \cup req.raced
      /\ walk'.twice = (walk.twice \/ walk.seen \cap P # {})
      /\ walk.seen \subseteq 1 .. MaxId /\ walk.had \subseteq 1 .. MaxId
  BY <1>1, <1>4 DEF List, TypeOK, Walk
<1>9. TypeOK'
  <2>1. req' \in Request
    BY <1>1 DEF List, TypeOK, Request
  <2>2. shown' \in Shown
    <3>1. req.page \in 1 .. MaxId /\ req.pages \in 1 .. MaxId /\ P \in SUBSET (1 .. MaxId)
      BY <1>1, <1>2, <1>3
    <3>2. (M = {}) \in BOOLEAN
      OBVIOUS
    <3> QED
      BY <1>2, <1>7, <3>1, <3>2 DEF Shown
  <2>3. walk' \in Walk
    <3>1. P \in SUBSET (1 .. MaxId)
      BY <1>3
    <3>2. walk' = [walk EXCEPT !.seen = @ \cup P, !.twice = @ \/ walk.seen \cap P # {},
                               !.raced = @ \cup req.raced]
      BY <1>4 DEF List
    <3>3. (walk.twice \/ walk.seen \cap P # {}) \in BOOLEAN
      OBVIOUS
    <3> QED
      BY <1>1, <1>2, <3>1, <3>2, <3>3 DEF TypeOK, Walk
  <2> QED
    BY <1>1, <1>7, <2>1, <2>2, <2>3 DEF TypeOK
<1>10. RequestInv' /\ PageInv'
  BY <1>2, <1>7 DEF RequestInv, PageInv
<1>11. EmptyOnlyIfRaced'
  <2> SUFFICES ASSUME "deleted" \notin req.raced
               PROVE  /\ P = {} => M = {}
                      /\ req.page < req.pages => Cardinality(P) = PageSize
    BY <1>7 DEF EmptyOnlyIfRaced
  <2>1. req.page <= n /\ (req.page < req.pages => req.page < n)
    BY <1>1, <1>2, <1>3, <1>6
  <2> QED
    BY <1>5, <2>1
<1>12. users' \cap Match[shown'.q] = M
  BY <1>7 DEF M
<1>13. OnceInv'
  <2> SUFFICES ASSUME walk.on, walk.changes = {}
               PROVE  /\ ~walk'.twice /\ req.pages = n
                      /\ \A u \in walk'.seen : Above(M, u) < hi
    BY <1>7, <1>8, <1>12 DEF OnceInv, Before, Matching, CountUsers, n, hi
  <2>1. req.pages = n
    BY <1>2, <1>6
  <2>2. ~walk.twice /\ \A u \in walk.seen : Above(M, u) < lo
    BY <1>2, <1>4 DEF Inv, OnceInv, lo
  <2>3. lo <= hi
    BY <1>2, FirstPlace, PagingAssumption DEF lo, hi
  <2>4. walk.seen \cap P = {}
    <3> SUFFICES ASSUME NEW u \in walk.seen, u \in P PROVE FALSE
      OBVIOUS
    <3>1. Above(M, u) < lo /\ Above(M, u) \in lo .. hi - 1
      BY <1>3, <2>2
    <3> QED
      BY <1>3, <3>1
  <2>5. \A u \in P : Above(M, u) < hi
    BY <1>3
  <2>6. \A u \in walk.seen : Above(M, u) < hi
    BY <1>3, <1>8, <2>2, <2>3
  <2> QED
    BY <1>8, <2>1, <2>2, <2>4, <2>5, <2>6
<1>14. ASSUME walk.on, "deleted" \notin walk.changes, "added" \notin walk'.raced
       PROVE  /\ walk.had \subseteq M /\ req.pages = n
              /\ \A u \in walk.had \ walk'.seen : Above(M, u) >= hi
  <2>1. req.raced = {}
    BY <1>2, <1>8, <1>14 DEF Change
  <2>2. /\ walk.had \subseteq M
        /\ \A u \in walk.had \ walk.seen : Above(M, u) >= lo
    BY <1>2, <1>4, <1>8, <1>14 DEF Inv, AllInv, lo
  <2> QED
    BY <1>3, <1>6, <1>8, <2>1, <2>2
<1>15. AllInv'
  BY <1>7, <1>8, <1>12, <1>14 DEF AllInv, Before, Matching, hi
<1>16. WalkSeesAll'
  <2> SUFFICES ASSUME walk.on, "deleted" \notin walk.changes, "added" \notin walk'.raced,
                      ~(HasNext'), NEW u \in walk.had, u \notin walk'.seen
               PROVE  FALSE
    BY <1>8 DEF WalkSeesAll
  <2>1. u \in M /\ req.pages = n /\ Above(M, u) >= hi /\ Above(M, u) \in Nat
    BY <1>3, <1>14
  <2>2. P # {}
    BY <1>2, <1>5, <2>1
  <2>3. req.page = n
    BY <1>2, <1>7, <2>1, <2>2 DEF HasNext, HasPager
  <2> QED
    BY <1>2, <1>3, <1>5, <2>1, <2>3
<1> QED
  BY <1>9, <1>10, <1>11, <1>13, <1>15, <1>16 DEF Inv

LEMMA AbortInv ==
  ASSUME Inv, Abort
  PROVE  Inv'
<1>1. TypeOK
  BY DEF Inv
<1>2. TypeOK'
  BY <1>1 DEF Abort, TypeOK, Request, Walk
<1>3. req'.pc = "idle" /\ shown' = shown /\ ~walk'.on
  BY <1>1 DEF Abort, TypeOK, Request, Walk
<1> QED
  BY <1>2, <1>3
  DEF Inv, RequestInv, PageInv, OnceInv, AllInv, EmptyOnlyIfRaced, WalkSeesAll

\* What a new request looks like.
LEMMA Asked ==
  ASSUME Inv, NEW q \in Queries, NEW page \in 0 .. MaxId, Ask(q, page), walk' \in Walk
  PROVE  /\ TypeOK' /\ RequestInv' /\ PageInv' /\ EmptyOnlyIfRaced' /\ WalkSeesAll'
         /\ req.pc = "idle" /\ req'.pc = "count" /\ req'.q = q /\ users' = users
         /\ req'.page = IF page > 1 THEN page ELSE 1
<1>1. MaxId \in Nat \ {0}
  BY PagingAssumption
<1>2. /\ req' = [pc |-> "count", q |-> q, page |-> IF page > 1 THEN page ELSE 1,
                 pages |-> 1, raced |-> {}]
      /\ req.pc = "idle" /\ users' = users /\ lastId' = lastId /\ shown' = shown
  BY DEF Ask
<1>3. req' \in Request
  <2>1. (IF page > 1 THEN page ELSE 1) \in 1 .. MaxId + 1 /\ 1 \in 1 .. MaxId + 1
    BY <1>1
  <2> QED
    BY <1>2, <2>1 DEF Request
<1>4. TypeOK'
  BY <1>2, <1>3 DEF Inv, TypeOK
<1> QED
  BY <1>2, <1>4 DEF Inv, RequestInv, PageInv, EmptyOnlyIfRaced, WalkSeesAll

LEMMA FollowNextInv ==
  ASSUME Inv, FollowNext
  PROVE  Inv'
<1>1. /\ TypeOK /\ MaxId \in Nat \ {0} /\ HasNext /\ walk' = walk /\ walk \in Walk
      /\ Ask(shown.q, shown.page + 1)
  BY PagingAssumption DEF Inv, TypeOK, FollowNext, PageHref
<1>2. /\ shown.q \in Queries /\ shown.page \in 1 .. MaxId /\ shown.pages \in 1 .. MaxId
      /\ shown.page + 1 <= shown.pages /\ shown.ids # {}
  BY <1>1 DEF TypeOK, Shown, HasNext, HasPager
<1>3. shown.page + 1 \in 0 .. MaxId
  BY <1>1, <1>2
<1>4. /\ TypeOK' /\ RequestInv' /\ PageInv' /\ EmptyOnlyIfRaced' /\ WalkSeesAll'
      /\ req.pc = "idle" /\ req'.pc = "count" /\ req'.q = shown.q /\ users' = users
      /\ req'.page = IF shown.page + 1 > 1 THEN shown.page + 1 ELSE 1
  BY <1>1, <1>2, <1>3, Asked
<1>5. req'.page = shown.page + 1 /\ req'.page - 1 = shown.page
  BY <1>1, <1>2, <1>4
<1>6. OnceInv'
  BY <1>1, <1>2, <1>4, <1>5 DEF Inv, OnceInv, Before, Matching, CountUsers
<1>7. AllInv'
  BY <1>1, <1>2, <1>4, <1>5 DEF Inv, AllInv, Before, Matching
<1> QED
  BY <1>4, <1>6, <1>7 DEF Inv

LEMMA BeginInv ==
  ASSUME Inv, NEW q \in Queries, NEW page \in 0 .. MaxId, NEW on \in BOOLEAN,
         Ask(q, page), Begin(on), on => page <= 1
  PROVE  Inv'
<1>1. walk' = [on |-> on, had |-> {}, seen |-> {}, twice |-> FALSE,
               changes |-> {}, raced |-> {}]
  BY DEF Begin
<1>2. walk' \in Walk
  BY <1>1 DEF Walk
<1>3. /\ TypeOK' /\ RequestInv' /\ PageInv' /\ EmptyOnlyIfRaced' /\ WalkSeesAll'
      /\ req'.pc = "count" /\ req'.q = q /\ users' = users
      /\ req'.page = IF page > 1 THEN page ELSE 1
  BY <1>2, Asked
<1>4. on => req'.page = 1
  BY <1>3, PagingAssumption
<1>5. NumPages(Cardinality(users' \cap Match[q])) >= 1
  <2>1. users' \in SUBSET (1 .. MaxId)
    BY <1>3, PagingAssumption DEF TypeOK
  <2>2. NumPages(Cardinality(users' \cap Match[q])) \in 1 .. MaxId
    BY <2>1, Lists
  <2> QED
    BY <2>2, PagingAssumption
<1>6. OnceInv'
  BY <1>1, <1>3, <1>4, <1>5 DEF OnceInv, CountUsers, Matching
<1>7. AllInv'
  BY <1>1, <1>3, <1>4 DEF AllInv
<1> QED
  BY <1>3, <1>6, <1>7 DEF Inv

LEMMA NextInv == Inv /\ [Next]_vars => Inv'
<1> SUFFICES ASSUME Inv, [Next]_vars PROVE Inv'
  OBVIOUS
<1>1. TypeOK /\ MaxId \in Nat \ {0}
  BY PagingAssumption DEF Inv
<1>2. CASE SignUp \/ (\E u \in users : DeleteUser(u)) \/ Count \/ List \/ Abort \/ FollowNext
  BY <1>2, SignUpInv, DeleteUserInv, CountInv, ListInv, AbortInv, FollowNextInv
<1>3. CASE FollowNumber
  <2>1. PICK n \in Links : Ask(shown.q, n) /\ Begin(n = 1)
    BY <1>3 DEF FollowNumber, PageHref
  <2>2. shown.q \in Queries /\ shown.pages \in 1 .. MaxId /\ n \in 1 .. shown.pages
    BY <1>1 DEF TypeOK, Shown, Links
  <2>3. n \in 0 .. MaxId /\ (n = 1) \in BOOLEAN /\ (n = 1 => n <= 1)
    BY <1>1, <2>2
  <2> QED
    BY <2>1, <2>2, <2>3, BeginInv
<1>4. CASE Search
  <2>1. PICK q \in Queries, n \in 0 .. MaxId : Ask(q, n) /\ Begin(n <= 1)
    BY <1>4 DEF Search
  <2>2. (n <= 1) \in BOOLEAN /\ (n <= 1 => n <= 1)
    OBVIOUS
  <2> QED
    BY <2>1, <2>2, BeginInv
<1>5. CASE UNCHANGED vars
  <2>1. users' = users /\ lastId' = lastId /\ req' = req /\ shown' = shown /\ walk' = walk
    BY <1>5 DEF vars
  <2>2. TypeOK' /\ PageInv' /\ EmptyOnlyIfRaced' /\ WalkSeesAll'
    BY <2>1 DEF Inv, TypeOK, PageInv, EmptyOnlyIfRaced, WalkSeesAll, HasNext, HasPager
  <2>3. RequestInv'
    BY <2>1 DEF Inv, RequestInv, CountUsers, Matching
  <2>4. OnceInv'
    BY <2>1 DEF Inv, OnceInv, CountUsers, Before, Matching
  <2>5. AllInv'
    BY <2>1 DEF Inv, AllInv, Before, Matching
  <2> QED
    BY <2>2, <2>3, <2>4, <2>5 DEF Inv
<1> QED
  BY <1>2, <1>3, <1>4, <1>5 DEF Next

LEMMA AlwaysInv == Spec => []Inv
BY InitInv, NextInv, PTL DEF Spec

-------------------------------------------------------------------------------
\* Every variable of Paging keeps its type: no page number leaves the range of
\* the pages there can be.
THEOREM PagingTypeCorrect == Spec => []TypeOK
<1>1. Inv => TypeOK
  BY DEF Inv
<1> QED
  BY <1>1, AlwaysInv, PTL

\* A page that is empty, or short and not the last, was raced by a deletion
\* (HandleAdminUsers' clamp against AdminUsers' LIMIT and OFFSET).
THEOREM AlwaysEmptyOnlyIfRaced == Spec => []EmptyOnlyIfRaced
<1>1. Inv => EmptyOnlyIfRaced
  BY DEF Inv
<1> QED
  BY <1>1, AlwaysInv, PTL

\* Whoever goes through the pages by Next sees all who were on the list, unless
\* somebody was deleted on the way or signed up between two reads of one page.
THEOREM WalkAlwaysSeesAll == Spec => []WalkSeesAll
<1>1. Inv => WalkSeesAll
  BY DEF Inv
<1> QED
  BY <1>1, AlwaysInv, PTL

\* Nobody is shown twice on the way through a list that does not change.
THEOREM WalkAlwaysSeesOnce == Spec => []WalkSeesOnce
<1>1. Inv => WalkSeesOnce
  BY DEF Inv, OnceInv, WalkSeesOnce
<1> QED
  BY <1>1, AlwaysInv, PTL
===============================================================================
