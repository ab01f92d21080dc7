-------------------------------- MODULE Paging --------------------------------
(***************************************************************************)
(* The admin's user list (HandleAdminUsers, AdminUsers, pagination): a     *)
(* page is two reads, a count and a LIMIT/OFFSET list, while people sign   *)
(* up and delete their accounts between the reads and between the pages.   *)
(* The admin moves by the links of the page shown, which may be stale, by  *)
(* the search form, or by an address typed in.                             *)
(***************************************************************************)
EXTENDS Integers, FiniteSets

CONSTANTS
  PageSize,  \* adminPageSize
  MaxId,     \* bound: users ever created
  Queries,   \* what is searched for
  Match      \* Match[q]: the user ids whose address contains q

ASSUME PagingAssumption ==
  /\ PageSize \in Nat \ {0} /\ MaxId \in Nat \ {0}
  /\ Match \in [Queries -> SUBSET (1 .. MaxId)]

VARIABLES
  users,   \* the ids in table users; ids and created_at only grow
  lastId,  \* the id given last
  req,     \* the request being handled
  shown,   \* the page in the admin's browser
  walk     \* history: the pages seen since page 1 by following Next

vars == <<users, lastId, req, shown, walk>>

\* What happened meanwhile to the table (changes), and between a count and its
\* list (raced).
Change == {"added", "deleted"}

Request == [pc : {"idle", "count", "list"}, q : Queries, page : 1 .. MaxId + 1,
            pages : 1 .. MaxId + 1, raced : SUBSET Change]
Shown   == [q : Queries, page : 1 .. MaxId, pages : 1 .. MaxId, ids : SUBSET (1 .. MaxId),
            none : BOOLEAN, raced : SUBSET Change]
Walk    == [on : BOOLEAN, had : SUBSET (1 .. MaxId), seen : SUBSET (1 .. MaxId),
            twice : BOOLEAN, changes : SUBSET Change, raced : SUBSET Change]

\* An admin at the empty list of a fresh table.
Init ==
  \E q \in Queries :
    /\ users = {} /\ lastId = 0
    /\ req = [pc |-> "idle", q |-> q, page |-> 1, pages |-> 1, raced |-> {}]
    /\ shown = [q |-> q, page |-> 1, pages |-> 1, ids |-> {}, none |-> TRUE, raced |-> {}]
    /\ walk = [on |-> FALSE, had |-> {}, seen |-> {}, twice |-> FALSE,
               changes |-> {}, raced |-> {}]

Meanwhile(change) ==
  /\ req' = [req EXCEPT !.raced = IF req.pc = "list" THEN @ \cup {change} ELSE @]
  /\ walk' = [walk EXCEPT !.changes = @ \cup {change}]
  /\ UNCHANGED shown

SignUp ==
  /\ lastId < MaxId
  /\ lastId' = lastId + 1
  /\ users' = users \cup {lastId + 1}
  /\ Meanwhile("added")

DeleteUser(u) ==
  /\ u \in users
  /\ users' = users \ {u}
  /\ Meanwhile("deleted")
  /\ UNCHANGED lastId

-------------------------------------------------------------------------------
\* The store's two queries: COUNT(*), and a slice of the rows, newest first.
Matching(q)   == users \cap Match[q]
CountUsers(q) == Cardinality(Matching(q))

ListUsers(q, page) ==
  {u \in Matching(q) : Cardinality({v \in Matching(q) : v > u}) \in
     (page - 1) * PageSize .. page * PageSize - 1}

\* A mutant: the last page is only counted when it is full.
Mutant_NumPages(total) == IF total \div PageSize < 1 THEN 1 ELSE total \div PageSize

\* A mutant: an empty table has no page at all.
Mutant_NumPagesOf(total) == (total + PageSize - 1) \div PageSize

NumPages(total) ==
  LET n == (total + PageSize - 1) \div PageSize IN IF n < 1 THEN 1 ELSE n

\* A mutant: no clamp.
Mutant_Clamp(page, n) == page

Clamp(page, n) == IF page > n THEN n ELSE page

\* GET /admin/users?q=..&page=..; what is no number above 1 is page 1.
Ask(q, page) ==
  /\ req.pc = "idle"
  /\ req' = [pc |-> "count", q |-> q, page |-> IF page > 1 THEN page ELSE 1,
             pages |-> 1, raced |-> {}]
  /\ UNCHANGED <<users, lastId, shown>>

Count ==
  LET n == NumPages(CountUsers(req.q)) IN
  /\ req.pc = "count"
  /\ req' = [req EXCEPT !.pc = "list", !.pages = n, !.page = Clamp(@, n)]
  /\ walk' = IF walk.on /\ walk.seen = {} THEN [walk EXCEPT !.had = Matching(req.q)] ELSE walk
  /\ UNCHANGED <<users, lastId, shown>>

List ==
  LET ids == ListUsers(req.q, req.page) IN
  /\ req.pc = "list"
  /\ req' = [req EXCEPT !.pc = "idle"]
  /\ shown' = [q |-> req.q, page |-> req.page, pages |-> req.pages, ids |-> ids,
               none |-> Matching(req.q) = {}, raced |-> req.raced]
  /\ walk' = [walk EXCEPT !.seen = @ \cup ids, !.twice = @ \/ walk.seen \cap ids # {},
                            !.raced = @ \cup req.raced]
  /\ UNCHANGED <<users, lastId>>

\* One of the queries fails: a 500, from which the admin goes back.
Abort ==
  /\ req.pc # "idle"
  /\ req' = [req EXCEPT !.pc = "idle"]
  /\ walk' = [walk EXCEPT !.on = FALSE]
  /\ UNCHANGED <<users, lastId, shown>>

-------------------------------------------------------------------------------
\* pagination, below a list that is not empty and has more than one page.
HasPager == shown.pages > 1 /\ shown.ids # {}
HasNext  == HasPager /\ shown.page < shown.pages

\* Prev, Next and the numbers of pageWindow but the current one.
Links ==
  IF ~HasPager THEN {}
  ELSE {n \in 1 .. shown.pages :
          n \in {1, shown.pages, shown.page - 1, shown.page + 1} /\ n # shown.page}

\* A mutant: the links of the pager lose the search.
Mutant_PageHref(q) == CHOOSE p \in Queries : Match[q] \subseteq Match[p]

\* The base of pageHref carries the search.
PageHref(q) == q

\* Next continues the walk; all else begins a new one or none.
FollowNext == HasNext /\ Ask(PageHref(shown.q), shown.page + 1) /\ UNCHANGED walk

Begin(on) == walk' = [on |-> on, had |-> {}, seen |-> {}, twice |-> FALSE,
                      changes |-> {}, raced |-> {}]

FollowNumber == \E n \in Links : Ask(PageHref(shown.q), n) /\ Begin(n = 1)

\* The search form (no page), or an address with any page typed in.
Search == \E q \in Queries, n \in 0 .. MaxId : Ask(q, n) /\ Begin(n <= 1)

Next ==
  \/ SignUp \/ \E u \in users : DeleteUser(u)
  \/ Count \/ List \/ Abort \/ FollowNext \/ FollowNumber \/ Search

Spec == Init /\ [][Next]_vars

-------------------------------------------------------------------------------
TypeOK ==
  /\ users \subseteq 1 .. lastId /\ lastId \in 0 .. MaxId
  /\ req \in Request /\ shown \in Shown /\ walk \in Walk

\* "No users match this search" is told only when none does, or when somebody
\* was deleted between the two reads; a stale link or any typed page leads to a
\* page with somebody on it, and a page before the last is full.
EmptyOnlyIfRaced ==
  "deleted" \notin shown.raced =>
    /\ shown.ids = {} => shown.none
    /\ shown.page < shown.pages => Cardinality(shown.ids) = PageSize

\* An admin who goes through a list by Next sees everybody who was on it at the
\* start, also when people sign up on the way. Only a deletion makes a row slip
\* past, or a sign-up between the two reads, which pushes one off the last page.
WalkSeesAll ==
  walk.on /\ req.pc = "idle" /\ ~HasNext =>
    \/ walk.had \subseteq walk.seen
    \/ "deleted" \in walk.changes \/ "added" \in walk.raced

\* Nobody is seen twice on the way unless somebody signed up or was deleted.
WalkSeesOnce == walk.on /\ walk.twice => walk.changes # {}
===============================================================================
