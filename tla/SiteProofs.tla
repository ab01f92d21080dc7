------------------------------ MODULE SiteProofs ------------------------------
(***************************************************************************)
(* Theorems about Site and Pages, for every configuration, any addresses   *)
(* and admins, any typed addresses and any number of sessions and mails.   *)
(***************************************************************************)
EXTENDS Site, TLAPS

\* How many more redirects a GET of p may meet: the gated pages and /admin lead
\* to a page that may lead to /login.
Rank(p) ==
  IF p \in {"/premium", "/guide", "/admin"} THEN 2
  ELSE IF p = "/logout" \/ NeedsUser(p) THEN 1 ELSE 0

\* An offer leads to a route.
Good(o) == Routed(conf, o[1], o[2])

\* What somebody may be turned away from: never a page of the sign-in.
Goals == Account \cup AdminPages \cup AdminActions \cup Stripe(Everything)

\* What the tab's sign-in owes.
Due == Owed(tab.goal, tab.lost)

GoogleStart == {"/auth/google/login", "/auth/google/login?mode=link"}

\* The tab: its type and its properties; the login form belongs to /login, which
\* keeps what is owed in next, and Google is asked only when that is /account.
TabInv ==
  /\ tab.pc \in {"page", "hop", "consent"}
  /\ tab.path \in Path /\ tab.next \in Path \cup {""}
  /\ tab.goal \in Goals /\ tab.lost \in BOOLEAN
  /\ tab.csrf \in 0 .. MaxSessions /\ tab.csrf = tab.under /\ tab.hops \in Nat
  /\ tab.res \in {"none", "acted", "refused"}
  /\ \A o \in tab.offers : Good(o) \/ (tab.path = "/pages" /\ o \in Get(NotedForStripe))
  /\ <<"POST", "/login">> \in tab.offers => tab.path = "/login"
  /\ tab.path = "/login" => SafeNext(tab.next) = Due
  /\ tab.landing => tab.path = Due
  /\ tab.pc = "consent" \/ (tab.pc = "hop" /\ tab.path \in GoogleStart) => Due = "/account"
  /\ tab.pc = "hop" => tab.hops + Rank(tab.path) <= 3
  /\ tab.pc # "hop" => tab.hops = 0
  /\ tab.asked => tab.pc = "consent"
  /\ tab.pc = "consent" => conf.google

\* A mailed link carries what is owed.
MailInv ==
  \A m \in mails :
    /\ m \in [to : Addresses, next : Path \cup {""}, goal : Goals, lost : BOOLEAN]
    /\ SafeNext(m.next) = Owed(m.goal, m.lost)

\* The browser: the state cookie of a Connect under way is gone or says so.
BrowserInv ==
  /\ conf \in Confs
  /\ sess \in [Sessions -> Addresses \cup {NoOne}] /\ cookie \in 0 .. MaxSessions
  /\ oauth \in {"none", "login", "link"}
  /\ tab.asked => oauth \in {"none", "link"}

\* A page with a gate was rendered for somebody, whose session it still is unless it
\* has ended: its place in the table is not taken again while the page is shown.
PageInv ==
  /\ tab.under \in 0 .. MaxSessions /\ tab.seen \in Addresses \cup {NoOne}
  /\ IF tab.under = 0 THEN tab.seen = NoOne ELSE sess[tab.under] \in {tab.seen, NoOne}

Inv == BrowserInv /\ MailInv /\ TabInv /\ PageInv

-------------------------------------------------------------------------------
(* The pages.                                                                  *)

\* What every page offers is routed, whoever is signed in.
LEMMA FrameRouted ==
  ASSUME NEW u
  PROVE  \A o \in Get(Navbar(u) \cup FooterLinks) : Good(o) /\ o # <<"POST", "/login">>
  BY DEF Get, Navbar, HeaderLinks, FooterLinks, AccountMenu, Good, Routed, Open, Account

\* A body of routed offers without the login form makes a page of them.
BodyOK(body) == \A o \in body : Good(o) /\ o # <<"POST", "/login">>

LEMMA PageRouted ==
  ASSUME NEW u, NEW body, BodyOK(body)
  PROVE  BodyOK(Page(u, body))
  BY FrameRouted DEF Page, BodyOK

LEMMA PlainBodies ==
  BodyOK({}) /\ BodyOK(Home) /\ BodyOK(Messages) /\ BodyOK(LoginSent) /\ BodyOK(VerifyError)
    /\ BodyOK(NotFound)
  BY DEF BodyOK, Home, Messages, LoginSent, VerifyError, NotFound, Get, Post, Good, Routed, Open

LEMMA ShellBodies ==
  ASSUME NEW body, BodyOK(body)
  PROVE  BodyOK(AccountShell(body)) /\ BodyOK(AdminShell(body))
<1>1. BodyOK(Get({"/"} \cup AccountTabs)) /\ BodyOK(Get({"/", "/admin/users"}))
  BY DEF BodyOK, Get, AccountTabs, Good, Routed, Open, Account, AdminPages
<1> QED
  BY <1>1 DEF BodyOK, AccountShell, AdminShell

LEMMA AccountBodies ==
  /\ BodyOK(Profile) /\ BodyOK(Danger)
  /\ \A others, linked \in BOOLEAN : BodyOK(Security(conf, others, linked))
<1>1. BodyOK(Post({"/account"})) /\ BodyOK(Post({"/account/delete"}))
  BY DEF BodyOK, Post, Good, Routed, Account
<1>2. ASSUME NEW others \in BOOLEAN, NEW linked \in BOOLEAN
      PROVE  BodyOK(Security(conf, others, linked))
  <2>1. BodyOK(LoginMethods(conf, linked))
    BY DEF BodyOK, LoginMethods, Get, Post, Good, Routed, Account, Google
  <2>2. BodyOK(IF others THEN Post({"/account/sessions/revoke", "/account/sessions/revoke-all"})
               ELSE {})
    BY DEF BodyOK, Post, Good, Routed, Account
  <2>3. BodyOK(LoginMethods(conf, linked) \cup
          IF others THEN Post({"/account/sessions/revoke", "/account/sessions/revoke-all"}) ELSE {})
    BY <2>1, <2>2 DEF BodyOK
  <2> QED
    BY <2>3, ShellBodies DEF Security
<1> QED
  BY <1>1, <1>2, ShellBodies DEF Profile, Danger

\* Without Stripe the billing page offers no product, with it every form leads to
\* one of Stripe's routes.
LEMMA BillingBody ==
  \A customer, owned \in BOOLEAN : BodyOK(Billing(conf, customer, owned))
<1> SUFFICES ASSUME NEW customer \in BOOLEAN, NEW owned \in BOOLEAN
             PROVE  BodyOK(Billing(conf, customer, owned))
  OBVIOUS
<1> DEFINE rows == IF conf.stripe THEN UNION {BillingRow(p, customer, owned) : p \in conf.products}
                   ELSE {}
<1>1. BodyOK(rows)
  <2>1. CASE conf.stripe
    <3>1. ASSUME NEW p PROVE BodyOK(BillingRow(p, customer, owned))
      BY <2>1 DEF BillingRow, BodyOK, Post, Good, Routed, Stripe
    <3> QED
      BY <2>1, <3>1 DEF BodyOK
  <2>2. CASE ~conf.stripe
    BY <2>2 DEF BodyOK
  <2> QED
    BY <2>1, <2>2
<1> QED
  BY <1>1, ShellBodies DEF Billing

LEMMA AdminBodies ==
  BodyOK(AdminUsers) /\ \A owned \in BOOLEAN : BodyOK(AdminUserDetail(owned))
<1>1. BodyOK(Get({"/admin/users/1", "/admin/users?page=2"}))
  BY DEF BodyOK, Get, Good, Routed, AdminPages
<1>2. \A owned \in BOOLEAN :
        BodyOK(Post(AdminActions \ IF owned THEN {} ELSE {"/admin/users/1/entitlements/revoke"}))
  BY DEF BodyOK, Post, Good, Routed, AdminActions
<1> QED
  BY <1>1, <1>2, ShellBodies DEF AdminUsers, AdminUserDetail

\* The developers' pages are there only when their links are.
LEMMA DevBodies ==
  ASSUME conf.debug
  PROVE  /\ BodyOK(DevEmailsIndex)
         /\ \A o \in Get(PageCatalog) : /\ Good(o) \/ o \in Get(NotedForStripe)
                                        /\ o # <<"POST", "/login">>
<1>1. BodyOK(DevEmailsIndex)
  BY DEF DevEmailsIndex, BodyOK, Get, Good, Routed, Dev
<1>2. \A p \in PageCatalog : Routed(conf, "GET", p) \/ p \in NotedForStripe
  BY DEF PageCatalog, NotedForStripe, Routed, Dev, Open, Account, AdminPages
<1> QED
  BY <1>1, <1>2 DEF Get, Good

-------------------------------------------------------------------------------
(* The ways a step leaves the tab.                                             *)

\* How many redirects may follow a GET of one of the site's addresses.
LEMMA RankIsSmall ==
  ASSUME NEW p
  PROVE  Rank(p) \in 0 .. 2
  BY DEF Rank

LEMMA ProtectedRank ==
  ASSUME NEW p, NeedsUser(p)
  PROVE  Rank(p) \in 1 .. 2 /\ p \in Path /\ p # "/login" /\ p # ""
<1>1. p \in Path
  BY DEF NeedsUser, Path, Stripe, Everything
<1>2. p # "/login" /\ p # ""
  BY DEF NeedsUser, Account, AdminPages, AdminActions, Stripe
<1>3. Rank(p) \in 1 .. 2
  BY DEF Rank
<1> QED
  BY <1>1, <1>2, <1>3

LEMMA OpenRanks ==
  \A p \in {"/", "/login", "/login/sent", "/messages"} : /\ p \in Path /\ Rank(p) = 0
                                                         /\ p \notin GoogleStart
  BY DEF Rank, NeedsUser, Path, Open, Account, AdminPages, AdminActions, Stripe, GoogleStart

LEMMA AreaRanks ==
  \A p \in {"/account", "/account/security", "/account/billing", "/account/delete",
            "/admin/users", "/admin/users/1"} : /\ p \in Path /\ Rank(p) = 1 /\ p # "/login"
                                                /\ p \notin GoogleStart
  BY DEF Rank, NeedsUser, Path, Account, AdminPages, AdminActions, Stripe, GoogleStart

LEMMA GoalIsPath ==
  ASSUME NEW p \in Goals
  PROVE  p \in Path /\ p # "/login" /\ p # "" /\ p \notin GoogleStart /\ PathOf(p) \in Goals
<1>1. p \in Path
  BY DEF Goals, Path
<1>2. p # "/login" /\ p # "" /\ p \notin GoogleStart
  BY DEF Goals, Account, AdminPages, AdminActions, Stripe, GoogleStart
<1>3. PathOf(p) \in Goals
  BY DEF PathOf, Goals, AdminPages
<1> QED
  BY <1>1, <1>2, <1>3

\* What is owed is a page with a gate, and SafeNext leaves it alone.
LEMMA OwedIsGoal ==
  ASSUME NEW goal \in Goals, NEW lost \in BOOLEAN
  PROVE  Owed(goal, lost) \in Goals /\ SafeNext(Owed(goal, lost)) = Owed(goal, lost)
<1>1. "/account" \in Goals /\ PathOf(goal) \in Goals
  BY GoalIsPath DEF Goals, Account
<1>2. Owed(goal, lost) \in Goals
  BY <1>1 DEF Owed
<1> QED
  BY <1>2, GoalIsPath DEF SafeNext

\* The tab's invariant, for what a step leaves in the tab.
LEMMA TabKeeps ==
  ASSUME conf' = conf,
         tab'.pc \in {"page", "hop", "consent"}, tab'.path \in Path,
         tab'.next \in Path \cup {""}, tab'.goal \in Goals, tab'.lost \in BOOLEAN,
         tab'.csrf \in 0 .. MaxSessions, tab'.csrf = tab'.under, tab'.hops \in Nat,
         tab'.res \in {"none", "acted", "refused"},
         \A o \in tab'.offers : Good(o) \/ (tab'.path = "/pages" /\ o \in Get(NotedForStripe)),
         <<"POST", "/login">> \in tab'.offers => tab'.path = "/login",
         tab'.path = "/login" => SafeNext(tab'.next) = Owed(tab'.goal, tab'.lost),
         tab'.landing => tab'.path = Owed(tab'.goal, tab'.lost),
         tab'.pc = "consent" \/ (tab'.pc = "hop" /\ tab'.path \in GoogleStart)
           => Owed(tab'.goal, tab'.lost) = "/account",
         tab'.pc = "hop" => tab'.hops + Rank(tab'.path) <= 3,
         tab'.pc # "hop" => tab'.hops = 0,
         tab'.asked => tab'.pc = "consent",
         tab'.pc = "consent" => conf.google
  PROVE  TabInv'
<1>1. Path' = Path /\ Goals' = Goals
  BY DEF Path, Goals
<1>2. (tab.pc = "hop" => tab.hops + Rank(tab.path) <= 3)'
  BY DEF Rank, NeedsUser
<1>3. (/\ tab.pc \in {"page", "hop", "consent"} /\ tab.lost \in BOOLEAN
       /\ tab.path \in Path /\ tab.next \in Path \cup {""} /\ tab.goal \in Goals)'
  BY <1>1
<1>4. (\A o \in tab.offers : Good(o) \/ (tab.path = "/pages" /\ o \in Get(NotedForStripe)))'
  BY DEF Good
<1>5. Due' = Owed(tab'.goal, tab'.lost)
  BY DEF Due, Owed
<1>6. (tab.path = "/login" => SafeNext(tab.next) = Due)'
  BY <1>5 DEF SafeNext
<1>7. (/\ tab.landing => tab.path = Due
       /\ tab.pc = "consent" \/ (tab.pc = "hop" /\ tab.path \in GoogleStart)
            => Due = "/account")'
  BY <1>5 DEF GoogleStart
<1> QED
  BY <1>2, <1>3, <1>4, <1>6, <1>7 DEF TabInv

LEMMA Zero == 0 \in 0 .. MaxSessions /\ "/account" \in Goals /\ "blank" \in Path
                /\ "/login" \in Path /\ Owed("/account", FALSE) = "/account"
                /\ SafeNext("") = "/account"
  BY SiteAssumption DEF SiteAssumption, Goals, Path, Account, Open, Owed, PathOf, SafeNext

\* What goes on to p, with the page asked for or without.
LEMMA OnwardOwes ==
  ASSUME tab.goal \in Goals, NEW p, NEW lost \in BOOLEAN
  PROVE  /\ Onward(p, lost) = [Fresh EXCEPT !.path = p, !.goal = Onward(p, lost).goal,
                                            !.lost = Onward(p, lost).lost]
         /\ Onward(p, lost).goal \in Goals /\ Onward(p, lost).lost \in BOOLEAN
         /\ lost => Owed(Onward(p, lost).goal, Onward(p, lost).lost) = "/account"
         /\ ~SigningIn(p) => Owed(Onward(p, lost).goal, Onward(p, lost).lost) = "/account"
<1> DEFINE g == IF SigningIn(p) THEN tab.goal ELSE "/account"
           l == SigningIn(p) /\ lost /\ tab.goal # "/account"
<1>1. /\ Onward(p, lost) = [Fresh EXCEPT !.path = p, !.goal = g, !.lost = l]
      /\ Onward(p, lost).goal = g /\ Onward(p, lost).lost = l
  BY DEF Onward, Fresh
<1>2. g \in Goals /\ l \in BOOLEAN
  BY Zero
<1>3. (lost \/ ~SigningIn(p)) => Owed(g, l) = "/account"
  BY DEF Owed, PathOf
<1> QED
  BY <1>1, <1>2, <1>3

\* Requests and redirects to an address of the site, with redirects enough left.
LEMMA RequestKeeps ==
  ASSUME conf' = conf, tab.goal \in Goals, NEW p \in Path, Request(p)
  PROVE  TabInv'
<1> DEFINE o == Onward(p, TRUE)
<1>1. /\ o = [Fresh EXCEPT !.path = p, !.goal = o.goal, !.lost = o.lost]
      /\ o.goal \in Goals /\ o.lost \in BOOLEAN /\ Owed(o.goal, o.lost) = "/account"
  BY OnwardOwes
<1>2. tab' = [o EXCEPT !.pc = "hop"]
  BY DEF Request
<1> HIDE DEF o
<1>3. tab' = [Fresh EXCEPT !.pc = "hop", !.path = p, !.goal = o.goal, !.lost = o.lost]
  BY <1>1, <1>2 DEF Fresh
<1>4. /\ tab'.pc = "hop" /\ tab'.path = p /\ tab'.next = "" /\ tab'.offers = {}
      /\ tab'.goal = o.goal /\ tab'.lost = o.lost /\ tab'.csrf = 0 /\ tab'.under = 0
      /\ tab'.hops = 0 /\ ~tab'.landing /\ ~tab'.asked /\ tab'.res = "none"
  BY <1>3 DEF Fresh
<1>5. tab'.hops \in Nat /\ tab'.hops + Rank(tab'.path) <= 3
  <2>1. Rank(tab'.path) \in 0 .. 2
    BY RankIsSmall
  <2>2. tab'.hops = 0
    BY <1>4
  <2> QED
    BY <2>1, <2>2
<1>6. SafeNext(tab'.next) = "/account" /\ Owed(tab'.goal, tab'.lost) = "/account"
  BY <1>1, <1>4, Zero
<1> QED
  BY <1>1, <1>4, <1>5, <1>6, Zero, TabKeeps

LEMMA RedirectKeeps ==
  ASSUME conf' = conf, tab.goal \in Goals, tab.lost \in BOOLEAN, NEW p \in Path \ GoogleStart,
         tab.hops \in Nat, tab.hops + 1 + Rank(p) <= 3, Redirect(p)
  PROVE  TabInv'
<1> DEFINE o == Onward(p, tab.lost \/ p = "/login")
<1>1. /\ o = [Fresh EXCEPT !.path = p, !.goal = o.goal, !.lost = o.lost]
      /\ o.goal \in Goals /\ o.lost \in BOOLEAN
      /\ p = "/login" => Owed(o.goal, o.lost) = "/account"
  BY OnwardOwes
<1>2. tab' = [o EXCEPT !.pc = "hop", !.hops = tab.hops + 1]
  BY DEF Redirect
<1> HIDE DEF o
<1>3. tab' = [Fresh EXCEPT !.pc = "hop", !.path = p, !.goal = o.goal, !.lost = o.lost,
                           !.hops = tab.hops + 1]
  BY <1>1, <1>2 DEF Fresh
<1>4. /\ tab'.pc = "hop" /\ tab'.path = p /\ tab'.next = "" /\ tab'.offers = {}
      /\ tab'.goal = o.goal /\ tab'.lost = o.lost /\ tab'.csrf = 0 /\ tab'.under = 0
      /\ tab'.hops = tab.hops + 1 /\ ~tab'.landing /\ ~tab'.asked /\ tab'.res = "none"
  BY <1>3 DEF Fresh
<1>5. tab'.hops \in Nat /\ tab'.hops + Rank(tab'.path) <= 3
  <2>1. Rank(tab'.path) = Rank(p)
    BY <1>4, Zenon
  <2>2. tab'.hops = tab.hops + 1
    BY <1>4
  <2> QED
    BY <2>1, <2>2
<1>6. tab'.path = "/login" => SafeNext(tab'.next) = Owed(tab'.goal, tab'.lost)
  BY <1>1, <1>4, Zero
<1> QED
  BY <1>1, <1>4, <1>5, <1>6, Zero, TabKeeps

LEMMA ActedKeeps ==
  ASSUME conf' = conf, NEW p \in Path \ {"/login"}, Acted(p)
  PROVE  TabInv'
<1>1. /\ tab'.pc = "hop" /\ tab'.path = p /\ tab'.next = "" /\ tab'.offers = {}
      /\ tab'.goal = "/account" /\ tab'.lost = FALSE /\ tab'.csrf = 0 /\ tab'.under = 0
      /\ tab'.hops = 1 /\ ~tab'.landing /\ ~tab'.asked /\ tab'.res = "acted"
  BY DEF Acted, Fresh
<1>2. tab'.hops \in Nat /\ tab'.hops + Rank(tab'.path) <= 3
  <2>1. Rank(tab'.path) \in 0 .. 2
    BY RankIsSmall
  <2>2. tab'.hops = 1
    BY <1>1
  <2> QED
    BY <2>1, <2>2
<1>3. Owed(tab'.goal, tab'.lost) = "/account"
  BY <1>1, Zero
<1> QED
  BY <1>1, <1>2, <1>3, Zero, TabKeeps

LEMMA LandKeeps ==
  ASSUME conf' = conf, NEW next, NEW goal \in Goals, NEW lost \in BOOLEAN,
         SafeNext(next) = Owed(goal, lost), Land(next, goal, lost)
  PROVE  TabInv'
<1>1. Rank(tab'.path) \in 0 .. 2
  BY RankIsSmall
<1>2. tab'.hops = 1
  BY DEF Land, Fresh
<1>3. tab'.hops + Rank(tab'.path) <= 3
  BY <1>1, <1>2
<1>4. Owed(goal, lost) \in Path /\ Owed(goal, lost) # "/login" /\ Owed(goal, lost) \notin GoogleStart
  BY OwedIsGoal, GoalIsPath
<1> QED
  BY <1>3, <1>4, Zero, TabKeeps DEF Land, Fresh

LEMMA TurnKeeps ==
  ASSUME conf' = conf, NEW p, NeedsUser(p), tab.hops \in 0 .. 2, Turn(p)
  PROVE  TabInv'
<1>1. p \in Goals
  BY DEF NeedsUser, Goals, Stripe, Everything
<1>2. Owed(p, FALSE) = PathOf(p) /\ SafeNext(PathOf(p)) = Owed(p, FALSE)
  BY <1>1, OwedIsGoal DEF Owed
<1>3. PathOf(p) \in Path
  BY <1>1, GoalIsPath
<1>4. Rank("/login") = 0 /\ "/login" \notin GoogleStart
  BY OpenRanks
<1>5. /\ tab'.pc = "hop" /\ tab'.path = "/login" /\ tab'.next = PathOf(p) /\ tab'.offers = {}
      /\ tab'.goal = p /\ tab'.lost = FALSE /\ tab'.csrf = 0 /\ tab'.under = 0
      /\ tab'.hops = tab.hops + 1 /\ ~tab'.landing /\ ~tab'.asked /\ tab'.res = "none"
  BY DEF Turn, Fresh
<1>6. tab'.hops \in Nat /\ tab'.hops + Rank(tab'.path) <= 3
  BY <1>4, <1>5
<1>7. tab'.path \notin GoogleStart
  BY <1>4, <1>5
<1> QED
  BY <1>1, <1>2, <1>3, <1>5, <1>6, <1>7, Zero, TabKeeps

\* A page of the site.
LEMMA ShowKeeps ==
  ASSUME conf' = conf, cookie \in 0 .. MaxSessions, tab.goal \in Goals, tab.lost \in BOOLEAN,
         NEW p \in Path \ {"/login"}, NEW body,
         \A o \in body : /\ Good(o) \/ (p = "/pages" /\ o \in Get(NotedForStripe))
                         /\ o # <<"POST", "/login">>,
         Show(p, body)
  PROVE  TabInv'
<1> DEFINE o == Onward(p, tab.lost)
           token == CSRFToken(p)
<1>1. /\ o = [Fresh EXCEPT !.path = p, !.goal = o.goal, !.lost = o.lost]
      /\ o.goal \in Goals /\ o.lost \in BOOLEAN
  BY OnwardOwes
<1>2. token \in 0 .. MaxSessions /\ token = IF NeedsUser(p) THEN cookie ELSE 0
  BY Zero DEF CSRFToken
<1>3. tab' = [[o EXCEPT !.offers = Page(User, body)] EXCEPT
                !.csrf = token, !.seen = IF NeedsUser(p) THEN User ELSE NoOne,
                !.under = IF NeedsUser(p) THEN cookie ELSE 0]
  BY DEF Show, Shown
<1> HIDE DEF o, token
<1>4. tab' = [Fresh EXCEPT !.path = p, !.goal = o.goal, !.lost = o.lost,
                           !.offers = Page(User, body), !.csrf = token,
                           !.seen = IF NeedsUser(p) THEN User ELSE NoOne, !.under = token]
  BY <1>1, <1>2, <1>3 DEF Fresh
<1>5. \A x \in Page(User, body) : /\ Good(x) \/ (p = "/pages" /\ x \in Get(NotedForStripe))
                                  /\ x # <<"POST", "/login">>
  BY FrameRouted DEF Page
<1> QED
  BY <1>1, <1>2, <1>4, <1>5, Zero, TabKeeps DEF Fresh

LEMMA BlankKeeps ==
  ASSUME conf' = conf, NEW res \in {"none", "acted", "refused"}, Blank(res)
  PROVE  TabInv'
  BY Zero, TabKeeps DEF Blank, Fresh

\* The login page keeps what is owed.
LEMMA ShowLoginKeeps ==
  ASSUME conf' = conf, TabInv, NEW next \in Path \cup {""}, SafeNext(next) = Due,
         ShowLogin(next)
  PROVE  TabInv'
<1>1. \A o \in Page(User, Login(conf)) : Good(o)
  <2>1. \A o \in Login(conf) : Good(o)
    BY DEF Login, Get, Post, Good, Routed, Open, Google
  <2> QED
    BY <2>1, FrameRouted DEF Page
<1>2. tab.goal \in Goals /\ tab.lost \in BOOLEAN
  BY DEF TabInv
<1> DEFINE lost == tab.lost /\ tab.goal # "/account"
<1>3. Owed(tab.goal, lost) = Due /\ lost \in BOOLEAN
  BY <1>2 DEF Due, Owed, PathOf
<1>4. Due \in Path /\ SafeNext(Due) = Due
  BY <1>2, OwedIsGoal, GoalIsPath DEF Due
<1>5. tab' = [Fresh EXCEPT !.path = "/login", !.goal = tab.goal, !.lost = lost,
                           !.offers = Page(User, Login(conf)), !.next = Due]
  BY DEF ShowLogin, Shown, Onward, SigningIn, Fresh
<1> QED
  BY <1>1, <1>2, <1>3, <1>4, <1>5, Zero, TabKeeps DEF Fresh

LEMMA ShowPage ==
  ASSUME conf' = conf, cookie \in 0 .. MaxSessions, tab.goal \in Goals, tab.lost \in BOOLEAN, NEW p \in Path, p # "/login",
         NEW body, BodyOK(body), Show(p, body)
  PROVE  TabInv'
  BY ShowKeeps DEF BodyOK

LEMMA TabStays ==
  ASSUME conf' = conf, tab' = tab, TabInv
  PROVE  TabInv'
  BY TabKeeps DEF TabInv, Due

\* What a page offers is an address of the site.
LEMMA OfferedIsPath ==
  ASSUME TabInv, NEW o \in tab.offers
  PROVE  o[2] \in Path
<1>1. CASE Good(o)
  BY <1>1 DEF Good, Routed, Path, Google, Stripe, Dev, Everything
<1>2. CASE o \in Get(NotedForStripe)
  BY <1>2 DEF Get, NotedForStripe, PageCatalog, Path
<1> QED
  BY <1>1, <1>2 DEF TabInv

-------------------------------------------------------------------------------
(* What each step does to the tab.                                             *)

LEMMA OrdinaryPages ==
  ASSUME Inv, conf' = conf, NEW p, p = tab.path, tab.pc = "hop", Routed(conf, "GET", p),
         Let(p), Ordinary(p)
  PROVE  TabInv'
<1>1. cookie \in 0 .. MaxSessions /\ p \in Path /\ tab.goal \in Goals /\ tab.lost \in BOOLEAN
  BY DEF Inv, BrowserInv, TabInv
<1>2. CASE /\ p \in {"/", "/messages", "/about", "/kit", "/privacy-policy", "/terms", "/login/sent"}
           /\ \/ p = "/" /\ Show(p, Home)
              \/ p = "/messages" /\ Show(p, Messages)
              \/ p \in {"/about", "/kit", "/privacy-policy", "/terms"} /\ Show(p, {})
              \/ p = "/login/sent" /\ Show(p, LoginSent)
  <2>1. p # "/login"
    BY <1>2
  <2> QED
    BY <1>1, <1>2, <2>1, PlainBodies, ShowPage
<1>3. CASE p = "/login" /\ ShowLogin(tab.next)
  BY <1>3, ShowLoginKeeps DEF Inv, TabInv
<1>4. CASE \/ p = "/account" /\ Show(p, Profile)
           \/ p = "/account/delete" /\ Show(p, Danger)
  <2>1. p # "/login"
    BY <1>4
  <2> QED
    BY <1>1, <1>4, <2>1, AccountBodies, ShowPage
<1>5. CASE /\ p = "/account/security"
           /\ \E linked \in BOOLEAN : Show(p, Security(conf, OthersOf(User) # {}, linked))
  <2>1. PICK linked \in BOOLEAN : Show(p, Security(conf, OthersOf(User) # {}, linked))
    BY <1>5
  <2>2. BodyOK(Security(conf, OthersOf(User) # {}, linked))
    BY AccountBodies
  <2>3. p # "/login"
    BY <1>5
  <2> QED
    BY <1>1, <2>1, <2>2, <2>3, ShowPage
<1>6. CASE /\ p = "/account/billing"
           /\ \E customer, owned \in BOOLEAN : Show(p, Billing(conf, customer, owned))
  <2>1. p # "/login"
    BY <1>6
  <2> QED
    BY <1>1, <1>6, <2>1, BillingBody, ShowPage
<1>7. CASE p = "/admin" /\ Redirect("/admin/users")
  <2>1. Rank(p) = 2 /\ "/admin/users" \in Path \ GoogleStart /\ Rank("/admin/users") = 1
    BY <1>7, AreaRanks DEF Rank
  <2>2. tab.hops \in Nat /\ tab.hops + Rank(p) <= 3
    BY DEF Inv, TabInv
  <2>3. tab.hops + 1 + Rank("/admin/users") <= 3
    BY <2>1, <2>2
  <2> QED
    BY <1>1, <1>7, <2>1, <2>2, <2>3, RedirectKeeps
<1>8. CASE p \in {"/admin/users", "/admin/users?page=2"} /\ Show(p, AdminUsers)
  <2>1. p # "/login"
    BY <1>8
  <2> QED
    BY <1>1, <1>8, <2>1, AdminBodies, ShowPage
<1>9. CASE /\ p = "/admin/users/1"
           /\ Blank("none") \/ \E owned \in BOOLEAN : Show(p, AdminUserDetail(owned))
  <2>1. p # "/login"
    BY <1>9
  <2> QED
    BY <1>1, <1>9, <2>1, AdminBodies, ShowPage, BlankKeeps
<1>10. CASE p = "/pages" /\ Show(p, Get(PageCatalog))
  <2>1. conf.debug
    BY <1>10 DEF Routed, Open, Google, Account, AdminPages, Stripe, Dev
  <2>2. p # "/login"
    BY <1>10
  <2> QED
    BY <1>1, <1>10, <2>1, <2>2, DevBodies, ShowKeeps
<1>11. CASE p = "/dev/emails" /\ Show(p, DevEmailsIndex)
  <2>1. conf.debug
    BY <1>11 DEF Routed, Open, Google, Account, AdminPages, Stripe, Dev
  <2>2. p # "/login"
    BY <1>11
  <2> QED
    BY <1>1, <1>11, <2>1, <2>2, DevBodies, ShowPage
<1>12. CASE Blank("none")
  BY <1>12, BlankKeeps
<1> QED
  BY <1>2, <1>3, <1>4, <1>5, <1>6, <1>7, <1>8, <1>9, <1>10, <1>11, <1>12 DEF Ordinary

LEMMA GetPageKeeps ==
  ASSUME Inv, GetPage
  PROVE  TabInv'
<1> DEFINE p == tab.path
<1>1. /\ conf' = conf /\ tab.pc = "hop" /\ cookie \in 0 .. MaxSessions /\ p \in Path
      /\ tab.goal \in Goals /\ tab.lost \in BOOLEAN
  BY DEF GetPage, Inv, BrowserInv, TabInv
<1>2. tab.hops \in Nat /\ tab.hops + Rank(p) <= 3
  BY <1>1 DEF Inv, TabInv
<1>3. CASE Show("404", NotFound)
  <2>1. "404" \in Path /\ "404" # "/login"
    BY DEF Path
  <2> QED
    BY <1>1, <1>3, <2>1, PlainBodies, ShowPage
<1>4. CASE RequireUser(p)
  <2>1. NeedsUser(p) /\ Turn(p)
    BY <1>4 DEF RequireUser
  <2>2. Rank(p) \in 1 .. 2
    BY <2>1, ProtectedRank
  <2>3. tab.hops \in 0 .. 2
    BY <1>2, <2>2
  <2> QED
    BY <1>1, <2>1, <2>3, TurnKeeps
<1>5. CASE Gated(p)
  <2>1. Rank(p) = 2 /\ p # "/login"
    BY <1>5 DEF Gated, Rank
  <2>2. /\ "/account/billing" \in Path /\ Rank("/account/billing") = 1
        /\ "/account/billing" \notin GoogleStart
    BY AreaRanks
  <2>3. tab.hops + 1 + Rank("/account/billing") <= 3
    BY <1>2, <2>1, <2>2
  <2>4. CASE Redirect("/account/billing")
    BY <1>1, <1>2, <2>2, <2>3, <2>4, RedirectKeeps
  <2>5. CASE Show(p, {})
    BY <1>1, <2>1, <2>5, PlainBodies, ShowPage
  <2> QED
    BY <1>5, <2>4, <2>5 DEF Gated
<1>6. CASE Routed(conf, "GET", p) /\ Let(p) /\ Ordinary(p)
  BY <1>1, <1>6, OrdinaryPages
<1>7. CASE RequireAdmin(p) \/ Blank("none")
  <2>1. Blank("none")
    BY <1>7 DEF RequireAdmin
  <2> QED
    BY <1>1, <2>1, BlankKeeps
<1> QED
  BY <1>3, <1>4, <1>5, <1>6, <1>7 DEF GetPage

\* A form of the area is sent on to one of its pages, turned away or refused.
LEMMA FormKeeps ==
  ASSUME Inv,
         Turned \/ UpdateName \/ RevokeSession \/ RevokeAll \/ Disconnect \/ DeleteAccount
           \/ Checkout \/ AdminEntitlement \/ AdminRevokeSessions
  PROVE  TabInv'
<1>1. conf' = conf
  BY DEF Turned, UpdateName, RevokeSession, RevokeAll, Disconnect, DeleteAccount, Checkout,
         AdminEntitlement, AdminRevokeSessions
<1>2. CASE Turned
  <2>1. PICK p : Submits(p) /\ \/ RequireUser(p) \/ RequireAdmin(p)
                               \/ Let(p) /\ ~ValidCSRF /\ Blank("refused")
                               \/ Let(p) /\ ValidCSRF /\ Blank("acted")
    BY <1>2 DEF Turned
  <2>2. tab.hops \in 0 .. 2
    <3>1. tab.hops = 0
      BY <2>1 DEF Submits, Inv, TabInv
    <3> QED
      BY <3>1
  <2>3. CASE RequireUser(p)
    BY <1>1, <2>2, <2>3, TurnKeeps DEF RequireUser
  <2>4. CASE ~RequireUser(p)
    <3>1. Blank("none") \/ Blank("refused") \/ Blank("acted")
      BY <2>1, <2>4 DEF RequireAdmin
    <3> QED
      BY <1>1, <3>1, BlankKeeps
  <2> QED
    BY <2>3, <2>4
<1>3. CASE ~Turned
  <2>1. \/ Acted("/account") \/ Acted("/account/security") \/ Acted("/account/delete")
        \/ Acted("/") \/ Acted("/account/billing") \/ Acted("/admin/users/1")
        \/ Blank("acted")
    BY <1>3 DEF UpdateName, RevokeSession, RevokeAll, Disconnect, DeleteAccount, Checkout,
                AdminEntitlement, AdminRevokeSessions
  <2>2. \A p \in {"/account", "/account/security", "/account/delete", "/", "/account/billing",
                  "/admin/users/1"} : p \in Path \ {"/login"}
    BY AreaRanks, OpenRanks
  <2> QED
    BY <1>1, <2>1, <2>2, ActedKeeps, BlankKeeps
<1> QED
  BY <1>2, <1>3

LEMMA SubmitLoginKeeps ==
  ASSUME Inv, SubmitLogin
  PROVE  TabInv' /\ MailInv'
<1>1. conf' = conf /\ Submits("/login") /\ TabInv /\ MailInv
  BY DEF SubmitLogin, Inv
<1>2. tab.hops = 0 /\ tab.path = "/login" /\ tab.goal \in Goals /\ tab.lost \in BOOLEAN
  BY <1>1 DEF Submits, TabInv
<1>3. Due \in Path /\ SafeNext(Due) = Due
  BY <1>2, OwedIsGoal, GoalIsPath DEF Due
<1>4. FormNext = Due /\ SafeNext(FormNext) = Due
  BY <1>1, <1>2, <1>3 DEF FormNext, TabInv
<1>5. Path' = Path /\ Goals' = Goals
  BY DEF Path, Goals
<1>6. TabInv'
  <2>1. CASE ShowLogin(FormNext)
    BY <1>1, <1>3, <1>4, <2>1, ShowLoginKeeps
  <2>2. CASE Redirect("/login/sent")
    <3>1. "/login/sent" \in Path \ GoogleStart /\ Rank("/login/sent") = 0
      BY OpenRanks
    <3>2. tab.hops \in Nat /\ tab.hops + 1 + Rank("/login/sent") <= 3
      BY <1>2, <3>1
    <3> QED
      BY <1>1, <1>2, <2>2, <3>1, <3>2, RedirectKeeps
  <2> QED
    BY <2>1, <2>2 DEF SubmitLogin
<1>7. MailInv'
  <2>1. CASE mails' = mails
    BY <1>1, <1>5, <2>1 DEF MailInv, SafeNext, Owed, PathOf
  <2>2. CASE mails' # mails
    <3> DEFINE n == IF FormNext = "/account" THEN "" ELSE FormNext
               new(a) == [to |-> a, goal |-> tab.goal, lost |-> tab.lost, next |-> n]
               typed == [to : Addresses, next : Path \cup {""}, goal : Goals, lost : BOOLEAN]
    <3>1. PICK a \in Addresses : mails' = mails \cup {new(a)}
      BY <2>2 DEF SubmitLogin
    <3>2. n \in Path \cup {""} /\ SafeNext(n) = Due
      BY <1>3, <1>4 DEF SafeNext
    <3>3. new(a) \in typed /\ SafeNext(new(a).next) = Owed(new(a).goal, new(a).lost)
      BY <1>2, <3>2 DEF Due
    <3>4. ASSUME NEW m \in mails' PROVE m \in typed /\ SafeNext(m.next) = Owed(m.goal, m.lost)
      <4>1. CASE m \in mails
        BY <1>1, <4>1 DEF MailInv
      <4>2. CASE m = new(a)
        BY <3>3, <4>2
      <4> QED
        BY <3>1, <4>1, <4>2
    <3> QED
      BY <1>5, <3>4 DEF MailInv, SafeNext, Owed, PathOf
  <2> QED
    BY <2>1, <2>2
<1> QED
  BY <1>6, <1>7

LEMMA SignInKeeps ==
  ASSUME Inv, OpenDeadLink \/ GoogleLogin \/ Callback \/ \E m \in mails : OpenLink(m)
  PROVE  TabInv'
<1>1. cookie \in 0 .. MaxSessions /\ tab.hops \in Nat /\ tab.goal \in Goals /\ tab.lost \in BOOLEAN
  BY DEF Inv, BrowserInv, TabInv
<1>2. CASE OpenDeadLink
  <2>1. "/auth/verify" \in Path /\ "/auth/verify" # "/login"
    BY DEF Path, Open
  <2> QED
    BY <1>1, <1>2, <2>1, PlainBodies, ShowPage DEF OpenDeadLink
<1>3. CASE GoogleLogin
  <2>1. conf.google
    BY <1>3 DEF GoogleLogin, Google
  <2>2. conf' = conf
    BY <1>3 DEF GoogleLogin
  <2>3. tab.pc = "hop" /\ tab.path \in GoogleStart
    BY <1>3 DEF GoogleLogin, Google, GoogleStart
  <2>4. Owed(tab.goal, tab.lost) = "/account"
    BY <2>3 DEF Inv, TabInv, Due
  <2> QED
    BY <1>1, <1>3, <2>1, <2>2, <2>4, Zero, TabKeeps DEF GoogleLogin, Fresh
<1>4. CASE Callback
  <2>1. conf' = conf /\ tab.pc = "consent" /\ conf.google
    BY <1>4 DEF Callback, Inv, TabInv
  <2>2. tab.hops = 0
    BY <2>1 DEF Inv, TabInv
  <2>3. "/auth/google/callback" \in Path /\ "/auth/google/callback" # "/login"
    BY DEF Path, Google, Everything
  <2>4. Rank("/login") = 0 /\ "/login" \in Path \ GoogleStart
    BY OpenRanks
  <2>5. Rank("/account/security") = 1 /\ "/account/security" \in Path \ GoogleStart
    BY AreaRanks
  <2>6. CASE Redirect("/login")
    <3>1. tab.hops + 1 + Rank("/login") <= 3
      BY <2>2, <2>4
    <3> QED
      BY <1>1, <2>1, <2>4, <2>6, <3>1, RedirectKeeps
  <2>7. CASE Redirect("/account/security")
    <3>1. tab.hops + 1 + Rank("/account/security") <= 3
      BY <2>2, <2>5
    <3> QED
      BY <1>1, <2>1, <2>5, <2>7, <3>1, RedirectKeeps
  <2>8. CASE Show("/auth/google/callback", VerifyError)
    BY <1>1, <2>1, <2>3, <2>8, PlainBodies, ShowPage
  <2>9. CASE Land("", tab.goal, tab.lost)
    <3>1. SafeNext("") = Owed(tab.goal, tab.lost)
      BY <2>1, Zero DEF Inv, TabInv, Due
    <3> QED
      BY <1>1, <2>1, <2>9, <3>1, LandKeeps
  <2> QED
    BY <1>4, <2>6, <2>7, <2>8, <2>9 DEF Callback
<1>5. ASSUME NEW m \in mails, OpenLink(m) PROVE TabInv'
  <2>1. m.goal \in Goals /\ m.lost \in BOOLEAN /\ SafeNext(m.next) = Owed(m.goal, m.lost)
    BY DEF Inv, MailInv
  <2>2. conf' = conf /\ Land(m.next, m.goal, m.lost)
    BY <1>5 DEF OpenLink
  <2> QED
    BY <2>1, <2>2, LandKeeps
<1> QED
  BY <1>2, <1>3, <1>4, <1>5

LEMMA TabStep ==
  ASSUME Inv, Next
  PROVE  TabInv'
<1>1. TabInv /\ cookie \in 0 .. MaxSessions /\ tab.hops \in Nat /\ tab.goal \in Goals /\ tab.lost \in BOOLEAN
  BY DEF Inv, BrowserInv, TabInv
<1>2. CASE Elsewhere \/ \E s \in Sessions : SessionEnds(s)
  BY <1>1, <1>2, TabStays DEF Elsewhere, SessionEnds
<1>3. CASE Type
  BY <1>1, <1>3, RequestKeeps DEF Type, Path
<1>4. CASE FollowLink
  BY <1>1, <1>4, OfferedIsPath, RequestKeeps DEF FollowLink
<1>5. CASE Logout
  <2>1. Rank(tab.path) = 1
    BY <1>5 DEF Logout, Rank
  <2>2. tab.hops + Rank(tab.path) <= 3
    BY <1>5 DEF Logout, Inv, TabInv
  <2>3. Rank("/") = 0 /\ "/" \in Path \ GoogleStart
    BY OpenRanks
  <2>4. tab.hops + 1 + Rank("/") <= 3
    BY <1>1, <2>1, <2>2, <2>3
  <2> QED
    BY <1>1, <1>5, <2>3, <2>4, RedirectKeeps DEF Logout
<1>6. CASE SubmitMessage
  <2>1. tab.hops = 0
    BY <1>1, <1>6 DEF SubmitMessage, Submits, TabInv
  <2>2. /\ Rank("/messages") = 0 /\ "/messages" \in Path \ GoogleStart
        /\ "/messages" # "/login"
    BY OpenRanks
  <2>3. tab.hops + 1 + Rank("/messages") <= 3
    BY <2>1, <2>2
  <2>4. conf' = conf
    BY <1>6 DEF SubmitMessage
  <2> QED
    BY <1>1, <1>6, <2>2, <2>3, <2>4, PlainBodies, ShowPage, RedirectKeeps, BlankKeeps
    DEF SubmitMessage
<1> QED
  BY <1>2, <1>3, <1>4, <1>5, <1>6, GetPageKeeps, FormKeeps, SubmitLoginKeeps, SignInKeeps DEF Next

-------------------------------------------------------------------------------
(* What each step does to the browser and the mails.                           *)

LEMMA EndedIsTyped ==
  ASSUME sess \in [Sessions -> Addresses \cup {NoOne}], NEW S
  PROVE  Ended(S) \in [Sessions -> Addresses \cup {NoOne}]
  BY DEF Ended

LEMMA CreateIsTyped ==
  ASSUME sess \in [Sessions -> Addresses \cup {NoOne}], NEW a \in Addresses, CreateSession(a)
  PROVE  sess' \in [Sessions -> Addresses \cup {NoOne}] /\ cookie' \in 0 .. MaxSessions
  BY SiteAssumption DEF CreateSession, Sessions, SiteAssumption

\* The ways in which a step leaves the tab.
LEMMA TabChanges ==
  ASSUME Next
  PROVE  \/ tab' = tab
         \/ \E p, body : Show(p, body) /\ sess' = sess
         \/ \E p : Request(p) \/ Redirect(p) \/ Acted(p) \/ Turn(p)
         \/ \E next : ShowLogin(next)
         \/ \E res : Blank(res)
         \/ \E next, goal, lost : Land(next, goal, lost)
         \/ GoogleLogin
<1>1. CASE GetPage
  BY <1>1 DEF GetPage, RequireUser, RequireAdmin, Gated, Ordinary
<1>2. CASE Turned \/ UpdateName \/ RevokeSession \/ RevokeAll \/ Disconnect \/ DeleteAccount
           \/ Checkout \/ AdminEntitlement \/ AdminRevokeSessions
  BY <1>2 DEF Turned, RequireUser, RequireAdmin, UpdateName, RevokeSession, RevokeAll,
              Disconnect, DeleteAccount, Checkout, AdminEntitlement, AdminRevokeSessions
<1>3. CASE SubmitLogin \/ SubmitMessage \/ Type \/ FollowLink \/ Logout
  BY <1>3 DEF SubmitLogin, SubmitMessage, Type, FollowLink, Logout
<1>4. CASE OpenDeadLink \/ Callback \/ \E m \in mails : OpenLink(m)
  BY <1>4 DEF OpenDeadLink, Callback, OpenLink
<1>5. CASE Elsewhere \/ \E s \in Sessions : SessionEnds(s)
  BY <1>5 DEF Elsewhere, SessionEnds
<1> QED
  BY <1>1, <1>2, <1>3, <1>4, <1>5 DEF Next

\* Google's consent page is opened by HandleGoogleLogin and by nothing else.
LEMMA AskedByGoogleOnly ==
  ASSUME Next, tab'.asked
  PROVE  GoogleLogin \/ tab' = tab
  BY TabChanges DEF Show, Request, Redirect, Acted, Turn, ShowLogin, Shown, Onward, Blank, Land,
                    Fresh

\* The state cookie changes with a sign-in at Google, or goes.
LEMMA OauthStep ==
  ASSUME Next
  PROVE  GoogleLogin \/ oauth' \in {oauth, "none"}
  BY DEF Next, SessionEnds, Elsewhere, Type, FollowLink, GetPage, Logout, SubmitLogin,
         SubmitMessage, Turned, UpdateName, RevokeSession, RevokeAll, Disconnect, DeleteAccount,
         Checkout, AdminEntitlement, AdminRevokeSessions, OpenDeadLink, Callback, OpenLink

LEMMA ConfStays ==
  ASSUME Next
  PROVE  conf' = conf
  BY DEF Next, SessionEnds, Elsewhere, Type, FollowLink, GetPage, Logout, SubmitLogin,
         SubmitMessage, Turned, UpdateName, RevokeSession, RevokeAll, Disconnect, DeleteAccount,
         Checkout, AdminEntitlement, AdminRevokeSessions, OpenDeadLink, GoogleLogin, Callback,
         OpenLink

\* The table of sessions grows by CreateSession and is cleared by Ended.
LEMMA SessionStep ==
  ASSUME Next
  PROVE  \/ sess' = sess /\ cookie' = cookie
         \/ \E a \in Addresses : CreateSession(a)
         \/ (\E S \in SUBSET Sessions : sess' = Ended(S)) /\ cookie' \in {cookie, 0}
         \/ \E m \in mails : CreateSession(m.to)
<1>1. CASE \/ Type \/ FollowLink \/ GetPage \/ SubmitLogin \/ SubmitMessage \/ Turned
           \/ UpdateName \/ Disconnect \/ Checkout \/ AdminEntitlement \/ OpenDeadLink
           \/ GoogleLogin
  BY <1>1 DEF Type, FollowLink, GetPage, SubmitLogin, SubmitMessage, Turned, UpdateName,
              Disconnect, Checkout, AdminEntitlement, OpenDeadLink, GoogleLogin
<1>2. CASE Elsewhere \/ Callback \/ \E m \in mails : OpenLink(m)
  <2>1. CASE Elsewhere
    <3>1. Ended({cookie}) = Ended({cookie} \cap Sessions)
      BY DEF Ended
    <3> QED
      BY <2>1, <3>1 DEF Elsewhere
  <2>2. CASE Callback
    BY <2>2 DEF Callback
  <2>3. CASE \E m \in mails : OpenLink(m)
    BY <2>3 DEF OpenLink
  <2> QED
    BY <1>2, <2>1, <2>2, <2>3
<1>3. CASE Logout
  <2>1. Ended({cookie}) = Ended({cookie} \cap Sessions)
    BY DEF Ended
  <2> QED
    BY <1>3, <2>1 DEF Logout
<1>4. CASE \E s \in Sessions : SessionEnds(s)
  BY <1>4 DEF SessionEnds
<1>5. CASE RevokeSession
  BY <1>5 DEF RevokeSession, OthersOf
<1>6. CASE RevokeAll
  BY <1>6 DEF RevokeAll, OthersOf
<1>7. CASE DeleteAccount
  BY <1>7 DEF DeleteAccount
<1>8. CASE AdminRevokeSessions
  BY <1>8 DEF AdminRevokeSessions
<1> QED
  BY <1>1, <1>2, <1>3, <1>4, <1>5, <1>6, <1>7, <1>8 DEF Next

LEMMA BrowserStep ==
  ASSUME Inv, Next
  PROVE  BrowserInv'
<1>1. conf' \in Confs
  BY ConfStays DEF Inv, BrowserInv
<1>2. sess' \in [Sessions -> Addresses \cup {NoOne}] /\ cookie' \in 0 .. MaxSessions
  <2>1. sess \in [Sessions -> Addresses \cup {NoOne}] /\ cookie \in 0 .. MaxSessions
    BY DEF Inv, BrowserInv
  <2>2. \A m \in mails : m.to \in Addresses
    BY DEF Inv, MailInv
  <2> QED
    BY <2>1, <2>2, SessionStep, CreateIsTyped, EndedIsTyped, Zero
<1>3. CASE GoogleLogin
  <2>1. oauth' = GoogleMode(tab.path) /\ (tab'.asked => GoogleMode(tab.path) = "link")
    BY <1>3 DEF GoogleLogin, GoogleMode, Fresh
  <2>2. GoogleMode(tab.path) \in {"login", "link"}
    BY DEF GoogleMode
  <2> QED
    BY <1>1, <1>2, <2>1, <2>2 DEF BrowserInv
<1>4. CASE ~GoogleLogin
  <2>1. oauth' \in {oauth, "none"} /\ (tab'.asked => tab' = tab)
    BY <1>4, OauthStep, AskedByGoogleOnly
  <2> QED
    BY <1>1, <1>2, <2>1 DEF BrowserInv, Inv
<1> QED
  BY <1>3, <1>4

LEMMA MailStep ==
  ASSUME Inv, Next
  PROVE  MailInv'
<1>1. CASE SubmitLogin
  BY <1>1, SubmitLoginKeeps
<1>2. CASE ~SubmitLogin
  <2>1. \A m \in mails' : m \in mails
    BY <1>2 DEF Next, SessionEnds, Elsewhere, Type, FollowLink, GetPage, Logout, SubmitMessage,
         Turned, UpdateName, RevokeSession, RevokeAll, Disconnect, DeleteAccount, Checkout,
         AdminEntitlement, AdminRevokeSessions, OpenDeadLink, GoogleLogin, Callback, OpenLink
  <2>2. Path' = Path /\ Goals' = Goals
    BY DEF Path, Goals
  <2> QED
    BY <2>1, <2>2 DEF MailInv, Inv, SafeNext, Owed, PathOf
<1> QED
  BY <1>1, <1>2

\* The tab shows a page rendered just now, none with a gate, or the one it showed.
LEMMA PageChanges ==
  ASSUME Next
  PROVE  \/ tab'.under = 0 /\ tab'.seen = NoOne
         \/ tab'.under = cookie /\ tab'.seen = User /\ sess' = sess
         \/ tab' = tab
<1>1. ASSUME NEW p, NEW body, Show(p, body), sess' = sess
      PROVE  \/ tab'.under = 0 /\ tab'.seen = NoOne
             \/ tab'.under = cookie /\ tab'.seen = User /\ sess' = sess
  BY <1>1 DEF Show, Shown, Onward, Fresh
<1> QED
  BY <1>1, TabChanges DEF Request, Redirect, Acted, Turn, ShowLogin, Shown, Onward, Blank, Land,
                    GoogleLogin, Fresh

LEMMA PageStep ==
  ASSUME Inv, Next
  PROVE  PageInv'
<1>1. /\ sess \in [Sessions -> Addresses \cup {NoOne}] /\ cookie \in 0 .. MaxSessions
      /\ MaxSessions \in Nat
  BY SiteAssumption DEF Inv, BrowserInv, SiteAssumption
<1>2. CASE tab'.under = 0 /\ tab'.seen = NoOne
  BY <1>2, Zero DEF PageInv
<1>3. CASE tab'.under = cookie /\ tab'.seen = User /\ sess' = sess
  <2>1. CASE cookie = 0
    BY <1>2, <1>3, <2>1 DEF User
  <2>2. CASE cookie # 0
    <3>1. cookie \in Sessions /\ User = sess[cookie]
      BY <1>1, <2>2 DEF Sessions, User
    <3> QED
      BY <1>1, <1>3, <2>2, <3>1 DEF PageInv
  <2> QED
    BY <2>1, <2>2
<1>4. CASE tab' = tab
  <2>1. /\ tab.under \in 0 .. MaxSessions /\ tab.seen \in Addresses \cup {NoOne}
        /\ IF tab.under = 0 THEN tab.seen = NoOne ELSE sess[tab.under] \in {tab.seen, NoOne}
    BY DEF Inv, PageInv
  <2>2. tab.under # 0 => sess'[tab.under] \in {sess[tab.under], NoOne}
    <3> SUFFICES ASSUME tab.under # 0 PROVE sess'[tab.under] \in {sess[tab.under], NoOne}
      OBVIOUS
    <3>1. tab.under \in Sessions
      BY <1>1, <2>1 DEF Sessions
    <3>2. ASSUME NEW a, CreateSession(a) PROVE sess'[tab.under] = sess[tab.under]
      BY <1>1, <3>1, <3>2 DEF CreateSession
    <3>3. ASSUME NEW S, sess' = Ended(S) PROVE sess'[tab.under] \in {sess[tab.under], NoOne}
      BY <3>1, <3>3 DEF Ended
    <3> QED
      BY <3>2, <3>3, SessionStep
  <2> QED
    BY <1>4, <2>1, <2>2 DEF PageInv
<1> QED
  BY <1>2, <1>3, <1>4, PageChanges

LEMMA InvInit == Init => Inv
<1> SUFFICES ASSUME Init PROVE Inv
  OBVIOUS
<1>1. BrowserInv
  BY Zero DEF Init, BrowserInv, Fresh
<1>2. MailInv
  BY DEF Init, MailInv
<1>3. TabInv
  BY Zero DEF Init, TabInv, Fresh
<1>4. PageInv
  BY Zero DEF Init, PageInv, Fresh
<1> QED
  BY <1>1, <1>2, <1>3, <1>4 DEF Inv

LEMMA InvStep == Inv /\ [Next]_vars => Inv'
<1> SUFFICES ASSUME Inv, [Next]_vars PROVE Inv'
  OBVIOUS
<1>1. CASE Next
  BY <1>1, BrowserStep, MailStep, TabStep, PageStep DEF Inv
<1>2. CASE UNCHANGED vars
  <2>1. TabInv'
    BY <1>2, TabStays DEF Inv, vars
  <2>2. BrowserInv' /\ MailInv' /\ PageInv'
    <3>1. Path' = Path /\ Goals' = Goals
      BY DEF Path, Goals
    <3> QED
      BY <1>2, <3>1 DEF Inv, BrowserInv, MailInv, PageInv, SafeNext, Owed, PathOf, vars
  <2> QED
    BY <2>1, <2>2 DEF Inv
<1> QED
  BY <1>1, <1>2

LEMMA AlwaysInv == Spec => []Inv
  BY InvInit, InvStep, PTL DEF Spec

-------------------------------------------------------------------------------
(* The theorems.                                                               *)

\* The site's variables keep their types.
THEOREM SiteTypeCorrect == Spec => []TypeOK
<1>1. Inv => TypeOK
  <2> SUFFICES ASSUME Inv PROVE TypeOK
    OBVIOUS
  <2>1. \A g \in Goals : g \in Path
    BY GoalIsPath
  <2>2. mails \subseteq [to : Addresses, next : Path \cup {""}, goal : Path, lost : BOOLEAN]
    BY <2>1 DEF Inv, MailInv
  <2> QED
    BY <2>1, <2>2 DEF Inv, BrowserInv, TabInv, PageInv, TypeOK
<1> QED
  BY <1>1, AlwaysInv, PTL

\* Whatever is switched on or off and whoever is signed in, what a page offers is
\* routed, except the two pages that the developers' index notes.
THEOREM OfferedAlwaysRouted == Spec => []OfferedIsRouted
<1>1. Inv => OfferedIsRouted
  BY DEF Inv, TabInv, OfferedIsRouted, Good, Get
<1> QED
  BY <1>1, AlwaysInv, PTL

\* A sign-in brings the browser to what it owes: the path that was asked for, or
\* /account once a link without it has been followed.
THEOREM MagicLinkAlwaysLands == Spec => []MagicLinkLands
<1>1. Inv => MagicLinkLands
  BY DEF Inv, TabInv, MagicLinkLands, Due
<1> QED
  BY <1>1, AlwaysInv, PTL

\* No chain of redirects is longer than three.
THEOREM RedirectsAlwaysEnd == Spec => []RedirectsEnd
<1>1. Inv => RedirectsEnd
  <2> SUFFICES ASSUME Inv PROVE tab.hops <= 3
    BY DEF RedirectsEnd
  <2>1. Rank(tab.path) \in 0 .. 2 /\ tab.hops \in Nat
    BY RankIsSmall DEF Inv, TabInv
  <2>2. CASE tab.pc = "hop"
    <3>1. tab.hops + Rank(tab.path) <= 3
      BY <2>2 DEF Inv, TabInv
    <3> QED
      BY <2>1, <3>1
  <2>3. CASE tab.pc # "hop"
    <3>1. tab.hops = 0
      BY <2>3 DEF Inv, TabInv
    <3> QED
      BY <3>1
  <2> QED
    BY <2>2, <2>3
<1> QED
  BY <1>1, AlwaysInv, PTL

\* What is submitted to the area's forms needs a user: Stripe's forms are offered
\* only while their routes are there.
LEMMA SubmittedNeedsUser ==
  ASSUME TabInv, NEW p \in Account \cup AdminActions \cup FormOnly, Submits(p)
  PROVE  NeedsUser(p)
<1>1. CASE p \in Account \cup AdminActions
  BY <1>1 DEF NeedsUser
<1>2. CASE p \in {"/account/billing/checkout", "/account/billing/portal"}
  <2>1. <<"POST", p>> \notin Get(NotedForStripe)
    BY DEF Get
  <2>2. Routed(conf, "POST", p)
    BY <2>1 DEF Submits, TabInv, Good
  <2> QED
    BY <1>2, <2>2 DEF Routed, NeedsUser, Open, Google, Account, AdminPages, AdminActions, Dev
<1> QED
  BY <1>1, <1>2 DEF FormOnly, Account

\* What a form does with its page still in the browser's session.
LEMMA FormSession ==
  ASSUME Inv, NEW p \in Account \cup AdminActions \cup FormOnly, Acts(p)
  PROVE  User = tab.seen /\ (p \in AdminActions => IsAdmin(tab.seen))
<1>1. NeedsUser(p) /\ User # NoOne /\ tab.csrf = cookie
  BY SubmittedNeedsUser DEF Inv, Acts, Let, ValidCSRF
<1>2. cookie # 0 /\ User = sess[cookie] /\ tab.under = cookie
  BY <1>1 DEF User, Inv, TabInv
<1>3. User = tab.seen
  BY <1>1, <1>2 DEF Inv, PageInv
<1>4. p \in AdminActions => IsAdmin(User)
  BY DEF Acts, Let, NeedsAdmin
<1> QED
  BY <1>3, <1>4

\* Of other people's sessions only an admin's form ends any.
LEMMA FormEnds ==
  ASSUME Inv, Next, tab.pc = "page", tab' # tab, NEW s \in Sessions, sess'[s] # sess[s]
  PROVE  sess[s] \in {NoOne, tab.seen} \/ IsAdmin(tab.seen)
<1>1. sess \in [Sessions -> Addresses \cup {NoOne}]
  BY DEF Inv, BrowserInv
<1>2. CASE RevokeSession \/ RevokeAll \/ DeleteAccount
  <2>1. User = tab.seen
    BY <1>2, FormSession DEF RevokeSession, RevokeAll, DeleteAccount, Account
  <2>2. \E S : sess' = Ended(S) /\ \A x \in S : sess[x] = User
    <3>1. CASE RevokeSession
      BY <3>1 DEF RevokeSession, OthersOf
    <3>2. CASE RevokeAll
      BY <3>2 DEF RevokeAll, OthersOf
    <3>3. CASE DeleteAccount
      BY <3>3 DEF DeleteAccount
    <3> QED
      BY <1>2, <3>1, <3>2, <3>3
  <2> QED
    BY <2>1, <2>2 DEF Ended
<1>3. CASE AdminRevokeSessions
  BY <1>3, FormSession DEF AdminRevokeSessions, AdminActions
<1>4. ASSUME NEW a, CreateSession(a) PROVE sess[s] = NoOne
  BY <1>1, <1>4 DEF CreateSession
<1>5. CASE Elsewhere \/ \E x \in Sessions : SessionEnds(x)
  BY <1>5 DEF Elsewhere, SessionEnds
<1>6. CASE Callback \/ Logout
  BY <1>6 DEF Callback, Logout
<1>7. CASE \E m \in mails : OpenLink(m)
  BY <1>4, <1>7 DEF OpenLink
<1>8. CASE \/ Type \/ FollowLink \/ GetPage \/ SubmitLogin \/ SubmitMessage \/ Turned
           \/ UpdateName \/ Disconnect \/ Checkout \/ AdminEntitlement \/ OpenDeadLink
           \/ GoogleLogin
  BY <1>8 DEF Type, FollowLink, GetPage, SubmitLogin, SubmitMessage, Turned, UpdateName,
              Disconnect, Checkout, AdminEntitlement, OpenDeadLink, GoogleLogin
<1> QED
  BY <1>2, <1>3, <1>5, <1>6, <1>7, <1>8 DEF Next

\* Who is acted for, and who is refused.
LEMMA FormStep ==
  ASSUME Inv, Next, tab.pc = "page", tab' # tab
  PROVE  /\ tab'.res = "acted" => User = tab.seen
         /\ tab'.res = "refused" => <<cookie, User>> # <<tab.under, tab.seen>>
<1>1. CASE Turned
  <2>1. PICK p \in Account \cup AdminActions \cup FormOnly :
          Submits(p) /\ \/ RequireUser(p) \/ RequireAdmin(p)
                        \/ Let(p) /\ ~ValidCSRF /\ Blank("refused")
                        \/ Let(p) /\ ValidCSRF /\ Blank("acted")
    BY <1>1 DEF Turned
  <2>2. CASE Let(p) /\ ~ValidCSRF /\ Blank("refused")
    BY <2>2 DEF ValidCSRF, Inv, TabInv, Blank, Fresh
  <2>3. CASE Let(p) /\ ValidCSRF /\ Blank("acted")
    <3>1. User = tab.seen
      BY <2>1, <2>3, FormSession DEF Acts
    <3> QED
      BY <2>3, <3>1 DEF Blank, Fresh
  <2>4. CASE RequireUser(p) \/ RequireAdmin(p)
    BY <2>4 DEF RequireUser, RequireAdmin, Turn, Blank, Fresh
  <2> QED
    BY <2>1, <2>2, <2>3, <2>4
<1>2. CASE UpdateName \/ RevokeSession \/ RevokeAll \/ Disconnect \/ DeleteAccount \/ Checkout
             \/ AdminEntitlement \/ AdminRevokeSessions
  <2>1. PICK p \in Account \cup AdminActions \cup FormOnly : Acts(p)
    BY <1>2 DEF UpdateName, RevokeSession, RevokeAll, Disconnect, DeleteAccount, Checkout,
                AdminEntitlement, AdminRevokeSessions, Account, FormOnly, AdminActions
  <2>2. User = tab.seen
    BY <2>1, FormSession
  <2>3. tab'.res = "acted"
    BY <1>2 DEF UpdateName, RevokeSession, RevokeAll, Disconnect, DeleteAccount, Checkout,
                AdminEntitlement, AdminRevokeSessions, Acted, Blank, Fresh
  <2> QED
    BY <2>2, <2>3
<1>3. CASE Elsewhere \/ \E s \in Sessions : SessionEnds(s)
  BY <1>3 DEF Elsewhere, SessionEnds
<1>4. CASE \/ Type \/ FollowLink \/ GetPage \/ Logout \/ SubmitLogin \/ SubmitMessage
           \/ OpenDeadLink \/ GoogleLogin \/ Callback \/ \E m \in mails : OpenLink(m)
  <2>1. tab'.res = "none"
    BY <1>4 DEF Type, FollowLink, GetPage, Logout, SubmitLogin, SubmitMessage, OpenDeadLink,
         GoogleLogin, Callback, OpenLink, Request, Redirect, Turn, RequireUser, RequireAdmin,
         Gated, Ordinary, Show, ShowLogin, Shown, Onward, Blank, Land, Fresh
  <2> QED
    BY <2>1
<1> QED
  BY <1>1, <1>2, <1>3, <1>4 DEF Next

\* A form acts for the account its page showed and ends no session of another
\* unless it is an admin's, and is not refused in its page's session.
THEOREM FormAlwaysActsForItsPage == Spec => FormActsForItsPage
<1> DEFINE
  A == tab.pc = "page" /\ tab' # tab =>
         /\ \A s \in Sessions :
              sess'[s] # sess[s] => sess[s] \in {NoOne, tab.seen} \/ IsAdmin(tab.seen)
         /\ tab'.res = "acted" => User = tab.seen
         /\ tab'.res = "refused" => <<cookie, User>> # <<tab.under, tab.seen>>
<1>1. Inv /\ Next => A
  BY FormStep, FormEnds
<1>2. Inv /\ [Next]_vars => [A]_vars
  BY <1>1
<1> QED
  BY <1>2, AlwaysInv, PTL DEF Spec, FormActsForItsPage

\* Connect leaves a person who is signed in in the same session.
THEOREM ConnectAlwaysKeepsSession == Spec => ConnectKeepsSession
<1>1. ASSUME Inv, Next, tab.asked, User # NoOne, tab' # tab
      PROVE  cookie' = cookie
  <2>1. tab.pc = "consent" /\ oauth \in {"none", "link"}
    BY <1>1 DEF Inv, TabInv, BrowserInv
  <2>2. Type \/ Callback
    BY <1>1, <2>1 DEF Next, SessionEnds, Elsewhere, FollowLink, GetPage, Logout, SubmitLogin,
         SubmitMessage, Turned, UpdateName, RevokeSession, RevokeAll, Disconnect, DeleteAccount,
         Checkout, AdminEntitlement, AdminRevokeSessions, OpenDeadLink, GoogleLogin, OpenLink,
         Submits, Acts
  <2> QED
    BY <1>1, <2>1, <2>2 DEF Type, Callback
<1>2. Inv /\ [Next]_vars =>
        [tab.asked /\ User # NoOne /\ tab' # tab => cookie' = cookie]_vars
  BY <1>1 DEF vars
<1> QED
  BY <1>2, AlwaysInv, PTL DEF Spec, ConnectKeepsSession
===============================================================================
