--------------------------------- MODULE Site ---------------------------------
(***************************************************************************)
(* A person with several addresses and one tab of the browser at the site: *)
(* typed addresses, links, forms, redirects, mailed login links, Google's  *)
(* consent page and the way back from Stripe. The page stays as it was     *)
(* rendered while the browser's other tabs change its session cookie and   *)
(* its OAuth state cookie. Every request is one step (Accounts, Billing    *)
(* and GoogleSignIn take the requests apart), every redirect another.      *)
(***************************************************************************)
EXTENDS Pages, Naturals, FiniteSets

CONSTANTS
  Confs,        \* the configurations looked at
  Addresses,    \* the person's addresses, each with an account or without
  Admins,       \* ADMIN_EMAILS
  Typed,        \* the addresses of the site typed in or bookmarked
  MaxSessions,  \* bound: sessions that exist or are still referred to
  Mailed,       \* bound: the pages asked for whose login mails arrive
  MaxMails      \* bound: unused login links

ASSUME SiteAssumption ==
  /\ Confs \subseteq Conf /\ Admins \subseteq Addresses /\ NoOne \notin Addresses
  /\ MaxSessions \in Nat /\ MaxMails \in Nat

VARIABLES
  conf,    \* the configuration of the process
  sess,    \* sess[s]: the account signed in by live session s
  cookie,  \* the browser's session cookie, 0 when it has none
  oauth,   \* the mode in the OAuth state cookie when it is of the tab's own flow
  mails,   \* login links not used yet
  tab      \* what the tab shows or is waiting for

vars == <<conf, sess, cookie, oauth, mails, tab>>

Sessions == 1 .. MaxSessions

\* pc: a page is shown, a GET of path is under way, or Google asks for consent.
\* asked: the consent is for Connect; res: what became of the form submitted last.
\* The rest is history. goal: the page that was asked for before /login came in
\* between, /account when none was; lost: a link that does not carry it has been
\* followed since; landing: the sign-in has just sent the browser on; seen, under:
\* the account and the session that a page with a gate was rendered for.
Fresh == [pc |-> "page", path |-> "blank", offers |-> {}, next |-> "", csrf |-> 0,
          hops |-> 0, asked |-> FALSE, res |-> "none", goal |-> "/account", lost |-> FALSE,
          landing |-> FALSE, seen |-> NoOne, under |-> 0]

Init ==
  /\ conf \in Confs
  /\ sess = [s \in Sessions |-> NoOne] /\ cookie = 0
  /\ oauth = "none" /\ mails = {} /\ tab = Fresh

\* LoadUser, for the session cookie of the request.
User == IF cookie = 0 THEN NoOne ELSE sess[cookie]

\* A mutant: the page asked for is taken as it is.
Mutant_SafeNext(next) == next

\* Every next that is met here is a path or missing.
SafeNext(next) == IF next = "" THEN "/account" ELSE next

IsAdmin(u) == u \in Admins

\* A mutant: what is not on the list of open pages is protected, and the list has
\* no login page.
Mutant_NeedsUser(p) == p \notin Open \ {"/login"}

NeedsUser(p) ==
  p \in Account \/ p \in AdminPages \/ p \in AdminActions \/ p \in Stripe(conf)

NeedsAdmin(p) == p \in AdminPages \cup AdminActions

\* The handlers that begin with requireCSRF whatever the method is.
FormOnly == {"/account/sessions/revoke", "/account/sessions/revoke-all",
             "/account/google/disconnect", "/account/billing/checkout", "/account/billing/portal"}

-------------------------------------------------------------------------------
\* On these addresses the page that was asked for before is still waited for.
SigningIn(p) ==
  p \in {"/login", "/login/sent", "/auth/verify", "/auth/google/login", "/auth/google/callback"}

Onward(p, lost) ==
  [Fresh EXCEPT !.path = p, !.goal = IF SigningIn(p) THEN tab.goal ELSE "/account",
                !.lost = SigningIn(p) /\ lost /\ tab.goal # "/account"]

\* Links and typed addresses carry no next, nor does a redirect to /login that is
\* not RequireUser's.
Request(p) == tab' = [Onward(p, TRUE) EXCEPT !.pc = "hop"]

Redirect(p) ==
  tab' = [Onward(p, tab.lost \/ p = "/login") EXCEPT !.pc = "hop", !.hops = tab.hops + 1]

\* The CSRF token in a page is that of the session it is rendered under.
CSRFToken(p) == IF NeedsUser(p) THEN cookie ELSE 0

Shown(p, body) == [Onward(p, tab.lost) EXCEPT !.offers = Page(User, body)]

Show(p, body) ==
  tab' = [Shown(p, body) EXCEPT !.csrf = CSRFToken(p),
                                !.seen = IF NeedsUser(p) THEN User ELSE NoOne,
                                !.under = IF NeedsUser(p) THEN cookie ELSE 0]

\* Answers without a page: http.NotFound, a bare status, a 500.
Blank(res) == tab' = [Fresh EXCEPT !.res = res]

\* A session for a, in the browser's cookie; an older one stays in the table.
CreateSession(a) ==
  \E s \in Sessions :
    /\ sess[s] = NoOne /\ s \notin {cookie, tab.csrf, tab.under}
    /\ sess' = [sess EXCEPT ![s] = a]
    /\ cookie' = s

Ended(S) == [s \in Sessions |-> IF s \in S THEN NoOne ELSE sess[s]]
OthersOf(u) == {s \in Sessions : sess[s] = u /\ s # cookie}

-------------------------------------------------------------------------------
(***************************************************************************)
(* The person, and what happens to sessions and cookies elsewhere.         *)
(***************************************************************************)
Type ==
  /\ tab.pc \in {"page", "consent"}
  /\ \E p \in Typed : Request(p)
  /\ UNCHANGED <<conf, sess, cookie, oauth, mails>>

FollowLink ==
  /\ tab.pc = "page"
  /\ \E o \in tab.offers : o[1] = "GET" /\ Request(o[2])
  /\ UNCHANGED <<conf, sess, cookie, oauth, mails>>

\* Expiry, another device, an admin.
SessionEnds(s) ==
  /\ sess[s] # NoOne
  /\ sess' = Ended({s})
  /\ UNCHANGED <<conf, cookie, oauth, mails, tab>>

\* The other tabs of the browser sign in, sign out, or begin or end a flow with
\* Google; the state cookie may also expire (stateCookieTTL).
Elsewhere ==
  /\ \/ \E a \in Addresses : CreateSession(a) /\ oauth' \in {oauth, "none"}
     \/ sess' = Ended({cookie}) /\ cookie' = 0 /\ UNCHANGED oauth
     \/ oauth' = "none" /\ UNCHANGED <<sess, cookie>>
  /\ UNCHANGED <<conf, mails, tab>>

-------------------------------------------------------------------------------
(***************************************************************************)
(* GET.                                                                    *)
(***************************************************************************)
\* r.URL.Path: without the query.
PathOf(p) == IF p = "/admin/users?page=2" THEN "/admin/users" ELSE p

Turn(p) ==
  tab' = [Fresh EXCEPT !.pc = "hop", !.path = "/login", !.next = PathOf(p),
                       !.goal = p, !.hops = tab.hops + 1]

\* RequireUser, for GET and POST alike.
RequireUser(p) == NeedsUser(p) /\ User = NoOne /\ Turn(p)

RequireAdmin(p) == User # NoOne /\ NeedsAdmin(p) /\ ~IsAdmin(User) /\ Blank("none")

Let(p) == (NeedsUser(p) => User # NoOne) /\ (NeedsAdmin(p) => IsAdmin(User))

\* RequireSubscription and RequireEntitlement; whether they open is up to Billing.
Gated(p) ==
  /\ p \in {"/premium", "/guide"} \cap Stripe(conf)
  /\ Redirect("/account/billing") \/ Show(p, {})

\* GET /login keeps the page asked for in the form.
ShowLogin(next) ==
  tab' = [Shown("/login", Login(conf)) EXCEPT !.next = SafeNext(next)]

Ordinary(p) ==
  \/ p = "/" /\ Show(p, Home)
  \/ p = "/messages" /\ Show(p, Messages)
  \/ p \in {"/about", "/kit", "/privacy-policy", "/terms"} /\ Show(p, {})
  \/ p = "/login" /\ ShowLogin(tab.next)
  \/ p = "/login/sent" /\ Show(p, LoginSent)
  \/ p = "/account" /\ Show(p, Profile)
  \/ p = "/account/security"
     /\ \E linked \in BOOLEAN : Show(p, Security(conf, OthersOf(User) # {}, linked))
  \/ p = "/account/billing"
     /\ \E customer, owned \in BOOLEAN : Show(p, Billing(conf, customer, owned))
  \/ p = "/account/delete" /\ Show(p, Danger)
  \/ p = "/admin" /\ Redirect("/admin/users")
  \/ p \in {"/admin/users", "/admin/users?page=2"} /\ Show(p, AdminUsers)
  \/ p = "/admin/users/1"
     /\ (Blank("none") \/ \E owned \in BOOLEAN : Show(p, AdminUserDetail(owned)))
  \/ p \in FormOnly /\ Blank("none")
  \/ p = "/pages" /\ Show(p, Get(PageCatalog))
  \/ p = "/dev/emails" /\ Show(p, DevEmailsIndex)
  \/ p \in {"/version", "/healthz", "/robots.txt"} \cup (Dev(conf) \ {"/pages", "/dev/emails"})
     /\ Blank("none")

\* A page, or a redirect, for the GET that the tab waits for; any may end in a 500.
GetPage ==
  LET p == tab.path IN
  /\ tab.pc = "hop"
  /\ \/ ~Routed(conf, "GET", p) /\ Show("404", NotFound)
     \/ Routed(conf, "GET", p) /\ (RequireUser(p) \/ RequireAdmin(p))
     \/ Routed(conf, "GET", p) /\ Let(p) /\ (Gated(p) \/ Ordinary(p))
     \/ Blank("none")
  /\ UNCHANGED <<conf, sess, cookie, oauth, mails>>

\* HandleLogout is a GET, from the menu.
Logout ==
  /\ tab.pc = "hop" /\ tab.path = "/logout"
  /\ sess' = Ended({cookie}) /\ cookie' = 0
  /\ Redirect("/")
  /\ UNCHANGED <<conf, oauth, mails>>

-------------------------------------------------------------------------------
(***************************************************************************)
(* Forms.                                                                  *)
(***************************************************************************)
Submits(p) == tab.pc = "page" /\ <<"POST", p>> \in tab.offers

\* A mutant: next is read from the query, which the form's action does not have.
Mutant_FormNext == SafeNext("")

FormNext == SafeNext(tab.next)

\* HandleLogin: refused with the form again, or on to /login/sent, with a mail
\* or (honeypot, limiter, an error on the way) without.
SubmitLogin ==
  LET next == FormNext IN
  /\ Submits("/login")
  /\ \/ ShowLogin(next) /\ UNCHANGED mails
     \/ Redirect("/login/sent") /\ UNCHANGED mails
     \/ /\ Cardinality(mails) < MaxMails /\ tab.goal \in Mailed
        /\ \E a \in Addresses :
             mails' = mails \cup {[to |-> a, goal |-> tab.goal, lost |-> tab.lost,
                                   next |-> IF next = "/account" THEN "" ELSE next]}
        /\ Redirect("/login/sent")
  /\ UNCHANGED <<conf, sess, cookie, oauth>>

SubmitMessage ==
  /\ Submits("/messages")
  /\ Show("/messages", Messages) \/ Redirect("/messages") \/ Blank("none")
  /\ UNCHANGED <<conf, sess, cookie, oauth, mails>>

\* A mutant: no check.
Mutant_ValidCSRF == tab.csrf # 0

ValidCSRF == tab.csrf = cookie

\* The forms of the account and admin area: RequireUser, RequireAdmin, requireCSRF.
Turned ==
  /\ \E p \in Account \cup AdminActions \cup FormOnly :
       /\ Submits(p)
       /\ \/ RequireUser(p) \/ RequireAdmin(p)
          \/ Let(p) /\ ~ValidCSRF /\ Blank("refused")
          \/ Let(p) /\ ValidCSRF /\ Blank("acted")  \* a 500 of the handler
  /\ UNCHANGED <<conf, sess, cookie, oauth, mails>>

Acts(p) == Submits(p) /\ Let(p) /\ ValidCSRF

Acted(p) ==
  tab' = [Fresh EXCEPT !.pc = "hop", !.path = p, !.res = "acted", !.hops = 1]

UpdateName ==
  /\ Acts("/account") /\ Acted("/account")
  /\ UNCHANGED <<conf, sess, cookie, oauth, mails>>

\* The id in the form is that of another session, or no longer one's own.
RevokeSession ==
  /\ Acts("/account/sessions/revoke") /\ Acted("/account/security")
  /\ \/ \E s \in OthersOf(User) : sess' = Ended({s})
     \/ UNCHANGED sess
  /\ UNCHANGED <<conf, cookie, oauth, mails>>

RevokeAll ==
  /\ Acts("/account/sessions/revoke-all") /\ Acted("/account/security")
  /\ sess' = Ended(OthersOf(User))
  /\ UNCHANGED <<conf, cookie, oauth, mails>>

\* Which Google account is linked is up to GoogleSignIn.
Disconnect ==
  /\ Acts("/account/google/disconnect") /\ Acted("/account/security")
  /\ UNCHANGED <<conf, sess, cookie, oauth, mails>>

\* The confirming address may be wrong.
DeleteAccount ==
  /\ Acts("/account/delete")
  /\ \/ Acted("/account/delete") /\ UNCHANGED <<sess, cookie>>
     \/ /\ Acted("/")
        /\ sess' = Ended({s \in Sessions : sess[s] = User})
        /\ cookie' = 0
  /\ UNCHANGED <<conf, oauth, mails>>

\* To Stripe, which comes back to the billing page; a missing product or
\* customer leads there too, or to a bare 400.
Checkout ==
  /\ Acts("/account/billing/checkout") \/ Acts("/account/billing/portal")
  /\ Acted("/account/billing") \/ Blank("acted")
  /\ UNCHANGED <<conf, sess, cookie, oauth, mails>>

AdminEntitlement ==
  /\ \E p \in AdminActions \ {"/admin/users/1/sessions/revoke"} : Acts(p)
  /\ Acted("/admin/users/1")
  /\ UNCHANGED <<conf, sess, cookie, oauth, mails>>

\* The user on the page may be anybody, the admin as well.
AdminRevokeSessions ==
  /\ Acts("/admin/users/1/sessions/revoke") /\ Acted("/admin/users/1")
  /\ \E a \in Addresses : sess' = Ended({s \in Sessions : sess[s] = a})
  /\ UNCHANGED <<conf, cookie, oauth, mails>>

-------------------------------------------------------------------------------
(***************************************************************************)
(* Signing in.                                                             *)
(***************************************************************************)
Land(next, goal, lost) ==
  tab' = [Fresh EXCEPT !.pc = "hop", !.path = SafeNext(next), !.goal = goal, !.lost = lost,
                       !.landing = TRUE, !.hops = 1]

\* HandleVerify, for a link that is good.
OpenLink(m) ==
  /\ tab.pc = "page" /\ m \in mails
  /\ mails' = mails \ {m}
  /\ CreateSession(m.to)
  /\ Land(m.next, m.goal, m.lost)
  /\ UNCHANGED <<conf, oauth>>

\* HandleVerify, for a link that is used or expired (mails may expire unused).
OpenDeadLink ==
  /\ tab.pc = "page"
  /\ mails' \in {mails} \cup {mails \ {m} : m \in mails}
  /\ Show("/auth/verify", VerifyError)
  /\ UNCHANGED <<conf, sess, cookie, oauth>>

\* A mutant: mode=link is not looked at.
Mutant_GoogleMode(p) == "login"

GoogleMode(p) ==
  IF p = "/auth/google/login?mode=link" /\ User # NoOne THEN "link" ELSE "login"

\* HandleGoogleLogin. Offered without next, so the state keeps the default.
GoogleLogin ==
  LET p == tab.path IN
  /\ tab.pc = "hop" /\ p \in Google(conf) \ {"/auth/google/callback"}
  /\ oauth' = GoogleMode(p)
  /\ tab' = [Fresh EXCEPT !.pc = "consent", !.goal = tab.goal, !.lost = tab.lost,
                          !.asked = (p = "/auth/google/login?mode=link" /\ User # NoOne)]
  /\ UNCHANGED <<conf, sess, cookie, mails>>

\* HandleGoogleCallback. Without a session any more, Connect signs in.
Callback ==
  /\ tab.pc = "consent"
  /\ oauth' = "none"
  /\ \/ oauth = "none" /\ Redirect("/login") /\ UNCHANGED <<sess, cookie>>
     \/ oauth # "none" /\ Show("/auth/google/callback", VerifyError) /\ UNCHANGED <<sess, cookie>>
     \/ oauth = "link" /\ User # NoOne /\ Redirect("/account/security") /\ UNCHANGED <<sess, cookie>>
     \/ /\ oauth = "login" \/ (oauth = "link" /\ User = NoOne)
        /\ \E a \in Addresses : CreateSession(a)
        /\ Land("", tab.goal, tab.lost)
  /\ UNCHANGED <<conf, mails>>

-------------------------------------------------------------------------------
Next ==
  \/ \E s \in Sessions : SessionEnds(s)
  \/ Elsewhere
  \/ Type \/ FollowLink \/ GetPage \/ Logout
  \/ SubmitLogin \/ SubmitMessage \/ Turned
  \/ UpdateName \/ RevokeSession \/ RevokeAll \/ Disconnect
  \/ DeleteAccount \/ Checkout \/ AdminEntitlement \/ AdminRevokeSessions
  \/ OpenDeadLink \/ GoogleLogin \/ Callback
  \/ \E m \in mails : OpenLink(m)

Spec == Init /\ [][Next]_vars

-------------------------------------------------------------------------------
Everything == [google |-> TRUE, stripe |-> TRUE, debug |-> TRUE, products |-> Product]

Path == Open \cup Account \cup AdminPages \cup AdminActions \cup PageCatalog \cup Typed
          \cup Google(Everything) \cup Stripe(Everything) \cup Dev(Everything)
          \cup {"blank", "404"}

TypeOK ==
  /\ conf \in Confs
  /\ sess \in [Sessions -> Addresses \cup {NoOne}] /\ cookie \in 0 .. MaxSessions
  /\ oauth \in {"none", "login", "link"}
  /\ mails \subseteq [to : Addresses, next : Path \cup {""}, goal : Path, lost : BOOLEAN]
  /\ tab.pc \in {"page", "hop", "consent"}
  /\ tab.path \in Path /\ tab.next \in Path \cup {""} /\ tab.goal \in Path
  /\ tab.csrf \in 0 .. MaxSessions /\ tab.under \in 0 .. MaxSessions
  /\ tab.seen \in Addresses \cup {NoOne} /\ tab.lost \in BOOLEAN
  /\ tab.res \in {"none", "acted", "refused"}

\* Whatever is switched on or off, and whoever is signed in, every link and form
\* on a page that is shown leads to a route (main.go:84 against views/): only the
\* developers' index names two pages that need Stripe, and says so.
OfferedIsRouted ==
  \A o \in tab.offers :
    Routed(conf, o[1], o[2]) \/ (tab.path = "/pages" /\ o[2] \in NotedForStripe)

\* A form of the account or admin area never touches another account than the one
\* its page showed, whoever was signed in from another tab meanwhile and however
\* often: it ends no session of anybody else, unless it is an admin's, it acts for
\* the account shown (csrf.go:9), and who is still in the page's session is not
\* refused.
FormActsForItsPage ==
  [][tab.pc = "page" /\ tab' # tab =>
       /\ \A s \in Sessions :
            sess'[s] # sess[s] => sess[s] \in {NoOne, tab.seen} \/ IsAdmin(tab.seen)
       /\ tab'.res = "acted" => User = tab.seen
       /\ tab'.res = "refused" => <<cookie, User>> # <<tab.under, tab.seen>>]_vars

\* The page that a sign-in owes to somebody who asked for goal.
Owed(goal, lost) == IF lost THEN "/account" ELSE PathOf(goal)

\* Who was turned away to sign in is brought by the mailed link, opened in any tab,
\* to the path that was asked for, through mistyped addresses and repeated forms. It
\* is only that: the query is gone (middleware.go:65), and who took "Use a different
\* email", "Back to log in" or the Google button on the way comes to /account.
MagicLinkLands == tab.landing => tab.path = Owed(tab.goal, tab.lost)

\* What middleware.go:60 says, "preserving the destination": a sign-in leads to the
\* page that was asked for. It does not.
DestinationPreserved == tab.landing => tab.path = tab.goal

\* Connect never changes who is signed in, also when another tab began or ended
\* another flow, or another account was signed in meanwhile.
ConnectKeepsSession ==
  [][tab.asked /\ User # NoOne /\ tab' # tab => cookie' = cookie]_vars

\* Gates and sign-in never send a browser round in circles: a chain of redirects
\* ends after three, also when the session ends on the way.
RedirectsEnd == tab.hops <= 3
===============================================================================
