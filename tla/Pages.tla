-------------------------------- MODULE Pages --------------------------------
(***************************************************************************)
(* What the program answers to and what its pages offer, both of which     *)
(* depend on the configuration c: the routes that run() registers, and the *)
(* links and forms that the views render. An offer is <<method, path>>;    *)
(* links that stay on the page ("#") are left out.                         *)
(***************************************************************************)
CONSTANT NoOne  \* the current user of a request without a session

Product == {"pro", "ebook"}

\* GoogleEnabled, StripeEnabled, Debug, and the products with a price id.
Conf == [google : BOOLEAN, stripe : BOOLEAN, debug : BOOLEAN, products : SUBSET Product]

Get(paths)  == {"GET"} \X paths
Post(paths) == {"POST"} \X paths

-------------------------------------------------------------------------------
(***************************************************************************)
(* Routes, by what stands before the handler.                              *)
(***************************************************************************)
Open == {"/", "/messages", "/about", "/kit", "/privacy-policy", "/terms", "/version",
         "/healthz", "/robots.txt", "/login", "/login/sent", "/auth/verify", "/logout"}

\* The same path with and without ?mode=link.
Google(c) ==
  IF c.google
  THEN {"/auth/google/login", "/auth/google/login?mode=link", "/auth/google/callback"} ELSE {}

Account == {"/account", "/account/security", "/account/sessions/revoke",
            "/account/sessions/revoke-all", "/account/billing", "/account/delete",
            "/account/google/disconnect"}

\* The list with and without a query, here that of its pager.
AdminPages   == {"/admin", "/admin/users", "/admin/users?page=2", "/admin/users/1"}
AdminActions == {"/admin/users/1/entitlements/grant", "/admin/users/1/entitlements/revoke",
                 "/admin/users/1/sessions/revoke"}

\* A mutant: the billing routes are always there, the gated pages are not.
Mutant_Stripe(c) == {"/account/billing/portal", "/premium", "/guide"}

Stripe(c) ==
  IF c.stripe
  THEN {"/account/billing/checkout", "/account/billing/portal", "/premium", "/guide"}
  ELSE {}

Dev(c) ==
  IF c.debug
  THEN {"/pages", "/dev/emails", "/dev/emails/login", "/dev/emails/notification"} ELSE {}

GetOnly == {"/admin/users/1", "/dev/emails/login", "/dev/emails/notification"}

\* Everything else is the 404 of HandleHome.
Routed(c, m, p) ==
  \/ p \in Open \/ p \in Account \/ p \in Google(c) \/ p \in Stripe(c)
  \/ (p \in AdminPages \/ p \in Dev(c)) /\ (p \in GetOnly => m = "GET")
  \/ p \in AdminActions /\ m = "POST"

-------------------------------------------------------------------------------
(***************************************************************************)
(* Pages.                                                                  *)
(***************************************************************************)
HeaderLinks == {"/messages", "/about"}
FooterLinks == {"/", "/about", "/kit", "/privacy-policy", "/terms"}
AccountMenu == {"/account", "/account/billing", "/logout"}

Navbar(u) == {"/"} \cup HeaderLinks \cup IF u = NoOne THEN {"/login"} ELSE AccountMenu

\* Every page: navbar, the page's own offers, footer.
Page(u, body) == Get(Navbar(u) \cup FooterLinks) \cup body

Home        == Get({"/messages", "/kit", "/login"})
Messages    == Post({"/messages"})
LoginSent   == Get({"/login"})
VerifyError == Get({"/login"})
NotFound    == Get({"/"})

\* The Google button leads to the sign-in without the page asked for.
Login(c) == Post({"/login"}) \cup IF c.google THEN Get({"/auth/google/login"}) ELSE {}

AccountTabs == {"/account", "/account/security", "/account/billing", "/account/delete"}

AccountShell(body) == Get({"/"} \cup AccountTabs) \cup body

Profile == AccountShell(Post({"/account"}))

LoginMethods(c, linked) ==
  IF linked THEN Post({"/account/google/disconnect"})
  ELSE IF c.google THEN Get({"/auth/google/login?mode=link"}) ELSE {}

Security(c, others, linked) ==
  AccountShell(LoginMethods(c, linked) \cup
    IF others THEN Post({"/account/sessions/revoke", "/account/sessions/revoke-all"}) ELSE {})

BillingRow(p, customer, owned) ==
  CASE p = "pro" /\ customer -> Post({"/account/billing/portal"})
    [] p = "ebook" /\ owned  -> {}
    [] OTHER                 -> Post({"/account/billing/checkout"})

\* A mutant: the products are listed without looking at StripeEnabled.
Mutant_Billing(c, customer, owned) ==
  AccountShell(UNION {BillingRow(p, customer, owned) : p \in c.products})

Billing(c, customer, owned) ==
  AccountShell(IF c.stripe THEN UNION {BillingRow(p, customer, owned) : p \in c.products} ELSE {})

Danger == AccountShell(Post({"/account/delete"}))

AdminShell(body) == Get({"/", "/admin/users"}) \cup body

\* The search form is a GET of the list itself; the admin is on the list, which is
\* longer than one page.
AdminUsers == AdminShell(Get({"/admin/users/1", "/admin/users?page=2"}))

AdminUserDetail(owned) ==
  AdminShell(Post(AdminActions \ IF owned THEN {} ELSE {"/admin/users/1/entitlements/revoke"}))

\* The hand-kept index for developers. It notes that two of its pages need Stripe.
PageCatalog ==
  {"/", "/about", "/messages", "/kit", "/privacy-policy", "/terms", "/login", "/account",
   "/account/security", "/account/billing", "/account/delete", "/admin", "/premium",
   "/guide", "/dev/emails", "/pages", "/version", "/healthz", "/robots.txt"}
NotedForStripe == {"/premium", "/guide"}

DevEmailsIndex == Get({"/dev/emails/login", "/dev/emails/notification"})
===============================================================================
