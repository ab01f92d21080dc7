# A TLA+ model of the project template

The program is a small web application in Go: accounts with magic-link and
Google sign-in, sessions, Stripe billing, an admin area, and two background
jobs, all on one SQLite database. This directory holds TLA+ modules that model
its core, configurations that check them with TLC, and proofs checked by TLAPS.

## Inventory

| Part | State it keeps | Operations | Talks to | What is hard | What must hold |
|---|---|---|---|---|---|
| Billing (`handlers_billing.go`, `billing/`) | `users.stripe_customer_id`, `users.subscription_status`, `entitlements`, `processed_webhook_events`; at Stripe: customers, sessions, subscriptions, events | checkout, portal, webhook, gates of `/premium` and `/guide` | Stripe (calls, webhooks at least once, any order), users | duplicate, reordered, late and overlapping webhooks; aborts between statements; deleted and re-created accounts | entitlements are earned; no acknowledged purchase is lost; every paid order is delivered; gates agree with Stripe |
| Accounts (`handlers_auth.go`, `handlers_account.go`, `auth/`) | `users`, `login_tokens`, `sessions` | request link, verify, LoadUser, logout, revoke, revoke all, delete, cleanup | e-mail, every other handler through the request context | links opened at once, requests acting on a stale snapshot, expiry, id reuse | a session belongs to the person whose address got the link; a link works once; one account per address |
| Google sign-in (`auth/google.go`, `googleSignIn`, `googleLink`) | `users.google_id`, state cookie | login, callback, link, disconnect | Google, accounts | lookup and write are separate statements; one state cookie for all tabs | a Google account signs in to one account, the right one; Connect never changes who is signed in |
| Admin (`handlers_admin.go`) | none of its own | list and search, grant, revoke, sign out | billing's and accounts' tables | existence check before grant; count before list; rows that come and go between the pages | a grant lands on the account the admin meant; a walk through the list misses and repeats nobody without a reason |
| Messages demo (`handlers.go`) | `messages` | post, list | limiter, database | cut connections and retries | a sender who is redirected has the message stored, once unless the connection was cut |
| Rate limiter (`auth/ratelimit.go`) | `hits`: key -> times | Allow | login and message forms | window boundary, slice reuse | never more than max in a window; nobody is locked out longer than it |
| Serving (`main.go`, `serve.go`) | listener, requests in flight | start, serve, shutdown | signal, jobs, database | grace period, requests that do not end, kills | who is told that the message is stored finds it, however the process ends; a signal ends the process |
| Jobs (`scheduler/`) | a goroutine for each job | loop, run, recover | cleanup statements, reports, shutdown | panics, not joined at shutdown | a failing job keeps being run |
| Migrations (`database/migrate.go`) | `schema_migrations`, the schema | Migrate | SQLite's write lock | two processes of different builds at once, kills | each file once, in order, and the table says which |
| Pages and navigation (`views/`, `main.go`) | the tab, session and state cookies, CSRF tokens, `next` | links, forms, redirects, gates | every handler | what is on a page depends on configuration and account, and other tabs change the cookies meanwhile | no page offers a missing route; a form acts for the account its page showed; the path asked for survives the mailed link; redirects end |
| Configuration (`config/`) | products, switches | ProductByKey, Available, GoogleEnabled, ... | billing, views, routes | combinations | what is offered is there |
| E-mail, error reports, request ids | - | send, report | transports | best effort | a failed report harms no job |
| Component kit, themes, assets, deployment | - | - | - | - | - |

The components interact through the database and through values a request
carries: `LoadUser` reads session and user once, and the handler works on that
snapshot; a checkout session and its webhook carry the user id and the product
key; the session id in a cookie outlives the request that set it; a page carries
the CSRF token of the session it was rendered in, and the address it was asked
for goes through a form, a mail and a link.

`database.Open` allows one connection, so each SQL statement is atomic and the
statements of all requests are totally ordered. That is the grain of the
models of the handlers: one action per statement or external call, and anything
may happen between two of them. `Site` takes a whole request as one step, because
its subject is what happens between requests, and `Lifecycle` has the statements
of the one handler that it follows through a shutdown.

## Modules

| Module | What it is |
|---|---|
| `Fulfilment` | the abstract order service: orders are paid, delivered, or voided with their account |
| `Directory` | the abstract users table: one row for an address, an id given out once |
| `SignIn` | the abstract sign-in service: links that are sent, taken, used or dead, and the sessions they open |
| `Billing` | the checkout, webhook and admin-entitlement handlers, Stripe, faults |
| `Accounts` | magic links, sessions, signed-in requests, cleanup, faults |
| `GoogleSignIn` | the Google callback in login and link mode, disconnecting, and what they race with |
| `Migrate` | the migration runner, in several processes of older and newer builds |
| `Limiter` | the sliding log of the rate limiter |
| `Lifecycle` | the process from start to end, its jobs and one form; composed of `Migrate` and `Limiter` |
| `Paging` | the admin's list of users: count, list, pager and search while users come and go |
| `Pages` | the routes of each configuration, and what each page offers |
| `Site` | a browser that goes through `Pages` by links, forms and redirects |
| `BillingProofs`, `AccountsProofs`, `GoogleProofs`, `MigrateProofs`, `LimiterProofs`, `LifecycleProofs`, `PagingProofs`, `SiteProofs` | the theorems about the modules |
| `MCBilling`, `MCAccounts`, `MCGoogleSignIn`, `MCLifecycle`, `MCPaging`, `MCSite` | their instances for TLC |

`Lifecycle` EXTENDS `Migrate` and `Limiter` and runs their actions as parts of its
own; `Billing` is shown to implement `Fulfilment`, and `Accounts` to implement
`SignIn`. `Billing`, `Accounts`, `GoogleSignIn` and `Site` describe the same users
from four sides. They are not composed into one module, whose states TLC could not
go through. What each takes from the others is an action of its own there: sign-up
and deletion in `Billing` and `GoogleSignIn`, a session that ends in `Site`. What
`Billing`, `Accounts` and `GoogleSignIn` rely on together is one specification,
`Directory`, which each of their users tables implements.

Operators named `Mutant_...` are faulty versions of the definition that
follows them: swapping one in breaks a property, which shows that the property
depends on that piece of code. No specification uses them.

### Billing

`users`, `entitlements` and `processed` are the tables; `lastId` is what
AUTOINCREMENT keeps in `sqlite_sequence`. `co[k]` is a checkout: `pc` steps
through `HandleCheckout` (`ensure`, `link`, `session`), then `open` and `paid`
is its session at Stripe, `sub` the status of the subscription it started.
`dl[d]` is a webhook request: `check`, `apply`, `record`, `reply`. `grant` is
an admin's grant between its existence check and its INSERT, with the person whose
account the admin was looking at. `customers`,
`events` and `acked` belong to Stripe: for whom a customer was made, what was
emitted, what was answered 200. `applied`, `comped` (to whom an admin meant to give
what) and the `owner` of a checkout and of a grant are history: the code never reads
them.

| Action | Code |
|---|---|
| `StartCheckout`, `EnsureCustomer`, `LinkCustomer`, `OpenSession` | `HandleCheckout`, on `LoadUser`'s snapshot |
| `Deliver`, `CheckEvent`, `ApplyGrant` / `ApplyLink` / `ApplyStatus` / `ApplyNothing`, `RecordEvent`, `Reply` | `HandleStripeWebhook` |
| `AdminGrantStart`, `AdminGrantFinish`, `AdminRevoke` | the entitlement handlers of `handlers_admin.go` |
| `SignUp`, `DeleteAccount` | `CreateUser` and `HandleDeleteAccount`, with the cascade |
| `PaySession`, `ChangeSubscription`, `OtherEvent` | Stripe and the buyer, external |
| `AbortCheckout`, `AbortDelivery`, `Crash` | a canceled request, an error of Stripe or the disk, a lost answer; a process crash |

`HandlePortal` changes no table; what a user does in the portal is
`ChangeSubscription`, and the way there and back is in `Site`. A signature failure answers 400 before any state is
read and is left out. A completed session is a paid one (delayed payment
methods are not modelled), and the catalogue does not change while the model
runs.

`Orderly` restricts the environment, not the code: each person finishes one
checkout before the next (those of different people overlap) and uses a fresh billing
page, and Stripe delivers one event at a time in order. It separates what the code does by itself from what
it leaves to the order of events.

### Accounts

`users` maps an id to the person whose address the row holds (addresses
compare case-insensitively, so a person is an address). `tokens` and `sessions`
are the tables with their expiry, `mail` the links that reached a mailbox.
`vr[v]` is a `/auth/verify` request (`consume`, `lookup`, `create`, `session`),
`rq[q]` a signed-in request after `SessionByID` (`user`, then what it does;
`drop` is the second statement of `HandleRevokeSession`). `now` counts ticks of
a clock, and `Offset[t]` says how far the local clock is ahead of it: the driver
stores an expiry as the text of a local time, `HandleVerify` and `LoadUser` parse it
and compare instants, but the cleanup statements compare the texts (`Swept`), which
is to compare what the clock on the wall shows (`Wall`). `addressee` and `opened` are history variables. Hashing and random
tokens are abstracted to values that are never generated twice. Whoever opens
a link is taken for the person the mailbox belongs to. `HandleUpdateName` changes
nothing that another action reads; its form is in `Site`.

| Action | Code |
|---|---|
| `CreateToken`, `SendLink` | `HandleLogin` |
| `OpenLink`, `ConsumeToken`, `FindUser`, `CreateUser`, `CreateSession` | `HandleVerify`; `FindUserFails` is a lookup that fails for another reason than a missing row |
| `LoadSession`, `LoadUser` | the `LoadUser` middleware, for the cookie of session `s` |
| `Logout`, `CheckRevoke` and `DropSession`, `RevokeAll`, `DeleteAccount` | the signed-in handlers |
| `AdminRevokeSessions`, `CleanupTokens`, `CleanupSessions` | the admin's sign-out and the two jobs |
| `AbortVerify`, `AbortRequest`, `Crash` | as in Billing |

`Accounts` states two refinements. `ImplementsDirectory` takes `users` and `lastId`
as they are. `ImplementsSignIn` reads the state of a link and of a session from the
tables, the requests and the clock:

| In `SignIn` | In `Accounts` |
|---|---|
| `link[t]` | `LinkOf(t)`: "used" when it opened a session, "taken" while a verify request past `ConsumeToken` has it, "valid" while its row is there and `ConsumeToken`'s caller would accept it, else "dead" |
| `session[s]` | `SessionOf(s)`: "open" while `LoadUser` accepts it, "closed" after that |
| `sentTo`, `with` | the history variables `addressee` and `opened` |
| `Send`, `Take`, `Open` | `CreateToken`; `ConsumeToken` of a link that is still valid; `CreateSession` |
| `Lapse` | everything that ends links and sessions: the clock, expired links that are opened, aborts, crashes, `Logout`, the revocations, deletions |
| a stutter | the lookups, `CreateUser`, the cleanup jobs, requests that act on nothing |

### GoogleSignIn

`users` maps an id to a row with an address and the Google account linked to
it, `lastId` is as in Billing, `cb[c]` a callback request: the Google account of
its profile, the user it works on, and its next statement (`link_find`,
`link_set` of `googleLink`; `find`, `find_email`, `create`, `set` or `set_new`,
`reload` of `googleSignIn`; `session`). People own addresses and Google
accounts; a verified Google account has an address of its own owner, an
unverified one may have anybody's. In link mode the signed-in user is a row the
same person owns, but not necessarily the one with the Google account's address,
and a person may link and sign in from several windows at once.

| Action | Code |
|---|---|
| `StartSignIn`, `StartLink` | `HandleGoogleCallback` up to the first statement: profile fetched, address verified; link mode with the user of the request context |
| `LinkFind`, `LinkSet` | `googleLink` |
| `FindGoogle`, `FindEmail`, `CreateUser`, `SetGoogle`, `Reload` | `googleSignIn` |
| `CreateSession` | the rest of the callback (the session itself is in Accounts) |
| `SignUp`, `DeleteAccount`, `Disconnect` | `CreateUser` by magic link, `HandleDeleteAccount`, `HandleDisconnectGoogle` |
| `Abort`, `Crash` | as in Billing |

The state cookie and its mode are in `Site`: they decide whether a callback gets
as far as `StartSignIn` or `StartLink` and for whom. The exchange with Google
succeeds or fails and leaves no state behind, so that it is left out here.

### Migrate

`schema` is the sequence of files whose statements took effect, `recorded` the
table `schema_migrations`, `writer` the holder of SQLite's write lock, `mg[p]`
the next statement of process `p` and `at[p]` the file its loop is at. Processes
differ in the number of files their build embeds.

| Action | Code |
|---|---|
| `Start`, `CreateTable` | `Open`, which connects lazily, and CREATE TABLE IF NOT EXISTS |
| `Check` | the SELECT EXISTS at the head of the loop, and the loop's end |
| `Exec`, `Insert`, `Commit` | the transaction of one file; the first statement that writes takes the lock |
| `Fail`, `Exit` | a statement that fails because another process was faster or is writing; an error or a kill anywhere, which rolls back |

### Limiter

`hits[k]` is the slice of a key, as the set of its entries; a serial number tells
entries of one instant apart. `allowed` is a history variable. `Accept` and
`Refuse` are `Allow` returning true and false, both with the pruning; `Forget` is
a new process with an empty map; `Tick` is the clock.

### Lifecycle

`stage[p]` says how far `run` is after `Migrate`, `told[p]` that a signal came,
`deadline[p]` when `Shutdown` gives up; `job[p][j]` is the state of a job's
goroutine, `rq[r]` a request to post a message with the answer its sender saw, and
`messages` counts the rows.

| Action | Code |
|---|---|
| `Boot`, `MigrateStep`, `FailToStart` | the start; the migrations; a start that fails in them, for want of `APP_SECRET`, or on a taken port |
| `StartJobs`, `Listen` | `NotifyContext`, `scheduler.Start`, `ListenAndServe` |
| `Signal`, `Drain`, `CloseDB`, `Return` | SIGTERM, `Shutdown`, its return and the deferred `db.Close`, the end of `run` |
| `ServeFails` | an error of `Serve`: `serve` returns it at once, and `db.Close` runs under the open requests, with no grace period |
| `Kill` | SIGKILL, a crash, or a signal that is not caught yet |
| `Submit`, `CreateMessage`, `CreateMessageFails`, `Reply`, `Retry` | `HandleMessages`: honeypot, limiter, validation, INSERT, redirect; and the sender |
| `HangUp` | a sender who leaves, or a handler that outlasts the server's `WriteTimeout`: the answer is lost |
| `RunJob`, `StopJob`, `JobDone`, `JobFails`, `Report` | `runLoop` and `runOnce` |
| `PassTime` | the clock |

A process that ends loses its limiter, jobs and open requests, the database stays.
A request may take for ever; nothing makes it end but the process. What a connection
that is kept brings in between the database's close and the end of the process is left
out: it can store nothing.

### Paging

`users` is the set of ids (ids and `created_at` grow together), `req` the request
between its count and its list, `shown` the page in the browser. `walk` is a
history variable: what an admin who goes on by Next from page 1 has seen, and what
happened to the table meanwhile. `Count` and `List` are the two queries with
the clamp between them, `FollowNext` and `FollowNumber` the links of `pagination`,
`Search` the form or an address typed in with any page number, `Abort` a failed
query. `SignUp` and `DeleteUser` come at any time.

### Pages and Site

`Pages` has no state. `Routed(c, m, p)` is what `run` registers in configuration
`c`; an operator for each view (`Login`, `Security`, `Billing`, `AdminUserDetail`,
...) gives the links and forms it renders, depending on the configuration and on
what the account has.

`Site` puts a browser in front of it: `sess` the live sessions, `cookie` and
`oauth` its two cookies, `mails` the unused links, and `tab`, one tab with the page
it shows, the CSRF token and `next` in it, and the number of redirects followed
so far. `asked` and `res` say what the tab is about; the rest is history, kept for the
properties: `goal` is the page that was asked for before `/login` came in
between, `lost` that a link without `next` was followed since, `landing` that a
sign-in has just sent the browser on; `seen` and `under` are the account that a page
was rendered for and the session it was rendered under (a session of that id does not
come again while the page is there: ids are random). One page has a query
(`/admin/users?page=2`), for `RequireUser` keeps the path alone. Every
request is one step and every redirect another, so that anything may happen to the
cookies and sessions while a page is open or a redirect is under way.

| Action | Code |
|---|---|
| `Type`, `FollowLink` | the person |
| `SessionEnds`, `Elsewhere` | expiry, other devices, admins; other tabs that sign in or out or go to Google |
| `GetPage` | the GET routes with `RequireUser`, `RequireAdmin`, the gates and the pages |
| `Logout` | `HandleLogout` |
| `SubmitLogin`, `SubmitMessage` | the forms that need no session |
| `Turned`, `UpdateName`, `RevokeSession`, `RevokeAll`, `Disconnect`, `DeleteAccount`, `Checkout`, `AdminEntitlement`, `AdminRevokeSessions` | the forms that do: turned away, refused by `requireCSRF`, or done |
| `OpenLink`, `OpenDeadLink` | `HandleVerify` with its redirect to `next` |
| `GoogleLogin`, `Callback` | `HandleGoogleLogin` and `HandleGoogleCallback`: state cookie, mode, session |

What an account has (a customer, an entitlement, a linked Google account) is
chosen anew for each page, which is more than the tables allow.

## What TLC checks

| Run | Module and configuration | Result | What it shows |
|---|---|---|---|
| `purchases` | `MCBilling_purchases.cfg` | holds | `TypeOK`; `EntitlementsEarned`: an entitlement is on an account whose *person* paid or was given it; `CustomerIsOwners`: the Stripe customer on a row was made for its owner; `AckedNotLost`: what got a 200 was recorded, and a one-time purchase was recorded only after its grant; `RefusedOnlyIfGone`: unless it is aborted, a checkout gets to Stripe, and a webhook request fails only for a purchase whose account is gone |
| `fulfilment` | `MCBilling_fulfilment.cfg` | holds | `ImplementsFulfilment`: Billing with Stripe's retries implements `Fulfilment` with its fairness, so each paid checkout is delivered in the end unless its account is deleted |
| `orderly` | `MCBilling_orderly.cfg` | holds | with an orderly environment, `/premium` is open exactly to subscribers once all events are settled: `PremiumNeedsSubscription`, `SubscriberHasPremium`, for two people whose checkouts overlap |
| `duplicates` | `MCBilling_duplicates.cfg` | violated | two overlapping deliveries of an event both apply it (`RecordedEventIsSkipped`) |
| `reordered` | `MCBilling_reordered.cfg` | violated | events out of order leave `/premium` open after a cancellation (`PremiumNeedsSubscription`) |
| `signin` | `MCAccounts_signin.cfg` | holds | `SessionIsAddressees`, `ActsForHolder` (a request that outlived its session or account acts on its holder's account or on none), `ImplementsDirectory` (one row for an address, an id given out once), `ImplementsSignIn` (a link is taken by one request, opens one session at most and never after it lapsed; a closed session stays closed), `OthersStaySignedIn` (who revokes sessions ends nobody else's), all with cleanup jobs that go by a local clock about to be set back |
| `signup_race` | `MCAccounts_race.cfg` | violated | two links for a new address: one request answers 500 and its link is used up (`FindOrCreate`) |
| `fall_back` | `MCAccounts_fall_back.cfg` | violated | the cleanup job deletes a link that is still good, in the hour before the clocks go back (`PrunesExpiredOnly`) |
| `google_callbacks` | `MCGoogleSignIn_callbacks.cfg` | holds | `GoogleIsOwners`: the Google account on a row is of the person whose row it is; `SignsInOwner`: a callback links or signs in to a row of its Google account's owner, or to none; `OneAccountPerGoogle`: it is on one row at most |
| `deploy` | `MCLifecycle_deploy.cfg` | holds | a new build starts beside an old one on the same file: `AppliedInOrder`, `SchemaIsComplete`; `WindowHolds`, `RefusedOnlyAtLimit` (nobody is refused for attempts that were refused, have aged or were let through by an earlier process); `RedirectedIsStored`: who was redirected has the message stored; `TwiceOnlyIfCut`: it is there twice only after a cut connection; and under fairness `JobsKeepRunning`, `SignalEnds`, `StartEnds` |
| `paging` | `MCPaging_list.cfg` | holds | `EmptyOnlyIfRaced`: an empty page means an empty list, or a deletion between count and list; `WalkSeesAll`, `WalkSeesOnce`: who goes through by Next misses somebody only after a deletion (or a sign-up between count and list) and sees somebody twice only after a change |
| `site` | `MCSite_tabs.cfg` | holds | in a configuration with everything on and in a developer's: `OfferedIsRouted`; `MagicLinkLands`: the mailed link leads to the path that was asked for, unless a link that drops it was followed; `RedirectsEnd`; `FormActsForItsPage`: whoever was signed in from another tab meanwhile, a form acts for the account its page showed or not at all, ends nobody else's session, and is not refused to who is still in the page's session; `ConnectKeepsSession` |

Two more configurations are not among the runs, but show what the code does when a
premise of theirs is dropped. `MCBilling_double_click.cfg` violates
`SubscriberHasPremium` without `Orderly`: one person, two overlapping checkouts.
`MCSite_destination.cfg` violates `DestinationPreserved`, which is `MagicLinkLands`
with the whole address in the place of its path (see "Findings").

### Bounds

* People: two where one person's step could reach another's account; ids:
  `MaxUsers` 2, so that an account can be deleted and its id would come back if
  ids were reused. The Accounts run has the same bounds.
* Checkouts: two, so that two overlap, for one person or two. Customers: as many
  as checkouts, one each at most.
* Gifts of admins: one (`MaxGifts`), to anybody, and taken back at any time.
* Deliveries: two overlapping requests; a third adds no new kind of pair, for
  a delivery touches only its own `pc` and idempotent rows.
* Events: two to four, as each configuration says: enough for a paid
  subscription (two events), and a cancellation after it.
* Faults: one, anywhere. Since a crash leaves only table contents behind, a
  second one meets states that the first one met.
* `orderly`: two people, of whom each may have both checkouts; three statuses, one
  fault, no second delivery (`Orderly` has one at a time).
* Accounts: two links, two verify requests and two signed-in requests at once,
  clock 0..2 with lifetimes of 1, so that links and sessions can expire and can be met
  exactly at the boundary. A tick is a quarter of an hour: the local clock is set back
  by four of them at instant 3, which is after the run's last instant but not after
  the last expiry.
* Google: two callbacks at once, three ids, two people of whom one has two
  addresses with a Google account each and the other has a Google account that
  claims, unverified, an address of the first.

* Lifecycle: an old build with one migration and a new one with two, two starts
  altogether (two processes at once, or one again after the other, or the same
  one after a kill), one sender behind a limit of 1 in a window of 1, a clock 0..1,
  a grace period of 1, one job that one of the processes has disabled; the sender's
  connection breaks by itself (`Breaks`) once at most, under a redirect, and with every
  end of a process besides. The sender may post again and again, so that double INSERTs, refusals
  and windows that end, exactly at their boundary, all occur. About 100,000 states;
  the liveness properties limit the size. In a window of one tick a refused attempt is
  as old as the one that it was refused for, so that a limiter that counted it would
  not be found out: that is left to `OnlyAllowedAlwaysCount`.
* Paging: five users and pages of two: up to three pages, so that there is one
  that is neither first nor last; a search that leaves out some. About 900,000
  states.
* Site: two addresses, one of an admin; two sessions; one unused mail; two typed
  addresses, one behind a gate and one that redirects on. A tab has one page at a
  time, so a second session and a second address are all that another tab can
  confuse it with. The configurations without Stripe or Google, or without
  products, are covered by `OfferedAlwaysRouted`. A login mail arrives only for who asked for one of five pages
  (`Mailed`): `/account`, a gated one, one that redirects on, one with a query and one
  that is a form's address too. About 620,000 states.

The theorems below hold without these bounds. Symmetry is used in runs with
safety properties only.

Deadlock is checked in `signin`, `signup_race`, `fall_back`, `paging` and `site`, where somebody can
always do something. In the other runs all bounded work may be done, and the model
stops.

### Fairness

`FairSpec` of Billing assumes two things. A webhook request that has begun goes
on (`WF` of `DeliveryStep`): the Go scheduler runs every goroutine and every
statement returns. And Stripe keeps trying each event that has no 200
(`SF` of `Retry(e)`): strong, because the fixed number of concurrent
deliveries of the model may be taken by other events again and again.
Faults are bounded, so an event is not aborted for ever. Nothing is assumed of
people: no one has to pay, to sign up or to finish a checkout. Stripe gives up
after days in reality; an event whose grant fails that long belongs to a deleted
account, and its order is void.

`FairSpec` of Lifecycle assumes that the clock goes on (to the end of the
model's time), that the main goroutine takes its next step, and that the goroutine
of each job that is not disabled goes on: its ticker fires, its statements return
within `busy_timeout` and a report within five seconds. `SignalEnds` uses that
`Shutdown` returns at its deadline; no fairness is given to requests, so that one
of them may never be answered. `StartEnds` has no retry to rely on: a process that
meets another's write lock waits for at most `busy_timeout` and then fails, and
both count as an end. Starts, signals, kills, errors of `Serve` and all that people do have no fairness.

## What is proved

The provers check each theorem for all values of the constants that satisfy the
module's assumption. The same formulas are the ones that TLC checks in the runs.

### Billing

`BillingProofs` proves about `Billing`, for all values of its constants under
`BillingAssumption` (bounds are natural numbers, the sets of product kinds are
disjoint, the null values are not elements of the sets they extend):

| Theorem | Statement |
|---|---|
| `TypeCorrect` | `Spec => []TypeOK` |
| `EntitlementsAlwaysEarned` | `Spec => []EntitlementsEarned` |
| `CustomerAlwaysOwners` | `Spec => []CustomerIsOwners` |
| `AckedNeverLost` | `Spec => []AckedNotLost` |
| `ImplementsFulfilmentSafety` | `Spec => Fulfil!Spec`, the safety half of the refinement |
| `AlwaysRefusedOnlyIfGone` | `Spec => RefusedOnlyIfGone`, an action property |
| `RecordedAlwaysSkipped` | `Orderly` implies `Spec => []RecordedEventIsSkipped` |
| `PremiumAlwaysNeedsSubscription` | `Orderly` implies `Spec => []PremiumNeedsSubscription` |
| `SubscriberAlwaysHasPremium` | `Orderly` implies `Spec => []SubscriberHasPremium` |
| `BillingKeepsDirectory` | `Spec => ImplementsDirectory`: the users table, with what checkouts and webhooks write into it, implements `Directory` |

None of the invariants is inductive. The inductive one, `Inv`, says what the
values carried by requests and events still mean when they are used:

* `CoInv`: a checkout that has begun names a user id, an owner and a product,
  and a customer from `link` on;
* `UsersInv`: ids above `lastId` were never rows. This is the reason why a late
  event cannot reach another person;
* `CustInv`: a customer in use was made for the owner of the checkout;
* `EventsInv`: an event tells the truth about the checkout it stems from, and
  `completed` means paid;
* `LedgerInv`: recorded events are events; a delivery past `apply`, a recorded
  and an acknowledged event each imply that the previous step was done;
* `IdentityInv`: if the row of a checkout's user id is live, its owner is the
  person who began the checkout, and the customer on a row is its owner's;
* `GrantsInv`: entitlements are earned, and the user id of a pending admin grant was
  given out and means the person whose account the admin was looking at, or nobody.

`EntitlementsEarned` needs `IdentityInv` and `GrantsInv` (the id in the event, or in
the admin's request, still means the same person or nobody), which need `UsersInv` (ids are not given out twice)
and `EventsInv` (the id in the event is the checkout's). The proof has one lemma
for each variable or group of variables (`CheckoutsStep`, `CustomersStep`,
`EventsOnlyGrow`, `LedgerStep`, `UsersOnlyMove`): what a step can do to
it, over the actions that touch it, which `StepFrame` lists. Two lemmas about
relations between variables (`IdentityStep`, `GrantsStep`) use only those, not
the actions. The refinement proof maps each step to `PayOrder`, `DeliverOrder`,
`VoidOrders` or a stutter.

`RefusedOnlyIfGone` is what the liveness of `Fulfilled` rests on besides fairness:
the statements of a checkout and of a delivery succeed. An `ApplyLink` or a link of
a checkout could run into the unique index on the customer only if another row had
that customer. By `IdentityInv` the customer was made for the owner of the checkout
and of every row that has it, and by `OneRowEach` (an invariant of `Directory`,
which Billing implements) an owner has one row.

The three theorems with `Orderly` are about the environment of the run `orderly`, for any
number of people, checkouts, events and faults; without it all three fail
(`duplicates`, `reordered`, `MCBilling_double_click.cfg`). Their invariant is `Inv` and `OrderlyInv`:

* `Matched`: a checkout that reached `session` has the customer of its account's
  row, no other row has that customer, and a subscription is the only one of its
  customer. It is where one checkout at a time for each person and the fresh
  page are used, and why an event's `ApplyLink` then never changes a row;
* `SubsInv`: the status of a subscription is that of the newest event about it;
* `TurnInv`: some first `n` events are recorded, a delivery in progress is of one
  of the first `n + 1`, and each row shows the newest of the first `n` or `n + 1`
  events about its customer. A request aborted between its statement and its
  record leaves rows at `n + 1`; the repeated statement brings them there again.

When all events are answered, `n` is the number of events, and the newest event
of a row's customer is the newest of its owner's one subscription.

### Google sign-in

`GoogleProofs` proves about `GoogleSignIn`, under `GoogleAssumption` (a verified
Google account and its address have the same owner, the null values are not
elements of the sets they extend; no row is an address):

| Theorem | Statement |
|---|---|
| `GoogleTypeCorrect` | `Spec => []TypeOK` |
| `GoogleAlwaysOwners` | `Spec => []GoogleIsOwners` |
| `SignsInAlwaysOwner` | `Spec => []SignsInOwner` |
| `OneAccountPerGoogleAlways` | `Spec => []OneAccountPerGoogle` |
| `GoogleKeepsDirectory` | `Spec => ImplementsDirectory`: rows added, deleted and linked by any number of callbacks implement `Directory` |

The inductive invariant adds `IdsInv` (ids above `lastId` were never rows) and
`CallbackInv` (a callback under way has a verified Google account, a user id that
was given out, and one at all in the statements that use it). Every step changes
the table in one of four ways (`UsersStep`: a row added, gone, given another
`google_id`, or nothing); `TableKept` shows that these keep the table's
invariants, and `OthersFit` that they leave the meaning of an id held by a callback
alone. Each action's lemma then has to say only which way it goes and that the
callback it moves still fits. For the directory a row added is `Add` (its address
was free: `InsertAdds`), a row gone is `Remove`, and a change of `google_id` is not
seen (`GidInvisible`).

### Accounts

`AccountsProofs` proves about `Accounts`, under `AccountsAssumption` (bounds and
lifetimes are natural numbers, the null values are not elements):

| Theorem | Statement |
|---|---|
| `AccountsTypeCorrect` | `Spec => []TypeOK` |
| `LinkAlwaysUsedOnce` | `Spec => []LinkUsedOnce` |
| `OneAccountAlways` | `Spec => []OneAccountPerAddress` |
| `SessionAlwaysAddressees` | `Spec => []SessionIsAddressees` |
| `AlwaysActsForHolder` | `Spec => []ActsForHolder` |
| `OthersAlwaysStaySignedIn` | `Spec => OthersStaySignedIn`, an action property |
| `AlwaysADirectory` | `Spec => ImplementsDirectory`, a refinement |
| `AlwaysASignInService` | `Spec => ImplementsSignIn`, a refinement |

The inductive invariant follows a link from hand to hand: unused, it belongs to
the address on its row and opened nothing (`LinkInv`); past `ConsumeToken` exactly
one request has it (`ClaimedOnce`), its row is gone, and the user id found or
created for it names a row of that address or none (`VerifyInv`); the session it
opened is on the account of its addressee (`SessionInv`); and a request that
`LoadUser` let through has a user id that means the holder of its session or
nobody (`RequestInv`). `IdsInv`, that ids are not given out twice, makes
the last three survive a deletion. Steps are sorted by what they do to the
users (`UsersStep`), the sessions (`SessionsStep`), the history (`HistoryKept`)
and the verify requests (`VerifyStepKinds`), and each part of the invariant is
shown for the kinds, not for the actions. `OthersStaySignedIn` follows from
`RequestInv` and `SessionInv`: a session that a request drops is one it had found
to be of its own user before.

The refinement of `Directory` follows from `UsersStep` and from the free id and the
free address that `CreateUser` needs. That of `SignIn` has one lemma for each kind of
step. What is not the making, taking or using of a link may only lapse links and
close sessions (`KeptLapses`): the clock never turns back (`ClockStep`), so a row
that is no longer accepted never is again; a session once opened is never given a
new row or a later expiry (`SessionsStep`); and a verify request gets a link only
from its row (`ClaimsStep`). `TakeStep` uses that the row goes in the same
transaction in which the request gets it (`LinkInv`), `OpenStep` that no other
request has the link (`ClaimedOnce`) and that it opened nothing yet (`VerifyInv`).

### Migrations, limiter and the process

`MigrateProofs` (`MigrateAssumption`: `Files` are natural numbers),
`LimiterProofs` (`LimiterAssumption`: max, window and clock are natural numbers)
and `LifecycleProofs` (`LifecycleAssumption`):

| Theorem | Statement |
|---|---|
| `MigrateTypeCorrect`, `AppliedAlwaysInOrder`, `SchemaAlwaysComplete` | `MigrateSpec =>` `[]MigrateTypeOK`, `[]AppliedInOrder`, `[]SchemaIsComplete` |
| `WindowAlwaysHolds`, `OnlyAllowedAlwaysCount` | `LimiterSpec =>` `[]WindowHolds`, `[]OnlyAllowedCount` |
| `LifecycleTypeCorrect` | `Spec => []TypeOK` |
| `LifecycleMigrates`, `LifecycleLimits` | `Spec => MigrateSpec`, `Spec => LimiterSpec`: the composed specification implements its parts |
| `LifecycleAppliedInOrder`, `LifecycleSchemaComplete`, `LifecycleWindowHolds`, `LifecycleOnlyAllowedCount` | the same in the composed specification |
| `RedirectedAlwaysStored`, `TwiceAlwaysCut` | `Spec =>` `[]RedirectedIsStored`, `[]TwiceOnlyIfCut` |
| `RefusedAlwaysAtLimit` | `Spec => RefusedOnlyAtLimit`, an action property |
| `JobsAlwaysAlive`, `DrainAlwaysShort`, `WriterAlwaysGoesOn` | `Spec =>` `[]JobsStayAlive`, `[]DrainIsShort`, `[]WriterGoesOn` |

Migrate's invariant adds that the one process in a transaction is the writer and
its file is not applied yet (`WriterInv`), and that a loop at file `n` has all
files before `n` applied (`LoopInv`). Together they say that the file a
transaction commits is the next one: all before it are there and it is not.
The limiter's invariant adds that the log is part of the history and that
serial numbers are new (`LogInv`); the window bound then follows for windows that
end now from the guard, and for all earlier ones because the past does not change.
Lifecycle's steps are steps of `MigrateNext` and of `LimiterNext` or leave their
variables alone (`StepsMigrate`, `StepsLimiter`), which carries both invariants
over; its own, `StoredInv`, ties the answer of a request to the rows stored.
`RefusedOnlyAtLimit` is about the history while the guard of `Refuse` is about the
log; `OnlyAllowedCount`, a part of the invariant, makes the one the other.
The last three are the safety cores of the liveness properties: a job has its
goroutine until the signal (`JobsKeepRunning`), a drain's deadline is never further
away than the grace period (`SignalEnds`), and the holder of the write lock is in a
transaction whose next statement succeeds, so that nobody waits for a process that
is gone (`StartEnds`). What is left to TLC is that time and fair goroutines get there.
`ProcessStep` lists what a step can do to one process.

### Pages and Site

`SiteProofs` proves about `Site`, under `SiteAssumption` (the configurations
looked at are any of the 32, any typed addresses):

| Theorem | Statement |
|---|---|
| `SiteTypeCorrect` | `Spec => []TypeOK` |
| `OfferedAlwaysRouted` | `Spec => []OfferedIsRouted` |
| `MagicLinkAlwaysLands` | `Spec => []MagicLinkLands` |
| `RedirectsAlwaysEnd` | `Spec => []RedirectsEnd` |
| `FormAlwaysActsForItsPage` | `Spec => FormActsForItsPage`, an action property |
| `ConnectAlwaysKeepsSession` | `Spec => ConnectKeepsSession`, an action property |

The invariant of the tab adds a rank: how many redirects a GET of a path may still
meet (two from the gated pages and `/admin`, one from what needs a user). Redirects
so far and the rank stay at three or below together. What a sign-in owes (`Owed`) is the
path of the page asked for, or `/account` once a link without `next` was followed; a
mail and the login form keep it in `next` (`MailInv`, `TabInv`), and a step from one
page of the sign-in to the next keeps it or says `lost` (`OnwardOwes`). A page with a
gate was rendered under the session of the account that it shows, and that session
is still this account's or has ended (`PageInv`): ids of sessions are random, so that
none comes back while a page that has its token is shown. This, and that a form with
a token other than the cookie's session is refused, is why a form cannot act for
somebody who signed in later (`FormSession`) or end their sessions (`FormEnds`).
A tab that went to Google for Connect finds its own
state cookie with mode `link` or none (`BrowserInv`). Each way of making a tab
(`Show`, `Redirect`, `Blank`, `Turn`, ...) has a lemma that its result satisfies
the invariant; the lemmas of the actions name the ways they go.

### Paging

`PagingProofs` proves about `Paging`, under `PagingAssumption` (a page has room for
one, and a user may exist):

| Theorem | Statement |
|---|---|
| `PagingTypeCorrect` | `Spec => []TypeOK` |
| `AlwaysEmptyOnlyIfRaced` | `Spec => []EmptyOnlyIfRaced` |
| `WalkAlwaysSeesAll` | `Spec => []WalkSeesAll` |
| `WalkAlwaysSeesOnce` | `Spec => []WalkSeesOnce` |

A user's place on a list is the number of rows before it. The lemmas about numbers
of pages (`LastPage`, `MorePages`) and about places (`PlaceTaken`: one user on each
of the places 0, 1, ... of a list, none left out) give what a page shows
(`OnList`): it is not empty, it is full unless it is the last, and the last leaves
nobody over. The invariant says what a walk has still to see: with no
change, everybody on a place before the page that comes next has been seen
(`OnceInv`); with sign-ups only, whoever has not been seen is on a place from that
page on (`AllInv`), because a sign-up pushes people back and never forward.

### Only model-checked

* Liveness: `JobsKeepRunning`, `SignalEnds`, `StartEnds`, and the liveness half of
  `ImplementsFulfilment`. Fairness and ENABLED are beyond the prover; that nothing
  blocks their way is proved (`JobsAlwaysAlive`, `DrainAlwaysShort`,
  `WriterAlwaysGoesOn`, `AlwaysRefusedOnlyIfGone`).

## Findings

1. `duplicates` - the check for a processed event and its record are separate
   statements; overlapping deliveries both apply the event. A test's comment
   says that a recorded event is skipped without being applied again.
2. `reordered` - the creation time of an event is dropped, so a late `active`
   overwrites `canceled`, and `/premium` stays open.
3. `signup_race` - "find-or-create" is two statements; of two links for a new
   address, opened at the same time, one ends with a 500 and is used up.
4. `fall_back` - the cleanup jobs compare expiry times as text, and so by the local
   wall clock: in a time zone with daylight saving, a link (or a session) whose expiry
   lies after the hour that comes twice is deleted before its time. In UTC, where the
   Docker image runs, nothing happens.

Two more are not among the runs:

* `MCBilling_double_click.cfg` - a person without a Stripe customer starts two
  checkouts before either has linked one. Each makes a customer, and the later UPDATE
  wins. The person pays on the page of the other customer; its `updated` event comes
  first and matches no row (nobody looks at the rows affected), but is recorded and
  acknowledged; the completed event then links the customer, and nothing ever sets
  the status: paid for, and `/premium` stays closed.
* `MCSite_destination.cfg` - "preserving the destination" (`auth/middleware.go:60`)
  holds of the path only: who asks for the second page of the users comes to the
  first. And "Use a different email", "Back to log in" and the Google button drop the
  path as well.

## What is left

The plan of this development is done: every part with state of its own has a
module, each safety property of the runs is a theorem, and the three models of the
users table are shown to implement one specification. What could be added:

* delayed payment methods at Stripe, and a catalogue that changes with a build.

## Not modelled

* The component kit, themes, styles and assets, and the texts of pages and mails:
  markup without state or choices. The pager, which the admin's list uses, is in
  `Paging`.
* Reading and defaulting of environment variables: pure string handling. What
  they switch on is in `Pages`, `Billing` and `Lifecycle`.
* Hashing, random tokens, signatures, address syntax: pure functions of a library,
  abstracted to values that differ when their sources do.
* The transports of mail, reports and Stripe: I/O, of which only success and
  failure are seen.
* Power failures: with `synchronous(normal)` SQLite may lose the last commits.
  A crash in the models is one of the process, which loses none.
* Display names, log lines, request ids: nothing depends on them.
* Docker, compose and backup configuration, beyond that an old and a new
  container may overlap.
