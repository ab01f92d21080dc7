------------------------------- MODULE Billing -------------------------------
(***************************************************************************)
(* Buying things: the checkout handler, Stripe, the webhook handler, the   *)
(* admin's grant and revoke handlers, and account deletion, all working on *)
(* the users, entitlements and processed_webhook_events tables.            *)
(*                                                                         *)
(* database.Open allows one connection, so every SQL statement is one      *)
(* atomic step; a handler is a sequence of statements and Stripe calls, and *)
(* anything may happen between two of them.                                *)
(***************************************************************************)
EXTENDS Integers, Sequences, FiniteSets

CONSTANTS
  People,      \* persons, told apart by their e-mail address
  MaxUsers,    \* bound: rows ever inserted into users
  Customers,   \* Stripe customer ids Stripe may hand out
  Checkouts,   \* checkout requests; each opens at most one Stripe session
  OneTime,     \* product keys of kind config.OneTime
  Subs,        \* product keys of kind config.Subscription
  Available,   \* product keys with a Stripe price id
  Statuses,    \* subscription statuses Stripe may move a subscription to
  Deliveries,  \* webhook requests in progress at the same time
  MaxEvents,   \* bound: events Stripe emits
  MaxFaults,   \* bound: requests aborted and process crashes
  MaxGifts,    \* bound: entitlements that admins give
  Orderly,     \* TRUE: see "The environment" below
  NoCust, NoRow, NoPerson, NoProduct

Products == OneTime \cup Subs
UserId   == 1 .. MaxUsers
EventId  == 1 .. MaxEvents

\* users.subscription_status; "" is the column's default.
SubStatus == {"", "active", "trialing", "past_due", "canceled"}

UserRow == [owner : People, cust : Customers \cup {NoCust}, status : SubStatus]

\* A checkout and, once "open", its Stripe session. owner is the person who
\* sends the request, uid and cust the values the handler holds, sub the status
\* of the subscription the paid session started ("" when there is none).
Checkout ==
  [pc : {"none", "ensure", "link", "session", "open", "paid", "dead"},
   uid : 0 .. MaxUsers, owner : People \cup {NoPerson},
   cust : Customers \cup {NoCust}, product : Products \cup {NoProduct},
   sub : SubStatus]

\* A webhook event as VerifyWebhook returns it. Its id is its position in
\* events. of is the checkout it stems from: the handler never reads it.
Event ==
  [type : {"completed", "updated", "deleted", "other"}, of : Checkouts, uid : UserId,
   cust : Customers, product : Products, status : SubStatus]

Delivery == [pc : {"idle", "check", "apply", "record", "reply"}, ev : 0 .. MaxEvents]

\* owner is history: the person whose account the admin was looking at.
GrantRequest == [on : BOOLEAN, uid : 0 .. MaxUsers, owner : People \cup {NoPerson},
                 product : Products \cup {NoProduct}]

ASSUME BillingAssumption ==
  /\ MaxUsers \in Nat /\ MaxEvents \in Nat /\ MaxFaults \in Nat /\ MaxGifts \in Nat
  /\ OneTime \cap Subs = {} /\ Available \subseteq Products
  /\ Statuses \subseteq SubStatus /\ Orderly \in BOOLEAN
  /\ NoCust \notin Customers /\ NoPerson \notin People
  /\ NoProduct \notin Products /\ NoRow \notin UserRow

VARIABLES
  users,        \* table users: id -> row or NoRow
  lastId,       \* sqlite_sequence: the largest id ever given to a row
  entitlements, \* table entitlements: (user_id, product_key)
  processed,    \* table processed_webhook_events
  co,           \* the checkouts
  customers,    \* Stripe: whom a customer was created for
  events,       \* Stripe: the events emitted so far
  acked,        \* Stripe: the events answered 200
  dl,           \* the webhook requests in progress
  grant,        \* an admin's grant request in progress
  faults,       \* faults so far
  applied,      \* history: events whose statement took effect on its row
  comped        \* history: (person, product) an admin meant to grant

db     == <<users, lastId, entitlements, processed>>
stripe == <<customers, events, acked>>
ghosts == <<applied, comped>>
vars   == <<db, co, stripe, dl, grant, faults, ghosts>>

NoCheckout == [pc |-> "none", uid |-> 0, owner |-> NoPerson, cust |-> NoCust,
               product |-> NoProduct, sub |-> ""]
Idle       == [pc |-> "idle", ev |-> 0]
NoGrant    == [on |-> FALSE, uid |-> 0, owner |-> NoPerson, product |-> NoProduct]

TypeOK ==
  /\ users \in [UserId -> UserRow \cup {NoRow}]
  /\ lastId \in 0 .. MaxUsers
  /\ entitlements \subseteq UserId \X Products
  /\ processed \subseteq EventId
  /\ co \in [Checkouts -> Checkout]
  /\ customers \in [Customers -> People \cup {NoPerson}]
  /\ events \in Seq(Event) /\ Len(events) <= MaxEvents
  /\ acked \subseteq EventId
  /\ dl \in [Deliveries -> Delivery]
  /\ grant \in GrantRequest
  /\ faults \in 0 .. MaxFaults
  /\ applied \subseteq EventId
  /\ comped \subseteq People \X Products

Init ==
  /\ users = [u \in UserId |-> NoRow]
  /\ lastId = 0
  /\ entitlements = {} /\ processed = {}
  /\ co = [k \in Checkouts |-> NoCheckout]
  /\ customers = [c \in Customers |-> NoPerson]
  /\ events = <<>> /\ acked = {}
  /\ dl = [d \in Deliveries |-> Idle]
  /\ grant = NoGrant
  /\ faults = 0
  /\ applied = {} /\ comped = {}

-------------------------------------------------------------------------------
(***************************************************************************)
(* Accounts, as far as billing depends on them.                            *)
(***************************************************************************)
Live(u) == users[u] # NoRow

\* A mutant: ids without AUTOINCREMENT, so that a deleted row's id comes back.
Mutant_NextId == 1 + Cardinality({u \in UserId : Live(u)})

\* INTEGER PRIMARY KEY AUTOINCREMENT: an id is never given out twice.
NextId == lastId + 1

\* HandleVerify's CreateUser for an address with no row (email is UNIQUE).
SignUp(p) ==
  /\ NextId \in UserId /\ ~Live(NextId)
  /\ \A u \in UserId : Live(u) => users[u].owner # p
  /\ users' = [users EXCEPT ![NextId] = [owner |-> p, cust |-> NoCust, status |-> ""]]
  /\ lastId' = NextId
  /\ UNCHANGED <<entitlements, processed, co, stripe, dl, grant, faults, ghosts>>

\* HandleDeleteAccount: the user's entitlements go with the row, by cascade.
DeleteAccount(u) ==
  /\ Live(u)
  /\ users' = [users EXCEPT ![u] = NoRow]
  /\ entitlements' = {e \in entitlements : e[1] # u}
  /\ UNCHANGED <<lastId, processed, co, stripe, dl, grant, faults, ghosts>>

-------------------------------------------------------------------------------
(***************************************************************************)
(* Store operations shared by the handlers.                                *)
(***************************************************************************)

\* A mutant: an upsert, which brings a deleted row back without its address.
Mutant_WithCustomer(u, c) ==
  [users EXCEPT ![u] = IF @ = NoRow THEN [cust |-> c, status |-> ""]
                       ELSE [@ EXCEPT !.cust = c]]

\* UPDATE users SET stripe_customer_id = c WHERE id = u: no row is no error.
WithCustomer(u, c) ==
  [users EXCEPT ![u] = IF @ = NoRow THEN NoRow ELSE [@ EXCEPT !.cust = c]]

\* The partial unique index on stripe_customer_id refuses that UPDATE.
CustomerTaken(u, c) ==
  Live(u) /\ \E v \in UserId \ {u} : Live(v) /\ users[v].cust = c

\* UPDATE users SET subscription_status = s WHERE stripe_customer_id = c.
WithStatus(c, s) ==
  [u \in UserId |-> IF Live(u) /\ users[u].cust = c
                    THEN [users[u] EXCEPT !.status = s] ELSE users[u]]

-------------------------------------------------------------------------------
(***************************************************************************)
(* HandleCheckout, one action per statement or Stripe call.                *)
(***************************************************************************)

\* What the billing page shows a form for. A subscription is offered only to a
\* user with no Stripe customer; others are sent to the billing portal.
Offered(u, p) ==
  /\ p \in Available
  /\ IF p \in Subs THEN users[u].cust = NoCust ELSE <<u, p>> \notin entitlements

InHandler(k) == co[k].pc \in {"ensure", "link", "session"}

\* LoadUser's snapshot of the row, then the handler's validation. The form may
\* come from a page rendered long ago, so Offered is no guard of the handler.
StartCheckout(k, u, p) ==
  /\ co[k].pc = "none" /\ Live(u) /\ p \in Available
  /\ Orderly => /\ Offered(u, p)
                /\ \A j \in Checkouts : InHandler(j) => co[j].owner # users[u].owner
  /\ co' = [co EXCEPT ![k] =
              [pc |-> "ensure", uid |-> u, owner |-> users[u].owner,
               cust |-> users[u].cust, product |-> p, sub |-> ""]]
  /\ UNCHANGED <<db, stripe, dl, grant, faults, ghosts>>

\* A mutant: any customer will do, also one made for somebody else.
Mutant_EnsureCustomer(k) ==
  /\ co[k].pc = "ensure"
  /\ \E c \in Customers :
       /\ customers' = [customers EXCEPT ![c] = IF @ = NoPerson THEN co[k].owner ELSE @]
       /\ co' = [co EXCEPT ![k].cust = c, ![k].pc = "link"]
  /\ UNCHANGED <<db, events, acked, dl, grant, faults, ghosts>>

\* The snapshot's customer is reused and SetStripeCustomerID is skipped;
\* otherwise Stripe makes a new one.
EnsureCustomer(k) ==
  /\ co[k].pc = "ensure"
  /\ \/ /\ co[k].cust # NoCust
        /\ co' = [co EXCEPT ![k].pc = "session"]
        /\ UNCHANGED customers
     \/ /\ co[k].cust = NoCust
        /\ \E c \in Customers :
             /\ customers[c] = NoPerson
             /\ customers' = [customers EXCEPT ![c] = co[k].owner]
             /\ co' = [co EXCEPT ![k].cust = c, ![k].pc = "link"]
  /\ UNCHANGED <<db, events, acked, dl, grant, faults, ghosts>>

\* A mutant: the customer is never stored on the row.
Mutant_LinkCustomer(k) ==
  /\ co[k].pc = "link"
  /\ co' = [co EXCEPT ![k].pc = "session"]
  /\ UNCHANGED <<db, stripe, dl, grant, faults, ghosts>>

\* SetStripeCustomerID.
LinkCustomer(k) ==
  /\ co[k].pc = "link"
  /\ LET taken == CustomerTaken(co[k].uid, co[k].cust) IN
     /\ users' = IF taken THEN users ELSE WithCustomer(co[k].uid, co[k].cust)
     /\ co' = [co EXCEPT ![k].pc = IF taken THEN "dead" ELSE "session"]
  /\ UNCHANGED <<lastId, entitlements, processed, stripe, dl, grant, faults, ghosts>>

\* CreateCheckoutSession: from here on the buyer can pay, at any later time.
OpenSession(k) ==
  /\ co[k].pc = "session"
  /\ co' = [co EXCEPT ![k].pc = "open"]
  /\ UNCHANGED <<db, stripe, dl, grant, faults, ghosts>>

-------------------------------------------------------------------------------
(***************************************************************************)
(* Stripe: payments, subscription changes and the events they emit.        *)
(***************************************************************************)
EventOf(k, type, status) ==
  [type |-> type, of |-> k, uid |-> co[k].uid, cust |-> co[k].cust,
   product |-> co[k].product, status |-> status]

\* The buyer completes the session. A new subscription also emits
\* customer.subscription.updated when it becomes active.
PaySession(k) ==
  /\ co[k].pc = "open"
  /\ LET sub  == co[k].product \in Subs
         made == IF sub THEN <<EventOf(k, "updated", "active"), EventOf(k, "completed", "")>>
                        ELSE <<EventOf(k, "completed", "")>>
     IN /\ Len(events) + Len(made) <= MaxEvents
        /\ events' = events \o made
        /\ co' = [co EXCEPT ![k].pc = "paid", ![k].sub = IF sub THEN "active" ELSE ""]
  /\ UNCHANGED <<db, customers, acked, dl, grant, faults, ghosts>>

\* A renewal, a failed charge, or a cancellation in the billing portal. A
\* canceled subscription never comes back.
ChangeSubscription(k, s) ==
  /\ co[k].sub \notin {"", "canceled", s} /\ s # ""
  /\ Len(events) < MaxEvents
  /\ co' = [co EXCEPT ![k].sub = s]
  /\ events' = Append(events, EventOf(k, IF s = "canceled" THEN "deleted" ELSE "updated", s))
  /\ UNCHANGED <<db, customers, acked, dl, grant, faults, ghosts>>

\* Everything else Stripe reports about a purchase: invoices, charges, ...
OtherEvent(k) ==
  /\ co[k].pc = "paid" /\ Len(events) < MaxEvents
  /\ events' = Append(events, EventOf(k, "other", ""))
  /\ UNCHANGED <<db, co, customers, acked, dl, grant, faults, ghosts>>

-------------------------------------------------------------------------------
(***************************************************************************)
(* HandleStripeWebhook, one action per statement.                          *)
(***************************************************************************)
Goto(d, pc) == dl' = [dl EXCEPT ![d].pc = pc]

\* The request ends: with the 200 of Reply, or with the 500 of an error.
Finish(d) == dl' = [dl EXCEPT ![d] = Idle]

\* Stripe sends an event until it is answered 200, and may send it again after
\* that, several deliveries at a time and in any order.
Deliver(d, e) ==
  /\ dl[d].pc = "idle" /\ e \in DOMAIN events
  /\ Orderly => /\ \A f \in 1 .. e - 1 : f \in acked
                /\ \A c \in Deliveries : dl[c].pc = "idle"
  /\ dl' = [dl EXCEPT ![d] = [pc |-> "check", ev |-> e]]
  /\ UNCHANGED <<db, co, stripe, grant, faults, ghosts>>

\* A mutant: the event is recorded before it is applied.
Mutant_CheckRecords(d) ==
  /\ dl[d].pc = "check"
  /\ processed' = processed \cup {dl[d].ev}
  /\ Goto(d, IF dl[d].ev \in processed THEN "reply" ELSE "apply")
  /\ UNCHANGED <<users, lastId, entitlements, co, stripe, grant, faults, ghosts>>

\* IsEventProcessed: an event recorded already is answered 200 at once.
CheckEvent(d) ==
  /\ dl[d].pc = "check"
  /\ Goto(d, IF dl[d].ev \in processed THEN "reply" ELSE "apply")
  /\ UNCHANGED <<db, co, stripe, grant, faults, ghosts>>

Applying(d, types, products) ==
  /\ dl[d].pc = "apply"
  /\ events[dl[d].ev].type \in types
  /\ events[dl[d].ev].product \in products

\* A mutant: the error of GrantEntitlement is dropped.
Mutant_ApplyGrant(d) ==
  /\ Applying(d, {"completed"}, OneTime)
  /\ Goto(d, "record")
  /\ LET ev == events[dl[d].ev] IN
       IF Live(ev.uid)
       THEN /\ entitlements' = entitlements \cup {<<ev.uid, ev.product>>}
            /\ applied' = applied \cup {dl[d].ev}
       ELSE UNCHANGED <<entitlements, applied>>
  /\ UNCHANGED <<users, lastId, processed, co, stripe, grant, faults, comped>>

\* A one-time purchase: GrantEntitlement. Its foreign key fails when the buyer's
\* row is gone; the handler then answers 500 and records nothing.
ApplyGrant(d) ==
  /\ Applying(d, {"completed"}, OneTime)
  /\ LET ev == events[dl[d].ev] IN
     \/ /\ Live(ev.uid)
        /\ entitlements' = entitlements \cup {<<ev.uid, ev.product>>}
        /\ applied' = applied \cup {dl[d].ev}
        /\ Goto(d, "record")
     \/ /\ ~Live(ev.uid)
        /\ Finish(d)
        /\ UNCHANGED <<entitlements, applied>>
  /\ UNCHANGED <<users, lastId, processed, co, stripe, grant, faults, comped>>

\* A subscription checkout: the customer is linked to the metadata's user.
ApplyLink(d) ==
  /\ Applying(d, {"completed"}, Subs)
  /\ LET ev    == events[dl[d].ev]
         taken == CustomerTaken(ev.uid, ev.cust)
     IN /\ users' = IF taken THEN users ELSE WithCustomer(ev.uid, ev.cust)
        /\ applied' = IF taken \/ ~Live(ev.uid) THEN applied ELSE applied \cup {dl[d].ev}
        /\ dl' = [dl EXCEPT ![d] = IF taken THEN Idle ELSE [@ EXCEPT !.pc = "record"]]
  /\ UNCHANGED <<lastId, entitlements, processed, co, stripe, grant, faults, comped>>

\* customer.subscription.updated/deleted: UpdateSubscription. The event's own
\* age is not known to the handler; a customer no row has is no error.
ApplyStatus(d) ==
  /\ Applying(d, {"updated", "deleted"}, Products)
  /\ LET ev == events[dl[d].ev] IN
     /\ users' = WithStatus(ev.cust, ev.status)
     /\ applied' = IF \E u \in UserId : Live(u) /\ users[u].cust = ev.cust
                   THEN applied \cup {dl[d].ev} ELSE applied
  /\ Goto(d, "record")
  /\ UNCHANGED <<lastId, entitlements, processed, co, stripe, grant, faults, comped>>

\* An event type the switch has no case for is recorded without effect.
ApplyNothing(d) ==
  /\ Applying(d, {"other"}, Products)
  /\ Goto(d, "record")
  /\ UNCHANGED <<db, co, stripe, grant, faults, ghosts>>

RecordEvent(d) ==
  /\ dl[d].pc = "record"
  /\ processed' = processed \cup {dl[d].ev}
  /\ Goto(d, "reply")
  /\ UNCHANGED <<users, lastId, entitlements, co, stripe, grant, faults, ghosts>>

Reply(d) ==
  /\ dl[d].pc = "reply"
  /\ acked' = acked \cup {dl[d].ev}
  /\ Finish(d)
  /\ UNCHANGED <<db, co, customers, events, grant, faults, ghosts>>

-------------------------------------------------------------------------------
(***************************************************************************)
(* The admin's entitlement handlers.                                       *)
(***************************************************************************)

\* HandleAdminGrantEntitlement up to its UserByID and ProductByKey checks.
AdminGrantStart(u, p) ==
  /\ ~grant.on /\ Live(u) /\ Cardinality(comped) < MaxGifts
  /\ grant' = [on |-> TRUE, uid |-> u, owner |-> users[u].owner, product |-> p]
  /\ UNCHANGED <<db, co, stripe, dl, faults, ghosts>>

\* Its GrantEntitlement, for whatever row has the id by now; it fails if there is
\* none. comped takes the person the admin meant.
AdminGrantFinish ==
  /\ grant.on
  /\ IF Live(grant.uid)
     THEN /\ entitlements' = entitlements \cup {<<grant.uid, grant.product>>}
          /\ comped' = comped \cup {<<grant.owner, grant.product>>}
     ELSE UNCHANGED <<entitlements, comped>>
  /\ grant' = NoGrant
  /\ UNCHANGED <<users, lastId, processed, co, stripe, dl, faults, applied>>

AdminRevoke(u, p) ==
  /\ <<u, p>> \in entitlements
  /\ entitlements' = entitlements \ {<<u, p>>}
  /\ UNCHANGED <<users, lastId, processed, co, stripe, dl, grant, faults, ghosts>>

-------------------------------------------------------------------------------
(***************************************************************************)
(* The environment. A request can be aborted between any two of its steps  *)
(* (its context is canceled, Stripe or the disk returns an error, the      *)
(* answer is lost), and the process can crash: its requests are gone, its  *)
(* tables stay. Orderly restricts the environment, not the code: a person  *)
(* waits for one checkout before starting another and uses a fresh billing *)
(* page, and Stripe delivers one event at a time, in order.                *)
(***************************************************************************)
FaultLeft == faults < MaxFaults /\ faults' = faults + 1

AbortCheckout(k) ==
  /\ FaultLeft /\ InHandler(k)
  /\ co' = [co EXCEPT ![k].pc = "dead"]
  /\ UNCHANGED <<db, stripe, dl, grant, ghosts>>

AbortDelivery(d) ==
  /\ FaultLeft /\ dl[d].pc # "idle"
  /\ Finish(d)
  /\ UNCHANGED <<db, co, stripe, grant, ghosts>>

Crash ==
  /\ FaultLeft
  /\ co' = [k \in Checkouts |-> IF InHandler(k) THEN [co[k] EXCEPT !.pc = "dead"] ELSE co[k]]
  /\ dl' = [d \in Deliveries |-> Idle]
  /\ grant' = NoGrant
  /\ UNCHANGED <<db, stripe, ghosts>>

CheckoutStep(k) == EnsureCustomer(k) \/ LinkCustomer(k) \/ OpenSession(k)

ApplyEvent(d) == ApplyGrant(d) \/ ApplyLink(d) \/ ApplyStatus(d) \/ ApplyNothing(d)

DeliveryStep(d) == CheckEvent(d) \/ ApplyEvent(d) \/ RecordEvent(d) \/ Reply(d)

Next ==
  \/ \E p \in People : SignUp(p)
  \/ \E u \in UserId : DeleteAccount(u)
  \/ \E k \in Checkouts, u \in UserId, p \in Products : StartCheckout(k, u, p)
  \/ \E k \in Checkouts : CheckoutStep(k) \/ PaySession(k) \/ OtherEvent(k) \/ AbortCheckout(k)
  \/ \E k \in Checkouts, s \in Statuses : ChangeSubscription(k, s)
  \/ \E d \in Deliveries, e \in EventId : Deliver(d, e)
  \/ \E d \in Deliveries : DeliveryStep(d) \/ AbortDelivery(d)
  \/ \E u \in UserId, p \in Products : AdminGrantStart(u, p) \/ AdminRevoke(u, p)
  \/ AdminGrantFinish
  \/ Crash

Spec == Init /\ [][Next]_vars

\* The Go runtime runs every handler on; Stripe keeps retrying each event it
\* has no 200 for, whatever other events it delivers in between.
Retry(e) == e \notin acked /\ \E d \in Deliveries : Deliver(d, e)

Fairness ==
  /\ \A d \in Deliveries : WF_vars(DeliveryStep(d))
  /\ \A e \in EventId : SF_vars(Retry(e))

FairSpec == Spec /\ Fairness

-------------------------------------------------------------------------------
(***************************************************************************)
(* Safety.                                                                 *)
(***************************************************************************)
Paid(person, p) ==
  \E k \in Checkouts : co[k].pc = "paid" /\ co[k].owner = person /\ co[k].product = p

\* Whoever holds an entitlement has an account, and that same person, not just
\* that user id, paid for the product or was given it by an admin: neither a
\* late webhook nor a late admin request lands on somebody else's account.
EntitlementsEarned ==
  \A u \in UserId, p \in Products :
    <<u, p>> \in entitlements =>
      Live(u) /\ (Paid(users[u].owner, p) \/ <<users[u].owner, p>> \in comped)

\* The Stripe customer on a row was created for the person who owns the row, so
\* the portal and the subscription events of one person never reach another;
\* the unique index never refuses a link, because no two rows share one.
CustomerIsOwners ==
  \A u \in UserId :
    Live(u) /\ users[u].cust # NoCust => customers[users[u].cust] = users[u].owner

\* An event that Stripe will not send again (it has its 200) was recorded, and
\* a one-time purchase was recorded only after its grant reached the table: no
\* abort, crash or refused statement loses a purchase.
AckedNotLost ==
  /\ acked \subseteq processed
  /\ \A e \in processed :
       events[e].type = "completed" /\ events[e].product \in OneTime => e \in applied

\* Retries are enough: unless a request is aborted or the process stops, a checkout
\* gets to Stripe, and a webhook is answered 500 only for a one-time purchase whose
\* account is gone. The unique index on stripe_customer_id refuses nobody, however
\* many checkouts overlap and whatever is deleted and made again.
RefusedOnlyIfGone ==
  [][faults' = faults =>
       /\ \A k \in Checkouts : InHandler(k) => co'[k].pc # "dead"
       /\ \A d \in Deliveries : dl[d].pc \in {"check", "apply", "record"} /\ dl'[d].pc = "idle" =>
            LET ev == events[dl[d].ev] IN
            ev.type = "completed" /\ ev.product \in OneTime /\ ~Live(ev.uid)]_vars

\* A recorded event is skipped, not applied again.
RecordedEventIsSkipped ==
  \A d \in Deliveries : dl[d].pc = "apply" => dl[d].ev \notin processed

\* A mutant: a failed charge keeps the gate open.
Mutant_HasActiveSubscription(u) == users[u].status \in {"active", "trialing", "past_due"}

\* auth.HasActiveSubscription, the gate of /premium.
HasActiveSubscription(u) == users[u].status \in {"active", "trialing"}

Subscribed(u) ==
  \E k \in Checkouts : co[k].uid = u /\ co[k].sub \in {"active", "trialing"}

\* Every event has been answered 200 and no webhook request is in progress.
Settled ==
  /\ DOMAIN events \subseteq acked
  /\ \A d \in Deliveries : dl[d].pc = "idle"

\* With all events settled, /premium is open only to a user who has an active
\* subscription at Stripe, ...
PremiumNeedsSubscription ==
  Settled => \A u \in UserId : Live(u) /\ HasActiveSubscription(u) => Subscribed(u)

\* ... and open to every user who has one.
SubscriberHasPremium ==
  Settled => \A u \in UserId : Live(u) /\ Subscribed(u) => HasActiveSubscription(u)

-------------------------------------------------------------------------------
(***************************************************************************)
(* What billing implements: a checkout is an order of Fulfilment. It is    *)
(* delivered when the statement of its completed event took effect, and    *)
(* void once the account it was started from is gone.                      *)
(***************************************************************************)
Delivered(k) == \E e \in applied : events[e].of = k /\ events[e].type = "completed"

OrderOf(k) ==
  IF co[k].pc # "none" /\ ~Live(co[k].uid) THEN "void"
  ELSE IF Delivered(k) THEN "delivered"
  ELSE IF co[k].pc = "paid" THEN "paid" ELSE "new"

OrdersNow == [k \in Checkouts |-> OrderOf(k)]

Fulfil == INSTANCE Fulfilment WITH Orders <- Checkouts, order <- OrdersNow

\* Every paid checkout is delivered to its account unless the account goes.
ImplementsFulfilment == Fulfil!FairSpec

\* The users table, by whose row it is.
HoldersNow == [u \in UserId |-> IF Live(u) THEN users[u].owner ELSE NoPerson]

Dir == INSTANCE Directory
         WITH Holders <- People, Ids <- UserId, NoHolder <- NoPerson,
              holder <- HoldersNow, last <- lastId

\* Whatever checkouts and webhooks write into a row, the users table is a
\* directory: they never bring a deleted row back or change whose it is.
ImplementsDirectory == Dir!Spec
===============================================================================
