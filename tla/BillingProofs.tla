---------------------------- MODULE BillingProofs ----------------------------
(***************************************************************************)
(* Theorems about Billing, for every value of its constants.               *)
(*                                                                         *)
(* The inductive invariant Inv has one part per group of variables. For    *)
(* each group a lemma says what any step of Next may do to it; the parts   *)
(* follow from these lemmas, not from the actions one by one. The last     *)
(* section adds OrderlyInv, which holds when Stripe delivers in order.     *)
(***************************************************************************)
EXTENDS Billing, TLAPS

USE BillingAssumption DEF UserId, EventId, Products

-------------------------------------------------------------------------------
(* Which actions touch which variables.                                    *)

CheckoutsTouched ==
  \/ Crash
  \/ \E k \in Checkouts :
       \/ CheckoutStep(k) \/ PaySession(k) \/ AbortCheckout(k)
       \/ \E u \in UserId, p \in Products : StartCheckout(k, u, p)
       \/ \E s \in Statuses : ChangeSubscription(k, s)

UsersTouched ==
  \/ \E p \in People : SignUp(p)
  \/ \E u \in UserId : DeleteAccount(u)
  \/ \E k \in Checkouts : LinkCustomer(k)
  \/ \E d \in Deliveries : ApplyLink(d) \/ ApplyStatus(d)

EventsTouched ==
  \E k \in Checkouts :
    PaySession(k) \/ OtherEvent(k) \/ \E s \in Statuses : ChangeSubscription(k, s)

DeliveriesTouched ==
  \/ Crash
  \/ \E d \in Deliveries :
       DeliveryStep(d) \/ AbortDelivery(d) \/ \E e \in EventId : Deliver(d, e)

EntitlementsTouched ==
  \/ Crash \/ AdminGrantFinish
  \/ \E u \in UserId : DeleteAccount(u)
  \/ \E d \in Deliveries : ApplyGrant(d)
  \/ \E u \in UserId, p \in Products : AdminGrantStart(u, p) \/ AdminRevoke(u, p)

Frame ==
  /\ CheckoutsTouched \/ UNCHANGED co
  /\ UsersTouched \/ UNCHANGED <<users, lastId>>
  /\ (\E k \in Checkouts : EnsureCustomer(k)) \/ UNCHANGED customers
  /\ EventsTouched \/ UNCHANGED events
  /\ DeliveriesTouched \/ UNCHANGED <<dl, processed, applied, acked>>
  /\ EntitlementsTouched \/ UNCHANGED <<entitlements, comped, grant>>
  /\ UNCHANGED faults \/ (faults < MaxFaults /\ faults' = faults + 1)

LEMMA StepFrame == ASSUME [Next]_vars PROVE Frame
<1> USE DEF Frame, db, stripe, ghosts
<1>1. ASSUME NEW p \in People, SignUp(p) PROVE Frame
  BY <1>1 DEF SignUp, UsersTouched
<1>2. ASSUME NEW u \in UserId, DeleteAccount(u) PROVE Frame
  BY <1>2 DEF DeleteAccount, UsersTouched, EntitlementsTouched
<1>3. ASSUME NEW k \in Checkouts, NEW u \in UserId, NEW p \in Products, StartCheckout(k, u, p)
      PROVE Frame
  BY <1>3 DEF StartCheckout, CheckoutsTouched
<1>4. ASSUME NEW k \in Checkouts, EnsureCustomer(k) PROVE Frame
  BY <1>4 DEF EnsureCustomer, CheckoutStep, CheckoutsTouched
<1>5. ASSUME NEW k \in Checkouts, LinkCustomer(k) PROVE Frame
  BY <1>5 DEF LinkCustomer, CheckoutStep, CheckoutsTouched, UsersTouched
<1>6. ASSUME NEW k \in Checkouts, OpenSession(k) PROVE Frame
  BY <1>6 DEF OpenSession, CheckoutStep, CheckoutsTouched
<1>7. ASSUME NEW k \in Checkouts, PaySession(k) PROVE Frame
  BY <1>7 DEF PaySession, CheckoutsTouched, EventsTouched
<1>8. ASSUME NEW k \in Checkouts, OtherEvent(k) PROVE Frame
  BY <1>8 DEF OtherEvent, EventsTouched
<1>9. ASSUME NEW k \in Checkouts, AbortCheckout(k) PROVE Frame
  BY <1>9 DEF AbortCheckout, FaultLeft, CheckoutsTouched
<1>10. ASSUME NEW k \in Checkouts, NEW s \in Statuses, ChangeSubscription(k, s) PROVE Frame
  BY <1>10 DEF ChangeSubscription, CheckoutsTouched, EventsTouched
<1>11. ASSUME NEW d \in Deliveries, NEW e \in EventId, Deliver(d, e) PROVE Frame
  BY <1>11 DEF Deliver, DeliveriesTouched
<1>12. ASSUME NEW d \in Deliveries, CheckEvent(d) PROVE Frame
  BY <1>12 DEF CheckEvent, DeliveryStep, DeliveriesTouched
<1>13. ASSUME NEW d \in Deliveries, ApplyGrant(d) PROVE Frame
  BY <1>13 DEF ApplyGrant, ApplyEvent, DeliveryStep, DeliveriesTouched, EntitlementsTouched
<1>14. ASSUME NEW d \in Deliveries, ApplyLink(d) PROVE Frame
  BY <1>14 DEF ApplyLink, ApplyEvent, DeliveryStep, DeliveriesTouched, UsersTouched
<1>15. ASSUME NEW d \in Deliveries, ApplyStatus(d) PROVE Frame
  BY <1>15 DEF ApplyStatus, ApplyEvent, DeliveryStep, DeliveriesTouched, UsersTouched
<1>16. ASSUME NEW d \in Deliveries, ApplyNothing(d) PROVE Frame
  BY <1>16 DEF ApplyNothing, ApplyEvent, DeliveryStep, DeliveriesTouched
<1>17. ASSUME NEW d \in Deliveries, RecordEvent(d) PROVE Frame
  BY <1>17 DEF RecordEvent, DeliveryStep, DeliveriesTouched
<1>18. ASSUME NEW d \in Deliveries, Reply(d) PROVE Frame
  BY <1>18 DEF Reply, DeliveryStep, DeliveriesTouched
<1>19. ASSUME NEW d \in Deliveries, AbortDelivery(d) PROVE Frame
  BY <1>19 DEF AbortDelivery, FaultLeft, DeliveriesTouched
<1>20. ASSUME NEW u \in UserId, NEW p \in Products, AdminGrantStart(u, p) PROVE Frame
  BY <1>20 DEF AdminGrantStart, EntitlementsTouched
<1>21. ASSUME NEW u \in UserId, NEW p \in Products, AdminRevoke(u, p) PROVE Frame
  BY <1>21 DEF AdminRevoke, EntitlementsTouched
<1>22. ASSUME AdminGrantFinish PROVE Frame
  BY <1>22 DEF AdminGrantFinish, EntitlementsTouched
<1>23. ASSUME Crash PROVE Frame
  BY <1>23 DEF Crash, FaultLeft, CheckoutsTouched, DeliveriesTouched, EntitlementsTouched
<1>24. CASE UNCHANGED vars
  BY <1>24 DEF vars
<1>25. QED
  BY <1>1, <1>2, <1>3, <1>4, <1>5, <1>6, <1>7, <1>8, <1>9, <1>10, <1>11, <1>12, <1>13,
     <1>14, <1>15, <1>16, <1>17, <1>18, <1>19, <1>20, <1>21, <1>22, <1>23, <1>24
  DEF Next, CheckoutStep, DeliveryStep, ApplyEvent

-------------------------------------------------------------------------------
(* Checkouts: a checkout keeps its account, person and product; once it has a  *)
(* customer it keeps it; once paid it stays paid.                              *)

Filled(c) ==
  /\ c.pc # "none" => c.uid \in UserId /\ c.owner \in People /\ c.product \in Products
  /\ c.pc \in {"link", "session", "open", "paid"} => c.cust \in Customers
  /\ c.sub # "" => c.pc = "paid"

CoInv    == co \in [Checkouts -> Checkout] /\ \A k \in Checkouts : Filled(co[k])
UsersInv == users \in [UserId -> UserRow \cup {NoRow}] /\ lastId \in 0 .. MaxUsers
CustInv  == customers \in [Customers -> People \cup {NoPerson}]

\* What a step may do to a checkout that is c before it and n after it.
Moves(c, n) ==
  /\ c.pc # "none" =>
       /\ n.pc # "none" /\ n.uid = c.uid /\ n.owner = c.owner /\ n.product = c.product
       /\ c.cust # NoCust => n.cust = c.cust
       /\ n.cust # c.cust => n.cust \in Customers /\ customers'[n.cust] = n.owner
  /\ c.pc = "paid" => n.pc = "paid"
  /\ c.pc = "none" /\ n.pc # "none" =>
       /\ n.pc = "ensure" /\ Live(n.uid)
       /\ users[n.uid].owner = n.owner /\ users[n.uid].cust = n.cust

CoStep   == CoInv' /\ \A k \in Checkouts : Moves(co[k], co'[k])
CustStep == CustInv' /\ \A c \in Customers : customers[c] # NoPerson => customers'[c] = customers[c]

LEMMA OneCheckout ==
  ASSUME CoInv, NEW k \in Checkouts, NEW r \in Checkout, co' = [co EXCEPT ![k] = r],
         Filled(r), Moves(co[k], r)
  PROVE  CoStep
<1>1. \A j \in Checkouts : co'[j] = IF j = k THEN r ELSE co[j]
  BY DEF CoInv
<1>2. \A j \in Checkouts : Moves(co[j], co[j])
  BY DEF Moves
<1>3. QED
  BY <1>1, <1>2 DEF CoInv, CoStep

\* Only the program counter moves.
LEMMA NextPc ==
  ASSUME NEW c \in Checkout, Filled(c), NEW q \in {"session", "open", "dead"},
         c.pc \in {"ensure", "link", "session"}, q # "dead" => c.cust \in Customers
  PROVE  LET n == [c EXCEPT !.pc = q] IN n \in Checkout /\ Filled(n) /\ Moves(c, n)
  BY DEF Checkout, Filled, Moves

LEMMA CheckoutsStep ==
  ASSUME CoInv, UsersInv, CustInv, CheckoutsTouched \/ UNCHANGED co
  PROVE  CoStep
<1>0. \A k \in Checkouts : co[k] \in Checkout /\ Filled(co[k])
  BY DEF CoInv
<1>1. ASSUME NEW k \in Checkouts, NEW u \in UserId, NEW p \in Products, StartCheckout(k, u, p)
      PROVE CoStep
  <2> DEFINE r == [pc |-> "ensure", uid |-> u, owner |-> users[u].owner,
                   cust |-> users[u].cust, product |-> p, sub |-> ""]
  <2>1. users[u].owner \in People /\ users[u].cust \in Customers \cup {NoCust}
    BY <1>1 DEF StartCheckout, Live, UsersInv, UserRow
  <2>2. r \in Checkout /\ Filled(r)
    <3>1. "" \in SubStatus
      BY DEF SubStatus
    <3>2. r \in Checkout
      <4>1. u \in 0 .. MaxUsers /\ p \in Products \cup {NoProduct}
        OBVIOUS
      <4>2. \A o \in People, c \in Customers \cup {NoCust} :
              [pc |-> "ensure", uid |-> u, owner |-> o, cust |-> c, product |-> p, sub |-> ""]
                \in Checkout
        BY <3>1, <4>1 DEF Checkout
      <4>3. QED
        BY <2>1, <4>2
    <3>3. Filled(r)
      BY <2>1 DEF Filled
    <3>4. QED
      BY <3>2, <3>3
  <2>3. Moves(co[k], r)
    BY <1>1 DEF StartCheckout, Moves
  <2>4. co' = [co EXCEPT ![k] = r]
    BY <1>1 DEF StartCheckout
  <2>5. QED
    BY <2>2, <2>3, <2>4, OneCheckout
<1>2. ASSUME NEW k \in Checkouts, EnsureCustomer(k) PROVE CoStep
  <2>0. co[k].pc = "ensure"
    BY <1>2 DEF EnsureCustomer
  <2>1. ASSUME co[k].cust # NoCust, co' = [co EXCEPT ![k].pc = "session"] PROVE CoStep
    <3> DEFINE r == [co[k] EXCEPT !.pc = "session"]
    <3>1. co[k].cust \in Customers
      BY <1>0, <2>1 DEF Checkout
    <3>2. r \in Checkout /\ Filled(r) /\ Moves(co[k], r)
      BY <1>0, <2>0, <3>1, NextPc
    <3>3. co' = [co EXCEPT ![k] = r]
      BY <2>1
    <3>4. QED
      BY <3>2, <3>3, OneCheckout
  <2>2. ASSUME NEW c \in Customers, co[k].cust = NoCust,
               customers' = [customers EXCEPT ![c] = co[k].owner],
               co' = [co EXCEPT ![k].cust = c, ![k].pc = "link"]
        PROVE CoStep
    <3> DEFINE r == [co[k] EXCEPT !.cust = c, !.pc = "link"]
    <3>1. customers'[c] = co[k].owner
      BY <2>2 DEF CustInv
    <3>2. r \in Checkout /\ Filled(r) /\ Moves(co[k], r)
      <4>1. /\ r \in Checkout /\ r.pc = "link" /\ r.uid = co[k].uid /\ r.owner = co[k].owner
            /\ r.cust = c /\ r.product = co[k].product /\ r.sub = co[k].sub
        BY <1>0, <2>2 DEF Checkout
      <4>2. Filled(r)
        BY <1>0, <2>0, <2>2, <4>1 DEF Filled
      <4>3. Moves(co[k], r)
        BY <2>0, <2>2, <3>1, <4>1 DEF Moves
      <4>4. QED
        BY <4>1, <4>2, <4>3
    <3>3. co' = [co EXCEPT ![k] = r]
      BY <2>2 DEF CoInv
    <3>4. QED
      BY <3>2, <3>3, OneCheckout
  <2>3. QED
    BY <1>2, <2>1, <2>2 DEF EnsureCustomer
<1>3. ASSUME NEW k \in Checkouts, LinkCustomer(k) PROVE CoStep
  <2>0. co[k].pc = "link" /\ co[k].cust \in Customers
    BY <1>0, <1>3 DEF LinkCustomer, Filled
  <2>1. PICK q \in {"session", "dead"} : co' = [co EXCEPT ![k] = [co[k] EXCEPT !.pc = q]]
    BY <1>3 DEF LinkCustomer
  <2>2. QED
    BY <1>0, <2>0, <2>1, NextPc, OneCheckout
<1>4. ASSUME NEW k \in Checkouts, OpenSession(k) PROVE CoStep
  <2>0. co[k].pc = "session" /\ co[k].cust \in Customers
    BY <1>0, <1>4 DEF OpenSession, Filled
  <2>1. co' = [co EXCEPT ![k] = [co[k] EXCEPT !.pc = "open"]]
    BY <1>4 DEF OpenSession
  <2>2. QED
    BY <1>0, <2>0, <2>1, NextPc, OneCheckout
<1>5. ASSUME NEW k \in Checkouts, PaySession(k) PROVE CoStep
  <2>0. co[k].pc = "open"
    BY <1>5 DEF PaySession
  <2>1. PICK s \in {"active", ""} : co' = [co EXCEPT ![k].pc = "paid", ![k].sub = s]
    BY <1>5 DEF PaySession
  <2> DEFINE r == [co[k] EXCEPT !.pc = "paid", !.sub = s]
  <2>2. r \in Checkout /\ Filled(r) /\ Moves(co[k], r)
    <3>1. s \in SubStatus
      BY DEF SubStatus
    <3>2. QED
      BY <1>0, <2>0, <3>1 DEF Checkout, Filled, Moves
  <2>3. co' = [co EXCEPT ![k] = r]
    BY <2>1 DEF CoInv
  <2>4. QED
    BY <2>2, <2>3, OneCheckout
<1>6. ASSUME NEW k \in Checkouts, NEW s \in Statuses, ChangeSubscription(k, s) PROVE CoStep
  <2> DEFINE r == [co[k] EXCEPT !.sub = s]
  <2>1. co[k].sub # ""
    BY <1>6 DEF ChangeSubscription
  <2>2. r \in Checkout /\ Filled(r) /\ Moves(co[k], r)
    BY <1>0, <2>1 DEF Checkout, Filled, Moves
  <2>3. co' = [co EXCEPT ![k] = r]
    BY <1>6 DEF ChangeSubscription
  <2>4. QED
    BY <2>2, <2>3, OneCheckout
<1>7. ASSUME NEW k \in Checkouts, AbortCheckout(k) PROVE CoStep
  <2>1. co' = [co EXCEPT ![k] = [co[k] EXCEPT !.pc = "dead"]]
    BY <1>7 DEF AbortCheckout
  <2>2. co[k].pc \in {"ensure", "link", "session"}
    BY <1>7 DEF AbortCheckout, InHandler
  <2>3. QED
    BY <1>0, <2>1, <2>2, NextPc, OneCheckout
<1>8. ASSUME Crash PROVE CoStep
  <2>1. ASSUME NEW k \in Checkouts
        PROVE co'[k] \in Checkout /\ Filled(co'[k]) /\ Moves(co[k], co'[k])
    <3>1. CASE InHandler(k)
      <4>1. co'[k] = [co[k] EXCEPT !.pc = "dead"]
        BY <1>8, <3>1 DEF Crash
      <4>2. QED
        BY <1>0, <3>1, <4>1, NextPc DEF InHandler
    <3>2. CASE ~InHandler(k)
      <4>1. co'[k] = co[k]
        BY <1>8, <3>2 DEF Crash
      <4>2. QED
        BY <1>0, <4>1 DEF Moves
    <3>3. QED
      BY <3>1, <3>2
  <2>2. co' = [k \in Checkouts |-> co'[k]]
    BY <1>8 DEF Crash
  <2>3. QED
    BY <2>1, <2>2 DEF CoStep, CoInv
<1>9. CASE UNCHANGED co
  <2>1. \A k \in Checkouts : Moves(co[k], co[k])
    BY DEF Moves
  <2>2. QED
    BY <1>9, <2>1 DEF CoStep, CoInv
<1>10. QED
  BY <1>1, <1>2, <1>3, <1>4, <1>5, <1>6, <1>7, <1>8, <1>9 DEF CheckoutsTouched, CheckoutStep

\* Stripe never hands a customer out twice.
LEMMA CustomersStep ==
  ASSUME CoInv, CustInv, (\E k \in Checkouts : EnsureCustomer(k)) \/ UNCHANGED customers
  PROVE  CustStep
<1>1. ASSUME NEW k \in Checkouts, EnsureCustomer(k) PROVE CustStep
  <2>1. co[k].owner \in People \cup {NoPerson}
    BY DEF CoInv, Checkout
  <2>2. QED
    BY <1>1, <2>1 DEF EnsureCustomer, CustInv, CustStep
<1>2. CASE UNCHANGED customers
  BY <1>2 DEF CustInv, CustStep
<1>3. QED
  BY <1>1, <1>2

-------------------------------------------------------------------------------
(* Events: Stripe only appends, and every event reports a paid checkout.       *)

Reports(ev) ==
  /\ co[ev.of].pc = "paid" /\ ev.uid = co[ev.of].uid
  /\ ev.cust = co[ev.of].cust /\ ev.product = co[ev.of].product

EventsInv ==
  /\ events \in Seq(Event) /\ Len(events) <= MaxEvents
  /\ \A e \in DOMAIN events : Reports(events[e])

EventsStep ==
  /\ EventsInv'
  /\ \A e \in DOMAIN events : e \in DOMAIN events' /\ events'[e] = events[e]

LEMMA AppendEvents ==
  ASSUME NEW s \in Seq(Event), NEW t \in Seq(Event)
  PROVE  /\ s \o t \in Seq(Event)
         /\ Len(s \o t) = Len(s) + Len(t)
         /\ \A i \in DOMAIN s : i \in DOMAIN (s \o t) /\ (s \o t)[i] = s[i]
         /\ \A i \in DOMAIN (s \o t) :
              i \in DOMAIN s \/ (i - Len(s) \in DOMAIN t /\ (s \o t)[i] = t[i - Len(s)])
  OBVIOUS

LEMMA OneAndTwo ==
  ASSUME NEW S, NEW a \in S, NEW b \in S
  PROVE  /\ <<a>> \in Seq(S) /\ DOMAIN <<a>> = {1} /\ <<a>>[1] = a
         /\ <<a, b>> \in Seq(S) /\ DOMAIN <<a, b>> = {1, 2}
         /\ <<a, b>>[1] = a /\ <<a, b>>[2] = b
  OBVIOUS

LEMMA EventOfEvent ==
  ASSUME CoInv, NEW k \in Checkouts, co[k].pc \in {"open", "paid"},
         NEW type \in {"completed", "updated", "deleted", "other"}, NEW status \in SubStatus
  PROVE  EventOf(k, type, status) \in Event
<1>1. co[k].uid \in UserId /\ co[k].cust \in Customers /\ co[k].product \in Products
  BY DEF CoInv, Filled
<1>2. QED
  BY <1>1 DEF EventOf, Event

\* Appending events about one checkout, paid by then.
LEMMA MoreEvents ==
  ASSUME CoInv, CoStep, EventsInv, NEW k \in Checkouts, NEW t \in Seq(Event),
         co[k].pc # "none", co'[k].pc = "paid", co[k].cust \in Customers,
         \A i \in DOMAIN t : \E type, status : t[i] = EventOf(k, type, status),
         events' = events \o t, Len(events) + Len(t) <= MaxEvents
  PROVE  EventsStep
<1>1. ASSUME NEW i \in DOMAIN t PROVE Reports(t[i])'
  <2>1. PICK type, status : t[i] = EventOf(k, type, status)
    OBVIOUS
  <2>2. /\ t[i].of = k /\ t[i].uid = co[k].uid
        /\ t[i].cust = co[k].cust /\ t[i].product = co[k].product
    BY <2>1 DEF EventOf
  <2>3. co'[k].uid = co[k].uid /\ co'[k].cust = co[k].cust /\ co'[k].product = co[k].product
    BY DEF CoStep, Moves
  <2>4. QED
    BY <2>2, <2>3 DEF Reports
<1>2. /\ events' \in Seq(Event) /\ Len(events') <= MaxEvents
      /\ \A e \in DOMAIN events : e \in DOMAIN events' /\ events'[e] = events[e]
      /\ \A e \in DOMAIN events' :
           e \in DOMAIN events \/ (e - Len(events) \in DOMAIN t /\ events'[e] = t[e - Len(events)])
  BY AppendEvents DEF EventsInv
<1>3. ASSUME NEW e \in DOMAIN events' PROVE Reports(events[e])'
  <2>1. CASE e \in DOMAIN events
    <3>1. events[e] \in Event /\ Reports(events[e]) /\ events'[e] = events[e]
      BY <1>2, <2>1 DEF EventsInv
    <3>2. events[e].of \in Checkouts /\ events[e].cust \in Customers
      BY <3>1 DEF Event
    <3>3. QED
      BY <3>1, <3>2 DEF Reports, CoStep, Moves
  <2>2. CASE e \notin DOMAIN events
    BY <1>1, <1>2, <2>2 DEF Reports
  <2>3. QED
    BY <2>1, <2>2
<1>4. QED
  BY <1>2, <1>3 DEF EventsInv, EventsStep

LEMMA EventsOnlyGrow ==
  ASSUME CoInv, CoStep, EventsInv, EventsTouched \/ UNCHANGED events
  PROVE  EventsStep
<1>1. ASSUME NEW k \in Checkouts, PaySession(k) PROVE EventsStep
  <2>1. co[k].pc = "open" /\ co[k].cust \in Customers
    BY <1>1 DEF PaySession, CoInv, Filled
  <2>2. co'[k].pc = "paid"
    BY <1>1 DEF PaySession, CoInv, Checkout
  <2> DEFINE up   == EventOf(k, "updated", "active")
             done == EventOf(k, "completed", "")
  <2>3. up \in Event /\ done \in Event
    BY <2>1, EventOfEvent DEF SubStatus
  <2>4. ASSUME events' = events \o <<up, done>>, Len(events) + Len(<<up, done>>) <= MaxEvents
        PROVE  EventsStep
    <3> DEFINE t == <<up, done>>
    <3>1. t \in Seq(Event) /\ DOMAIN t = {1, 2} /\ t[1] = up /\ t[2] = done
      <4> HIDE DEF up, done
      <4>1. /\ <<up, done>> \in Seq(Event) /\ DOMAIN <<up, done>> = {1, 2}
            /\ <<up, done>>[1] = up /\ <<up, done>>[2] = done
        BY ONLY <2>3, OneAndTwo
      <4>2. QED
        BY <4>1
    <3>2. \A i \in DOMAIN t : \E type, status : t[i] = EventOf(k, type, status)
      BY <3>1
    <3> HIDE DEF t
    <3>3. events' = events \o t /\ Len(events) + Len(t) <= MaxEvents
      BY <2>4 DEF t
    <3>4. QED
      BY <2>1, <2>2, <3>1, <3>2, <3>3, MoreEvents
  <2>5. ASSUME events' = events \o <<done>>, Len(events) + Len(<<done>>) <= MaxEvents
        PROVE  EventsStep
    <3> DEFINE t == <<done>>
    <3>1. t \in Seq(Event) /\ DOMAIN t = {1} /\ t[1] = done
      BY <2>3, OneAndTwo
    <3>2. \A i \in DOMAIN t : \E type, status : t[i] = EventOf(k, type, status)
      BY <3>1
    <3> HIDE DEF t
    <3>3. events' = events \o t /\ Len(events) + Len(t) <= MaxEvents
      BY <2>5 DEF t
    <3>4. QED
      BY <2>1, <2>2, <3>1, <3>2, <3>3, MoreEvents
  <2>6. QED
    BY <1>1, <2>4, <2>5 DEF PaySession
<1>2. ASSUME NEW k \in Checkouts, NEW type \in {"completed", "updated", "deleted", "other"},
             NEW status \in SubStatus, co[k].pc = "paid", Len(events) < MaxEvents,
             events' = Append(events, EventOf(k, type, status))
      PROVE EventsStep
  <2> DEFINE t == <<EventOf(k, type, status)>>
  <2>1. EventOf(k, type, status) \in Event
    BY <1>2, EventOfEvent
  <2>2. t \in Seq(Event) /\ Len(t) = 1 /\ DOMAIN t = {1} /\ t[1] = EventOf(k, type, status)
    BY <2>1
  <2>3. events' = events \o t
    BY <1>2, <2>1 DEF EventsInv
  <2>4. co'[k].pc = "paid" /\ co[k].cust \in Customers
    BY <1>2 DEF CoStep, Moves, CoInv, Filled
  <2>5. Len(events) + Len(t) <= MaxEvents
    BY <1>2, <2>2 DEF EventsInv
  <2>6. \A i \in DOMAIN t : \E y, s : t[i] = EventOf(k, y, s)
    BY <2>2
  <2>7. QED
    BY <1>2, <2>2, <2>3, <2>4, <2>5, <2>6, MoreEvents
<1>3. ASSUME NEW k \in Checkouts, OtherEvent(k) PROVE EventsStep
  BY <1>2, <1>3 DEF OtherEvent, SubStatus
<1>4. ASSUME NEW k \in Checkouts, NEW s \in Statuses, ChangeSubscription(k, s) PROVE EventsStep
  <2>1. co[k].pc = "paid"
    BY <1>4 DEF ChangeSubscription, CoInv, Filled
  <2>2. QED
    BY <1>2, <1>4, <2>1 DEF ChangeSubscription
<1>5. CASE UNCHANGED events
  <2>1. ASSUME NEW e \in DOMAIN events PROVE Reports(events[e])'
    <3>1. events[e] \in Event /\ Reports(events[e])
      BY DEF EventsInv
    <3>2. events[e].of \in Checkouts /\ events[e].cust \in Customers
      BY <3>1 DEF Event
    <3>3. QED
      BY <1>5, <3>1, <3>2 DEF Reports, CoStep, Moves
  <2>2. QED
    BY <1>5, <2>1 DEF EventsInv, EventsStep
<1>6. QED
  BY <1>1, <1>3, <1>4, <1>5 DEF EventsTouched

-------------------------------------------------------------------------------
(* The webhook handler: what is acknowledged was recorded, and what was        *)
(* recorded was applied.                                                       *)

IsPurchase(ev) == ev.type = "completed" /\ ev.product \in OneTime

\* A webhook request r is where it should be, given the events, the recorded
\* ones and the applied ones.
Sound(r, evs, proc, app) ==
  /\ r.pc # "idle" => r.ev \in DOMAIN evs
  /\ r.pc = "reply" => r.ev \in proc
  /\ r.pc = "record" /\ IsPurchase(evs[r.ev]) => r.ev \in app

LedgerInv ==
  /\ dl \in [Deliveries -> Delivery]
  /\ processed \subseteq DOMAIN events /\ applied \subseteq DOMAIN events
  /\ acked \subseteq processed
  /\ \A e \in processed : IsPurchase(events[e]) => e \in applied
  /\ \A d \in Deliveries : Sound(dl[d], events, processed, applied)

LEMMA SoundStays ==
  ASSUME NEW r, NEW evs, NEW evs2, NEW proc, NEW proc2, NEW app, NEW app2,
         Sound(r, evs, proc, app), proc \subseteq proc2, app \subseteq app2,
         \A e \in DOMAIN evs : e \in DOMAIN evs2 /\ evs2[e] = evs[e]
  PROVE  Sound(r, evs2, proc2, app2)
  BY DEF Sound

LEMMA IdleSound ==
  \A evs, proc, app : Idle \in Delivery /\ Sound(Idle, evs, proc, app)
  BY DEF Idle, Delivery, Sound

\* One request moves on to r while events stay as they are.
LEMMA OneDelivery ==
  ASSUME LedgerInv, UNCHANGED events, NEW d \in Deliveries, NEW r \in Delivery,
         dl' = [dl EXCEPT ![d] = r], Sound(r, events, processed', applied'),
         processed \subseteq processed', processed' \subseteq DOMAIN events,
         applied \subseteq applied', applied' \subseteq DOMAIN events,
         acked' \subseteq processed',
         \A e \in processed' : IsPurchase(events[e]) => e \in applied'
  PROVE  LedgerInv'
<1>1. \A c \in Deliveries : dl'[c] = IF c = d THEN r ELSE dl[c]
  BY DEF LedgerInv
<1>2. \A c \in Deliveries : Sound(dl[c], events, processed', applied')
  BY SoundStays DEF LedgerInv
<1>3. dl' \in [Deliveries -> Delivery]
  BY DEF LedgerInv
<1>4. \A c \in Deliveries : Sound(dl'[c], events, processed', applied')
  BY <1>1, <1>2
<1>5. QED
  BY <1>3, <1>4 DEF LedgerInv

LEMMA LedgerStep ==
  ASSUME LedgerInv, EventsInv, EventsStep,
         DeliveriesTouched \/ UNCHANGED <<dl, processed, applied, acked>>
  PROVE  LedgerInv'
<1>0. \A d \in Deliveries : dl[d] \in Delivery /\ Sound(dl[d], events, processed, applied)
  BY DEF LedgerInv
<1>a. DOMAIN events \subseteq EventId
  BY DEF EventsInv
<1> USE DEF db, stripe, ghosts
<1>1. ASSUME NEW d \in Deliveries, NEW e \in EventId, Deliver(d, e) PROVE LedgerInv'
  <2> DEFINE r == [pc |-> "check", ev |-> e]
  <2>1. r \in Delivery
    BY DEF Delivery
  <2>2. Sound(r, events, processed, applied)
    BY <1>1 DEF Deliver, Sound
  <2>3. QED
    BY <1>1, <2>1, <2>2, OneDelivery DEF Deliver, LedgerInv
<1>2. ASSUME NEW d \in Deliveries, CheckEvent(d) PROVE LedgerInv'
  <2> DEFINE q == IF dl[d].ev \in processed THEN "reply" ELSE "apply"
             r == [dl[d] EXCEPT !.pc = q]
  <2>1. r \in Delivery /\ Sound(r, events, processed, applied)
    BY <1>0, <1>2 DEF CheckEvent, Delivery, Sound
  <2>2. dl' = [dl EXCEPT ![d] = r]
    BY <1>2 DEF CheckEvent, Goto
  <2>3. QED
    BY <1>2, <2>1, <2>2, OneDelivery DEF CheckEvent, LedgerInv
\* An apply statement that took effect: the request goes on to record the event.
<1>3. ASSUME NEW d \in Deliveries, dl[d].pc = "apply", dl' = [dl EXCEPT ![d].pc = "record"],
             UNCHANGED <<events, processed, acked>>,
             applied' \in {applied, applied \cup {dl[d].ev}},
             IsPurchase(events[dl[d].ev]) => dl[d].ev \in applied'
      PROVE LedgerInv'
  <2> DEFINE r == [dl[d] EXCEPT !.pc = "record"]
  <2>1. r \in Delivery /\ r.pc = "record" /\ r.ev = dl[d].ev
    BY <1>0 DEF Delivery
  <2>2. dl[d].ev \in DOMAIN events
    BY <1>0, <1>3 DEF Sound
  <2>3. Sound(r, events, processed, applied')
    BY <1>3, <2>1, <2>2 DEF Sound
  <2>4. dl' = [dl EXCEPT ![d] = r]
    BY <1>3
  <2>5. QED
    BY <1>3, <2>1, <2>2, <2>3, <2>4, OneDelivery DEF LedgerInv
\* A request that ends: with an error, a fault, or nothing left to do.
<1>4. ASSUME NEW d \in Deliveries, dl' = [dl EXCEPT ![d] = Idle],
             UNCHANGED <<events, processed, applied>>, acked' \subseteq processed
      PROVE LedgerInv'
  BY <1>4, IdleSound, OneDelivery DEF LedgerInv
<1>5. ASSUME NEW d \in Deliveries, ApplyGrant(d) PROVE LedgerInv'
  <2>1. ASSUME applied' = applied \cup {dl[d].ev}, Goto(d, "record") PROVE LedgerInv'
    BY <1>3, <1>5, <2>1 DEF ApplyGrant, Applying, Goto
  <2>2. ASSUME UNCHANGED applied, Finish(d) PROVE LedgerInv'
    BY <1>4, <1>5, <2>2 DEF ApplyGrant, Finish, LedgerInv
  <2>3. QED
    BY <1>5, <2>1, <2>2 DEF ApplyGrant
<1>6. ASSUME NEW d \in Deliveries, ApplyLink(d) PROVE LedgerInv'
  <2> DEFINE ev    == events[dl[d].ev]
             taken == CustomerTaken(ev.uid, ev.cust)
  <2>0. dl[d].pc = "apply" /\ ~IsPurchase(ev) /\ UNCHANGED <<events, processed, acked>>
    BY <1>6 DEF ApplyLink, Applying, IsPurchase
  <2>1. ASSUME taken PROVE LedgerInv'
    BY <1>4, <1>6, <2>0, <2>1 DEF ApplyLink, LedgerInv
  <2>2. ASSUME ~taken PROVE LedgerInv'
    BY <1>3, <1>6, <2>0, <2>2 DEF ApplyLink
  <2>3. QED
    BY <2>1, <2>2
<1>7. ASSUME NEW d \in Deliveries, ApplyStatus(d) \/ ApplyNothing(d) PROVE LedgerInv'
  <2>1. dl[d].pc = "apply" /\ ~IsPurchase(events[dl[d].ev]) /\ UNCHANGED <<events, processed, acked>>
    BY <1>7 DEF ApplyStatus, ApplyNothing, Applying, IsPurchase
  <2>2. dl' = [dl EXCEPT ![d].pc = "record"] /\ applied' \in {applied, applied \cup {dl[d].ev}}
    BY <1>7 DEF ApplyStatus, ApplyNothing, Goto
  <2>3. QED
    BY <1>3, <2>1, <2>2
<1>8. ASSUME NEW d \in Deliveries, RecordEvent(d) PROVE LedgerInv'
  <2> DEFINE r == [dl[d] EXCEPT !.pc = "reply"]
  <2>1. dl[d].pc = "record" /\ UNCHANGED <<events, acked, applied>>
        /\ processed' = processed \cup {dl[d].ev}
    BY <1>8 DEF RecordEvent
  <2>2. r \in Delivery /\ r.pc = "reply" /\ r.ev = dl[d].ev
    BY <1>0 DEF Delivery
  <2>3. dl[d].ev \in DOMAIN events /\ (IsPurchase(events[dl[d].ev]) => dl[d].ev \in applied)
    BY <1>0, <2>1 DEF Sound
  <2>4. Sound(r, events, processed', applied)
    BY <2>1, <2>2, <2>3 DEF Sound
  <2>5. dl' = [dl EXCEPT ![d] = r]
    BY <1>8 DEF RecordEvent, Goto
  <2>6. QED
    BY <2>1, <2>2, <2>3, <2>4, <2>5, OneDelivery DEF LedgerInv
<1>9. ASSUME NEW d \in Deliveries, Reply(d) PROVE LedgerInv'
  <2>1. dl[d].ev \in processed
    BY <1>0, <1>9 DEF Reply, Sound
  <2>2. QED
    BY <1>4, <1>9, <2>1 DEF Reply, Finish, LedgerInv
<1>10. ASSUME NEW d \in Deliveries, AbortDelivery(d) PROVE LedgerInv'
  BY <1>4, <1>10 DEF AbortDelivery, Finish, LedgerInv
<1>11. ASSUME Crash PROVE LedgerInv'
  BY <1>11, IdleSound DEF Crash, LedgerInv
<1>12. CASE UNCHANGED <<dl, processed, applied, acked>>
  <2>1. \A d \in Deliveries : Sound(dl[d], events', processed, applied)
    BY <1>0, SoundStays DEF EventsStep
  <2>2. processed \subseteq DOMAIN events' /\ applied \subseteq DOMAIN events'
    BY DEF LedgerInv, EventsStep
  <2>3. \A e \in processed : IsPurchase(events'[e]) => e \in applied
    BY DEF LedgerInv, EventsStep
  <2>4. QED
    BY <1>12, <2>1, <2>2, <2>3 DEF LedgerInv
<1>13. QED
  BY <1>1, <1>2, <1>5, <1>6, <1>7, <1>8, <1>9, <1>10, <1>11, <1>12
  DEF DeliveriesTouched, DeliveryStep, ApplyEvent

-------------------------------------------------------------------------------
(* The users table: a row keeps its owner; only SignUp makes one, with a new   *)
(* id, and only DeleteAccount removes one; a customer is put on a row by a     *)
(* checkout of that row.                                                       *)

LinkedBy(u, c) ==
  \E k \in Checkouts : co[k].pc # "none" /\ co[k].uid = u /\ co[k].cust = c

\* What a step may do to the row of u.
RowMoves(u) ==
  /\ users'[u] # NoRow =>
       \/ /\ Live(u) /\ users'[u].owner = users[u].owner
          /\ users'[u].cust # users[u].cust =>
               users'[u].cust \in Customers /\ LinkedBy(u, users'[u].cust)
       \/ /\ ~Live(u) /\ u = lastId + 1 /\ lastId' = u /\ users'[u].cust = NoCust
  /\ Live(u) /\ users'[u] = NoRow => DeleteAccount(u)

UsersStep == UsersInv' /\ lastId <= lastId' /\ \A u \in UserId : RowMoves(u)

\* Linking customer c to row w, whoever asks for it.
LEMMA LinkRow ==
  ASSUME UsersInv, NEW w \in UserId, NEW c \in Customers, LinkedBy(w, c),
         users' \in {users, WithCustomer(w, c)}, lastId' = lastId
  PROVE  UsersStep
<1>1. CASE users' = users
  BY <1>1 DEF UsersInv, UsersStep, RowMoves, Live
<1>2. CASE users' = WithCustomer(w, c)
  <2>1. \A u \in UserId : u # w => users'[u] = users[u]
    BY <1>2 DEF WithCustomer, UsersInv
  <2>2. users'[w] = IF users[w] = NoRow THEN NoRow ELSE [users[w] EXCEPT !.cust = c]
    BY <1>2 DEF WithCustomer, UsersInv
  <2>3. users[w] # NoRow =>
          /\ users'[w] \in UserRow /\ users'[w].owner = users[w].owner /\ users'[w].cust = c
    BY <2>2 DEF UsersInv, UserRow
  <2>4. users' \in [UserId -> UserRow \cup {NoRow}]
    BY <1>2, <2>1, <2>2, <2>3 DEF UsersInv, WithCustomer
  <2>5. \A u \in UserId : RowMoves(u)
    BY <2>1, <2>2, <2>3 DEF RowMoves, Live
  <2>6. QED
    BY <2>4, <2>5 DEF UsersStep, UsersInv
<1>3. QED
  BY <1>1, <1>2

LEMMA UsersOnlyMove ==
  ASSUME CoInv, UsersInv, EventsInv, LedgerInv, UsersTouched \/ UNCHANGED <<users, lastId>>
  PROVE  UsersStep
<1>1. ASSUME NEW p \in People, SignUp(p) PROVE UsersStep
  <2> DEFINE r == [owner |-> p, cust |-> NoCust, status |-> ""]
  <2>1. r \in UserRow
    BY DEF UserRow, SubStatus
  <2>2. /\ NextId \in UserId /\ NextId = lastId + 1 /\ lastId' = NextId /\ ~Live(NextId)
        /\ users' = [users EXCEPT ![NextId] = r]
    BY <1>1 DEF SignUp, NextId
  <2>3. \A u \in UserId : users'[u] = IF u = NextId THEN r ELSE users[u]
    BY <2>2 DEF UsersInv
  <2>4. UsersInv' /\ lastId <= lastId'
    <3>1. users' \in [UserId -> UserRow \cup {NoRow}]
      BY <2>1, <2>2 DEF UsersInv
    <3>2. lastId' \in 0 .. MaxUsers /\ lastId <= lastId'
      <4>1. lastId \in 0 .. MaxUsers /\ lastId' = lastId + 1 /\ lastId' \in 1 .. MaxUsers
        BY <2>2 DEF UsersInv
      <4>2. QED
        BY <4>1
    <3>3. QED
      BY <3>1, <3>2 DEF UsersInv
  <2>5. ASSUME NEW u \in UserId PROVE RowMoves(u)
    <3>1. CASE u = NextId
      <4>1. users'[u] = r /\ r.cust = NoCust
        BY <2>3, <3>1
      <4>2. QED
        BY <2>2, <3>1, <4>1 DEF RowMoves
    <3>2. CASE u # NextId
      <4>1. users'[u] = users[u]
        BY <2>3, <3>2
      <4>2. QED
        BY <4>1 DEF RowMoves, Live
    <3>3. QED
      BY <3>1, <3>2
  <2>6. QED
    BY <2>4, <2>5 DEF UsersStep
<1>2. ASSUME NEW w \in UserId, DeleteAccount(w) PROVE UsersStep
  <2>1. users' = [users EXCEPT ![w] = NoRow] /\ lastId' = lastId
    BY <1>2 DEF DeleteAccount
  <2>2. \A u \in UserId : users'[u] = IF u = w THEN NoRow ELSE users[u]
    BY <2>1 DEF UsersInv
  <2>3. UsersInv' /\ lastId <= lastId'
    BY <2>1, <2>2 DEF UsersInv
  <2>4. \A u \in UserId : RowMoves(u)
    BY <1>2, <2>2 DEF RowMoves, Live
  <2>5. QED
    BY <2>3, <2>4 DEF UsersStep
<1>3. ASSUME NEW k \in Checkouts, LinkCustomer(k) PROVE UsersStep
  <2>1. /\ co[k].pc = "link" /\ lastId' = lastId
        /\ users' \in {users, WithCustomer(co[k].uid, co[k].cust)}
    BY <1>3 DEF LinkCustomer
  <2>2. co[k].uid \in UserId /\ co[k].cust \in Customers
    BY <2>1 DEF CoInv, Filled
  <2>3. QED
    BY <2>1, <2>2, LinkRow DEF LinkedBy
<1>4. ASSUME NEW d \in Deliveries, ApplyLink(d) PROVE UsersStep
  <2> DEFINE ev == events[dl[d].ev]
  <2>1. /\ dl[d].pc = "apply" /\ lastId' = lastId
        /\ users' \in {users, WithCustomer(ev.uid, ev.cust)}
    BY <1>4 DEF ApplyLink, Applying
  <2>2. ev \in Event /\ Reports(ev)
    BY <2>1 DEF LedgerInv, Sound, EventsInv
  <2>3. ev.uid \in UserId /\ ev.cust \in Customers /\ ev.of \in Checkouts
    BY <2>2 DEF Event
  <2>4. LinkedBy(ev.uid, ev.cust)
    BY <2>2, <2>3 DEF LinkedBy, Reports
  <2>5. QED
    BY <2>1, <2>3, <2>4, LinkRow
<1>5. ASSUME NEW d \in Deliveries, ApplyStatus(d) PROVE UsersStep
  <2> DEFINE ev == events[dl[d].ev]
  <2>1. dl[d].pc = "apply" /\ lastId' = lastId /\ users' = WithStatus(ev.cust, ev.status)
    BY <1>5 DEF ApplyStatus, Applying
  <2>2. ev \in Event
    BY <2>1 DEF LedgerInv, Sound, EventsInv
  <2>3. ev.status \in SubStatus
    BY <2>2 DEF Event
  <2>4. ASSUME NEW u \in UserId
        PROVE  /\ users'[u] \in UserRow \cup {NoRow}
               /\ users'[u] = NoRow <=> users[u] = NoRow
               /\ users[u] # NoRow => users'[u].owner = users[u].owner
                                      /\ users'[u].cust = users[u].cust
    <3>1. users'[u] = IF Live(u) /\ users[u].cust = ev.cust
                      THEN [users[u] EXCEPT !.status = ev.status] ELSE users[u]
      BY <2>1 DEF WithStatus
    <3>2. CASE Live(u) /\ users[u].cust = ev.cust
      <4>1. users[u] \in UserRow
        BY <3>2 DEF UsersInv, Live
      <4>2. users'[u] = [users[u] EXCEPT !.status = ev.status]
        BY <3>1, <3>2
      <4>3. /\ users'[u] \in UserRow
            /\ users'[u].owner = users[u].owner /\ users'[u].cust = users[u].cust
        BY <2>3, <4>1, <4>2 DEF UserRow
      <4>4. QED
        BY <3>2, <4>3 DEF Live
    <3>3. CASE ~(Live(u) /\ users[u].cust = ev.cust)
      BY <3>1, <3>3 DEF UsersInv
    <3>4. QED
      BY <3>2, <3>3
  <2>5. users' = [u \in UserId |-> users'[u]]
    BY <2>1 DEF WithStatus
  <2>6. UsersInv'
    BY <2>1, <2>4, <2>5 DEF UsersInv
  <2>7. lastId <= lastId'
    BY <2>1 DEF UsersInv
  <2>8. \A u \in UserId : RowMoves(u)
    BY <2>4 DEF RowMoves, Live
  <2>9. QED
    BY <2>6, <2>7, <2>8 DEF UsersStep
<1>6. CASE UNCHANGED <<users, lastId>>
  BY <1>6 DEF UsersInv, UsersStep, RowMoves, Live
<1>7. QED
  BY <1>1, <1>2, <1>3, <1>4, <1>5, <1>6 DEF UsersTouched

-------------------------------------------------------------------------------
(* Identity: ids are not reused, so a checkout that still has its row has the  *)
(* row of the person who started it, and customers stay with their person.    *)

IdentityInv ==
  /\ \A u \in UserId : Live(u) => u <= lastId
  /\ \A k \in Checkouts :
       co[k].pc # "none" =>
         /\ co[k].uid <= lastId
         /\ Live(co[k].uid) => users[co[k].uid].owner = co[k].owner
         /\ co[k].cust # NoCust => customers[co[k].cust] = co[k].owner
  /\ CustomerIsOwners

LEMMA IdentityStep ==
  ASSUME CoInv, UsersInv, CustInv, IdentityInv, CoStep, UsersStep, CustStep
  PROVE  IdentityInv'
<1>1. ASSUME NEW u \in UserId, users'[u] # NoRow PROVE u <= lastId'
  BY <1>1 DEF UsersStep, RowMoves, IdentityInv, UsersInv
<1>2. ASSUME NEW k \in Checkouts, co'[k].pc # "none"
      PROVE  /\ co'[k].uid <= lastId'
             /\ users'[co'[k].uid] # NoRow => users'[co'[k].uid].owner = co'[k].owner
             /\ co'[k].cust # NoCust => customers'[co'[k].cust] = co'[k].owner
  <2>0. /\ co'[k] \in Checkout /\ Filled(co'[k]) /\ Moves(co[k], co'[k])
        /\ co[k] \in Checkout /\ Filled(co[k])
    BY DEF CoStep, CoInv
  <2>1. co'[k].uid \in UserId /\ co'[k].owner \in People
    BY <1>2, <2>0 DEF Filled
  <2>2. RowMoves(co'[k].uid)
    BY <2>1 DEF UsersStep
  <2>3. CASE co[k].pc = "none"
    <3>1. /\ Live(co'[k].uid) /\ users[co'[k].uid].owner = co'[k].owner
          /\ users[co'[k].uid].cust = co'[k].cust
      BY <1>2, <2>0, <2>3 DEF Moves
    <3>2. co'[k].uid <= lastId'
      BY <2>1, <3>1 DEF IdentityInv, UsersStep, UsersInv
    <3>3. users'[co'[k].uid] # NoRow => users'[co'[k].uid].owner = co'[k].owner
      BY <2>2, <3>1 DEF RowMoves
    <3>4. ASSUME co'[k].cust # NoCust PROVE customers'[co'[k].cust] = co'[k].owner
      <4>1. co'[k].cust \in Customers
        BY <2>0, <3>4 DEF Checkout
      <4>2. customers[co'[k].cust] = co'[k].owner
        BY <2>1, <3>1, <3>4 DEF IdentityInv, CustomerIsOwners
      <4>3. QED
        BY <2>1, <4>1, <4>2 DEF CustStep
    <3>5. QED
      BY <3>2, <3>3, <3>4
  <2>4. CASE co[k].pc # "none"
    <3>1. co'[k].uid = co[k].uid /\ co'[k].owner = co[k].owner
      BY <2>0, <2>4 DEF Moves
    <3>2. co'[k].uid <= lastId /\ (Live(co'[k].uid) => users[co'[k].uid].owner = co'[k].owner)
      BY <2>4, <3>1 DEF IdentityInv
    <3>3. co'[k].uid <= lastId'
      BY <2>1, <3>2 DEF UsersStep, UsersInv
    <3>4. users'[co'[k].uid] # NoRow => users'[co'[k].uid].owner = co'[k].owner
      BY <2>1, <2>2, <3>2 DEF RowMoves, UsersInv
    <3>5. ASSUME co'[k].cust # NoCust PROVE customers'[co'[k].cust] = co'[k].owner
      <4>1. CASE co'[k].cust = co[k].cust
        <5>1. co[k].cust \in Customers
          BY <2>0, <3>5, <4>1 DEF Checkout
        <5>2. customers[co[k].cust] = co'[k].owner
          BY <2>4, <3>1, <3>5, <4>1 DEF IdentityInv
        <5>3. QED
          BY <2>1, <4>1, <5>1, <5>2 DEF CustStep
      <4>2. CASE co'[k].cust # co[k].cust
        BY <2>0, <2>4, <4>2 DEF Moves
      <4>3. QED
        BY <4>1, <4>2
    <3>6. QED
      BY <3>3, <3>4, <3>5
  <2>5. QED
    BY <2>3, <2>4
<1>3. ASSUME NEW u \in UserId, users'[u] # NoRow, users'[u].cust # NoCust
      PROVE  customers'[users'[u].cust] = users'[u].owner
  <2>1. Live(u) /\ users'[u].owner = users[u].owner /\ users[u].owner \in People
    BY <1>3 DEF UsersStep, RowMoves, Live, UsersInv, UserRow
  <2>2. CASE users'[u].cust = users[u].cust
    <3>1. users[u].cust \in Customers
      BY <1>3, <2>1, <2>2 DEF UsersInv, UserRow, Live
    <3>2. customers[users[u].cust] = users[u].owner
      BY <1>3, <2>1, <2>2 DEF IdentityInv, CustomerIsOwners
    <3>3. QED
      BY <2>1, <2>2, <3>1, <3>2 DEF CustStep
  <2>3. CASE users'[u].cust # users[u].cust
    <3>1. users'[u].cust \in Customers /\ LinkedBy(u, users'[u].cust)
      BY <1>3, <2>1, <2>3 DEF UsersStep, RowMoves
    <3>2. PICK k \in Checkouts : co[k].pc # "none" /\ co[k].uid = u /\ co[k].cust = users'[u].cust
      BY <3>1 DEF LinkedBy
    <3>3. customers[users'[u].cust] = co[k].owner /\ users[u].owner = co[k].owner
      BY <1>3, <2>1, <3>2 DEF IdentityInv
    <3>4. QED
      BY <2>1, <3>1, <3>3 DEF CustStep
  <2>4. QED
    BY <2>2, <2>3
<1>4. QED
  BY <1>1, <1>2, <1>3 DEF IdentityInv, CustomerIsOwners, Live

-------------------------------------------------------------------------------
(* Entitlements.                                                               *)

\* Grant g, among the rows us: its id was given out, and the row that has it, if
\* it is still there, is its owner's.
Meant(g, us, last) ==
  /\ g.uid \in UserId /\ g.owner \in People /\ g.product \in Products
  /\ g.uid <= last
  /\ us[g.uid] # NoRow => us[g.uid].owner = g.owner

GrantsInv ==
  /\ entitlements \subseteq UserId \X Products /\ comped \subseteq People \X Products
  /\ grant \in GrantRequest
  /\ grant.on => Meant(grant, users, lastId)
  /\ EntitlementsEarned

\* Why u may hold p.
Earned(u, p) == Paid(users[u].owner, p) \/ <<users[u].owner, p>> \in comped

\* A row that is kept keeps what was earned for it.
LEMMA EarnedStays ==
  ASSUME CoInv, CoStep, UsersStep, NEW u \in UserId, NEW p \in Products,
         Live(u), users'[u] # NoRow, Earned(u, p), comped \subseteq comped'
  PROVE  Earned(u, p)'
<1>1. users'[u].owner = users[u].owner
  BY DEF UsersStep, RowMoves
<1>2. ASSUME Paid(users[u].owner, p) PROVE Earned(u, p)'
  <2>1. PICK k \in Checkouts :
          co[k].pc = "paid" /\ co[k].owner = users[u].owner /\ co[k].product = p
    BY <1>2 DEF Paid
  <2>2. co'[k].pc = "paid" /\ co'[k].owner = users[u].owner /\ co'[k].product = p
    BY <2>1 DEF CoStep, Moves
  <2>3. QED
    BY <1>1, <2>2 DEF Earned, Paid
<1>3. QED
  BY <1>1, <1>2 DEF Earned

LEMMA GrantsStep ==
  ASSUME CoInv, UsersInv, EventsInv, LedgerInv, IdentityInv, GrantsInv,
         CoStep, UsersStep, EntitlementsTouched \/ UNCHANGED <<entitlements, comped, grant>>
  PROVE  GrantsInv'
<1> USE DEF db, stripe, ghosts
<1>0. ASSUME UNCHANGED grant, grant.on PROVE Meant(grant', users', lastId')
  <2>1. /\ grant' = grant /\ Meant(grant, users, lastId)
        /\ lastId \in Nat /\ lastId' \in Nat /\ lastId <= lastId'
    BY <1>0 DEF GrantsInv, UsersStep, UsersInv
  <2>2. PICK u \in UserId : u = grant.uid
    BY <2>1 DEF Meant
  <2>3. u <= lastId /\ RowMoves(u) /\ (Live(u) => users[u].owner = grant.owner)
    BY <2>1, <2>2 DEF Meant, UsersStep, Live
  <2>4. users'[u] # NoRow => Live(u) /\ users'[u].owner = users[u].owner
    BY <2>1, <2>3 DEF RowMoves
  <2>5. u <= lastId' /\ (users'[u] # NoRow => users'[u].owner = grant.owner)
    BY <2>1, <2>3, <2>4
  <2>6. QED
    BY <2>1, <2>2, <2>5 DEF Meant
<1>1. ASSUME NEW u \in UserId, NEW p \in Products, <<u, p>> \in entitlements,
             ~DeleteAccount(u), comped \subseteq comped'
      PROVE users'[u] # NoRow /\ Earned(u, p)'
  <2>1. Live(u) /\ Earned(u, p)
    BY <1>1 DEF GrantsInv, EntitlementsEarned, Earned
  <2>2. users'[u] # NoRow
    BY <1>1, <2>1 DEF UsersStep, RowMoves
  <2>3. QED
    BY <1>1, <2>1, <2>2, EarnedStays
\* No row is gained, and the rows of deleted accounts are gone.
<1>2. ASSUME entitlements' \subseteq entitlements, comped \subseteq comped',
             \A u \in UserId, p \in Products : <<u, p>> \in entitlements' => ~DeleteAccount(u)
      PROVE EntitlementsEarned'
  BY <1>1, <1>2 DEF EntitlementsEarned, Earned, Live
\* One row is gained, and it is earned.
<1>3. ASSUME NEW w \in UserId, NEW q \in Products, entitlements' = entitlements \cup {<<w, q>>},
             comped \subseteq comped', UNCHANGED users, Live(w), Earned(w, q)'
      PROVE EntitlementsEarned'
  <2>1. \A u \in UserId : Live(u) => ~DeleteAccount(u)
    BY <1>3 DEF DeleteAccount, Live, UsersInv
  <2>2. ASSUME NEW u \in UserId, NEW p \in Products, <<u, p>> \in entitlements'
        PROVE  users'[u] # NoRow /\ Earned(u, p)'
    <3>1. CASE <<u, p>> \in entitlements
      <4>1. Live(u)
        BY <3>1 DEF GrantsInv, EntitlementsEarned
      <4>2. QED
        BY <1>1, <1>3, <2>1, <3>1, <4>1
    <3>2. CASE u = w /\ p = q
      BY <1>3, <3>2 DEF Live
    <3>3. QED
      BY <1>3, <2>2, <3>1, <3>2
  <2>3. QED
    BY <2>2 DEF EntitlementsEarned, Earned, Live
<1>4. ASSUME NEW w \in UserId, DeleteAccount(w) PROVE GrantsInv'
  <2>1. /\ entitlements' = {e \in entitlements : e[1] # w}
        /\ UNCHANGED <<comped, grant>> /\ Live(w)
        /\ \A u \in UserId : u # w => users'[u] = users[u]
    BY <1>4 DEF DeleteAccount, UsersInv
  <2>2. ASSUME NEW u \in UserId, NEW p \in Products, <<u, p>> \in entitlements'
        PROVE  ~DeleteAccount(u)
    <3>1. u # w /\ <<u, p>> \in entitlements
      BY <2>1, <2>2
    <3>2. Live(u) /\ users'[u] = users[u]
      BY <2>1, <3>1 DEF GrantsInv, EntitlementsEarned
    <3>3. QED
      BY <3>2 DEF DeleteAccount, Live, UsersInv
  <2>3. EntitlementsEarned'
    BY <1>2, <2>1, <2>2
  <2>4. QED
    BY <1>0, <2>1, <2>3 DEF GrantsInv
<1>5. ASSUME NEW d \in Deliveries, ApplyGrant(d) PROVE GrantsInv'
  <2> DEFINE ev == events[dl[d].ev]
  <2>1. /\ dl[d].pc = "apply" /\ ev.type = "completed" /\ ev.product \in OneTime
        /\ UNCHANGED <<users, comped, grant>>
    BY <1>5 DEF ApplyGrant, Applying
  <2>2. ev \in Event /\ Reports(ev)
    BY <2>1 DEF LedgerInv, Sound, EventsInv
  <2>3. ev.uid \in UserId /\ ev.of \in Checkouts /\ ev.product \in Products
    BY <2>2 DEF Event
  <2>4. ASSUME Live(ev.uid), entitlements' = entitlements \cup {<<ev.uid, ev.product>>}
        PROVE  GrantsInv'
    <3>0. PICK w \in UserId, q \in Products : w = ev.uid /\ q = ev.product
      BY <2>3
    <3>1. Live(w) /\ users[w].owner = co[ev.of].owner
      BY <2>2, <2>3, <2>4, <3>0 DEF Reports, IdentityInv
    <3>2. Earned(w, q)
      BY <2>2, <2>3, <3>0, <3>1 DEF Reports, Paid, Earned
    <3>3. Earned(w, q)' /\ entitlements' = entitlements \cup {<<w, q>>}
      BY <2>1, <2>4, <3>0, <3>1, <3>2, EarnedStays DEF Live
    <3>4. EntitlementsEarned'
      BY <1>3, <2>1, <3>1, <3>3
    <3>5. QED
      BY <1>0, <2>1, <3>3, <3>4 DEF GrantsInv
  <2>5. ASSUME UNCHANGED entitlements PROVE GrantsInv'
    <3>1. \A u \in UserId : Live(u) => ~DeleteAccount(u)
      BY <2>1 DEF DeleteAccount, Live, UsersInv
    <3>2. EntitlementsEarned'
      BY <1>2, <2>1, <2>5, <3>1 DEF GrantsInv, EntitlementsEarned
    <3>3. QED
      BY <1>0, <2>1, <2>5, <3>2 DEF GrantsInv
  <2>6. QED
    BY <1>5, <2>4, <2>5 DEF ApplyGrant
<1>6. ASSUME UNCHANGED <<entitlements, comped>>, grant' \in GrantRequest,
             grant'.on => Meant(grant', users', lastId'),
             \A u \in UserId : Live(u) => ~DeleteAccount(u)
      PROVE GrantsInv'
  <2>1. EntitlementsEarned'
    BY <1>2, <1>6 DEF GrantsInv, EntitlementsEarned
  <2>2. QED
    BY <1>6, <2>1 DEF GrantsInv
<1>7. NoGrant \in GrantRequest /\ ~NoGrant.on
  BY DEF NoGrant, GrantRequest
<1>8. ASSUME UNCHANGED users PROVE \A u \in UserId : Live(u) => ~DeleteAccount(u)
  BY <1>8 DEF DeleteAccount, Live, UsersInv
<1>9. ASSUME Crash PROVE GrantsInv'
  BY <1>6, <1>7, <1>8, <1>9 DEF Crash
<1>10. ASSUME NEW u \in UserId, NEW p \in Products, AdminGrantStart(u, p) PROVE GrantsInv'
  <2>1. Live(u) /\ users[u].owner \in People /\ UNCHANGED users
    BY <1>10 DEF AdminGrantStart, UsersInv, UserRow, Live
  <2>2. /\ grant' \in GrantRequest
        /\ grant'.uid = u /\ grant'.owner = users[u].owner /\ grant'.product = p
    BY <1>10, <2>1 DEF AdminGrantStart, GrantRequest
  <2>3. Meant(grant', users', lastId')
    <3>1. u <= lastId /\ lastId \in Nat /\ lastId' \in Nat /\ lastId <= lastId'
      BY <2>1 DEF IdentityInv, UsersStep, UsersInv
    <3>2. QED
      BY <2>1, <2>2, <3>1 DEF Meant
  <2>4. QED
    BY <1>6, <1>8, <1>10, <2>2, <2>3 DEF AdminGrantStart
<1>11. ASSUME NEW u \in UserId, NEW p \in Products, AdminRevoke(u, p) PROVE GrantsInv'
  <2>1. entitlements' \subseteq entitlements /\ UNCHANGED <<users, comped, grant>>
    BY <1>11 DEF AdminRevoke
  <2>2. EntitlementsEarned'
    BY <1>2, <1>8, <2>1 DEF GrantsInv, EntitlementsEarned
  <2>3. QED
    BY <1>0, <2>1, <2>2 DEF GrantsInv
<1>12. ASSUME AdminGrantFinish PROVE GrantsInv'
  <2>1. /\ UNCHANGED users /\ grant' = NoGrant
        /\ grant.on /\ Meant(grant, users, lastId)
        /\ grant.uid \in UserId /\ grant.product \in Products
    BY <1>12 DEF AdminGrantFinish, GrantsInv, Meant
  <2>2. ASSUME ~Live(grant.uid) PROVE GrantsInv'
    BY <1>6, <1>7, <1>8, <1>12, <2>1, <2>2 DEF AdminGrantFinish
  <2>3. ASSUME Live(grant.uid) PROVE GrantsInv'
    <3>0. PICK w \in UserId, q \in Products : w = grant.uid /\ q = grant.product
      BY <2>1
    <3>1. /\ entitlements' = entitlements \cup {<<w, q>>} /\ Live(w)
          /\ users[w].owner = grant.owner
          /\ comped' = comped \cup {<<users[w].owner, q>>}
      BY <1>12, <2>1, <2>3, <3>0 DEF AdminGrantFinish, Meant, Live
    <3>2. Earned(w, q)'
      BY <2>1, <3>1 DEF Earned
    <3>3. users[w].owner \in People
      BY <3>1 DEF UsersInv, UserRow, Live
    <3>4. EntitlementsEarned'
      BY <1>3, <2>1, <3>1, <3>2
    <3>5. QED
      BY <1>7, <2>1, <3>1, <3>3, <3>4 DEF GrantsInv
  <2>4. QED
    BY <2>2, <2>3
<1>13. CASE UNCHANGED <<entitlements, comped, grant>> /\ ~EntitlementsTouched
  BY <1>0, <1>6, <1>13 DEF GrantsInv, EntitlementsTouched
<1>14. QED
  BY <1>4, <1>5, <1>9, <1>10, <1>11, <1>12, <1>13 DEF EntitlementsTouched

-------------------------------------------------------------------------------
(* The inductive invariant.                                                    *)

Inv ==
  /\ CoInv /\ UsersInv /\ CustInv /\ EventsInv /\ LedgerInv /\ IdentityInv /\ GrantsInv
  /\ faults \in 0 .. MaxFaults

Steps == CoStep /\ CustStep /\ UsersStep /\ EventsStep

LEMMA InitInv == Init => Inv
<1> SUFFICES ASSUME Init PROVE Inv
  OBVIOUS
<1> USE DEF Init
<1>1. NoCheckout \in Checkout /\ Filled(NoCheckout) /\ NoCheckout.pc = "none"
  <2>1. "" \in SubStatus
    BY DEF SubStatus
  <2>2. NoCheckout \in Checkout
    <3>1. 0 \in 0 .. MaxUsers
      OBVIOUS
    <3>2. QED
      BY <2>1, <3>1 DEF NoCheckout, Checkout
  <2>3. QED
    BY <2>2 DEF NoCheckout, Filled
<1>2. CoInv
  BY <1>1 DEF CoInv
<1>3. UsersInv /\ CustInv /\ EventsInv
  BY DEF UsersInv, CustInv, EventsInv
<1>4. LedgerInv
  BY IdleSound DEF LedgerInv
<1>5. IdentityInv
  BY <1>1 DEF IdentityInv, CustomerIsOwners, Live
<1>6. GrantsInv
  BY DEF GrantsInv, EntitlementsEarned, NoGrant, GrantRequest
<1>7. QED
  BY <1>2, <1>3, <1>4, <1>5, <1>6 DEF Inv

LEMMA StepsHold == ASSUME Inv, [Next]_vars PROVE Steps
<1>1. Frame
  BY StepFrame
<1>2. CoStep
  BY <1>1, CheckoutsStep DEF Inv, Frame
<1>3. CustStep
  BY <1>1, CustomersStep DEF Inv, Frame
<1>4. EventsStep
  BY <1>1, <1>2, EventsOnlyGrow DEF Inv, Frame
<1>5. UsersStep
  BY <1>1, UsersOnlyMove DEF Inv, Frame
<1>6. QED
  BY <1>2, <1>3, <1>4, <1>5 DEF Steps

LEMMA NextInv == Inv /\ [Next]_vars => Inv'
<1> SUFFICES ASSUME Inv, [Next]_vars PROVE Inv'
  OBVIOUS
<1>1. Frame
  BY StepFrame
<1>2. Steps
  BY StepsHold
<1>3. LedgerInv'
  BY <1>1, <1>2, LedgerStep DEF Inv, Steps, Frame
<1>4. IdentityInv'
  BY <1>2, IdentityStep DEF Inv, Steps
<1>5. GrantsInv'
  BY <1>1, <1>2, GrantsStep DEF Inv, Steps, Frame
<1>6. faults' \in 0 .. MaxFaults
  BY <1>1 DEF Frame, Inv
<1>7. QED
  BY <1>2, <1>3, <1>4, <1>5, <1>6
  DEF Inv, Steps, CoStep, CustStep, UsersStep, EventsStep

LEMMA Invariance == Spec => []Inv
  BY InitInv, NextInv, PTL DEF Spec

-------------------------------------------------------------------------------
(* The theorems.                                                               *)

\* In every reachable state the tables, the requests and Stripe's side have the
\* shapes TypeOK gives them.
THEOREM TypeCorrect == Spec => []TypeOK
<1>1. ASSUME Inv PROVE TypeOK
  <2>1. DOMAIN events \subseteq EventId
    BY <1>1 DEF Inv, EventsInv
  <2>2. processed \subseteq EventId /\ applied \subseteq EventId /\ acked \subseteq EventId
    BY <1>1, <2>1 DEF Inv, LedgerInv
  <2>3. QED
    BY <1>1, <2>2
    DEF Inv, TypeOK, UsersInv, CoInv, CustInv, EventsInv, LedgerInv, GrantsInv
<1>2. QED
  BY <1>1, Invariance, PTL

\* Whatever the interleaving of checkouts, webhook deliveries, admin requests,
\* deletions and new accounts: every entitlement is on the account of a person
\* who paid for it or to whom an admin gave it.
THEOREM EntitlementsAlwaysEarned == Spec => []EntitlementsEarned
<1>1. Inv => EntitlementsEarned
  BY DEF Inv, GrantsInv
<1>2. QED
  BY <1>1, Invariance, PTL

\* A row's Stripe customer is its owner's: subscription events and the billing
\* portal never act on somebody else's account.
THEOREM CustomerAlwaysOwners == Spec => []CustomerIsOwners
<1>1. Inv => CustomerIsOwners
  BY DEF Inv, IdentityInv
<1>2. QED
  BY <1>1, Invariance, PTL

\* Duplicate, concurrent, reordered and aborted deliveries never make the shop
\* answer 200 for a purchase whose grant did not reach the table.
THEOREM AckedNeverLost == Spec => []AckedNotLost
<1>1. Inv => AckedNotLost
  BY DEF Inv, LedgerInv, AckedNotLost, IsPurchase
<1>2. QED
  BY <1>1, Invariance, PTL

-------------------------------------------------------------------------------
(* Billing implements Fulfilment, but for the fairness.                        *)

LEMMA PaidOnlyByPaying ==
  ASSUME CoInv, NEW k \in Checkouts, CheckoutsTouched \/ UNCHANGED co,
         co[k].pc # "paid", co'[k].pc = "paid"
  PROVE  PaySession(k)
<1>1. co \in [Checkouts -> Checkout]
  BY DEF CoInv
<1>2. ASSUME NEW j \in Checkouts, NEW u \in UserId, NEW p \in Products, StartCheckout(j, u, p)
      PROVE FALSE
  BY <1>1, <1>2 DEF StartCheckout
<1>3. ASSUME NEW j \in Checkouts, NEW q \in {"link", "session", "open", "dead"},
             co'[j].pc = q, \A i \in Checkouts : i # j => co'[i] = co[i]
      PROVE FALSE
  BY <1>3
<1>4. ASSUME NEW j \in Checkouts, CheckoutStep(j) \/ AbortCheckout(j) PROVE FALSE
  <2>1. co[j] \in Checkout
    BY <1>1
  <2>2. \A i \in Checkouts : i # j => co'[i] = co[i]
    BY <1>1, <1>4
    DEF CheckoutStep, EnsureCustomer, LinkCustomer, OpenSession, AbortCheckout
  <2>3. co'[j].pc \in {"link", "session", "open", "dead"}
    <3>1. ASSUME EnsureCustomer(j) PROVE co'[j].pc \in {"link", "session"}
      <4>1. ASSUME co' = [co EXCEPT ![j].pc = "session"] PROVE co'[j].pc = "session"
        BY <1>1, <2>1, <4>1 DEF Checkout
      <4>2. ASSUME NEW c \in Customers, co' = [co EXCEPT ![j].cust = c, ![j].pc = "link"]
            PROVE  co'[j].pc = "link"
        <5>1. co'[j] = [co[j] EXCEPT !.cust = c, !.pc = "link"]
          BY <1>1, <4>2
        <5>2. QED
          BY <2>1, <5>1 DEF Checkout
      <4>3. QED
        BY <3>1, <4>1, <4>2 DEF EnsureCustomer
    <3>2. ASSUME LinkCustomer(j) PROVE co'[j].pc \in {"session", "dead"}
      BY <1>1, <2>1, <3>2 DEF LinkCustomer, Checkout
    <3>3. ASSUME OpenSession(j) PROVE co'[j].pc = "open"
      BY <1>1, <2>1, <3>3 DEF OpenSession, Checkout
    <3>4. ASSUME AbortCheckout(j) PROVE co'[j].pc = "dead"
      BY <1>1, <2>1, <3>4 DEF AbortCheckout, Checkout
    <3>5. QED
      BY <1>4, <3>1, <3>2, <3>3, <3>4 DEF CheckoutStep
  <2>4. QED
    BY <1>3, <2>2, <2>3
<1>5. ASSUME NEW j \in Checkouts, NEW s \in Statuses, ChangeSubscription(j, s) PROVE FALSE
  <2>1. co[j] \in Checkout
    BY <1>1
  <2>2. \A i \in Checkouts : co'[i].pc = co[i].pc
    BY <1>1, <1>5, <2>1 DEF ChangeSubscription, Checkout
  <2>3. QED
    BY <2>2
<1>6. ASSUME Crash PROVE FALSE
  <2>1. co[k] \in Checkout
    BY <1>1
  <2>2. co'[k].pc \in {"dead", co[k].pc}
    BY <1>6, <2>1 DEF Crash, Checkout
  <2>3. QED
    BY <2>2
<1>7. ASSUME NEW j \in Checkouts, PaySession(j) PROVE PaySession(k)
  BY <1>1, <1>7 DEF PaySession
<1>8. QED
  BY <1>2, <1>4, <1>5, <1>6, <1>7 DEF CheckoutsTouched

\* A step that pays nothing, delivers nothing and deletes no account leaves
\* every order where it was.
LEMMA OrderSame ==
  ASSUME Inv, Steps, NEW k \in Checkouts, \A u \in UserId : ~DeleteAccount(u),
         co'[k].pc = "paid" <=> co[k].pc = "paid", Delivered(k)' <=> Delivered(k)
  PROVE  OrderOf(k)' = OrderOf(k)
<1>0. /\ Filled(co[k]) /\ Filled(co'[k]) /\ Moves(co[k], co'[k])
      /\ \A u \in UserId : RowMoves(u)
  BY DEF Inv, CoInv, Steps, CoStep, UsersStep
<1>1. CASE co[k].pc = "none"
  <2>1. co'[k].pc # "none" => co'[k].uid \in UserId /\ Live(co'[k].uid)
    BY <1>0, <1>1 DEF Moves, Filled
  <2>2. co'[k].pc # "none" => users'[co'[k].uid] # NoRow
    BY <1>0, <2>1 DEF RowMoves
  <2>3. QED
    BY <1>1, <2>2 DEF OrderOf, Live
<1>2. CASE co[k].pc # "none"
  <2>1. co[k].uid \in UserId /\ co'[k].pc # "none" /\ co'[k].uid = co[k].uid
    BY <1>0, <1>2 DEF Filled, Moves
  <2>2. co[k].uid <= lastId /\ lastId \in 0 .. MaxUsers
    BY <1>2 DEF Inv, IdentityInv, UsersInv
  <2>3. users'[co[k].uid] = NoRow <=> ~Live(co[k].uid)
    BY <1>0, <2>1, <2>2 DEF RowMoves, Live
  <2>4. QED
    BY <1>2, <2>1, <2>3 DEF OrderOf, Live
<1>3. QED
  BY <1>1, <1>2

LEMMA DeliveredSame ==
  ASSUME Inv, EventsStep, NEW k \in Checkouts,
         \A e \in applied' \ applied : ~(events[e].of = k /\ events[e].type = "completed"),
         applied \subseteq applied', applied' \subseteq DOMAIN events
  PROVE  Delivered(k)' <=> Delivered(k)
<1>1. \A e \in applied' : events'[e] = events[e]
  BY DEF EventsStep
<1>2. QED
  BY <1>1 DEF Delivered


LEMMA RefineStep ==
  ASSUME Inv, [Next]_vars
  PROVE  [Fulfil!Next]_OrdersNow
<1>0. Steps /\ Frame
  BY StepsHold, StepFrame
<1>s. ASSUME \A k \in Checkouts : OrderOf(k)' = OrderOf(k) PROVE UNCHANGED OrdersNow
  BY <1>s DEF OrdersNow
\* Deleting an account voids its orders.
<1>1. ASSUME NEW u \in UserId, DeleteAccount(u) PROVE [Fulfil!Next]_OrdersNow
  <2> DEFINE S == {k \in Checkouts : co[k].pc # "none" /\ co[k].uid = u}
  <2>1. UNCHANGED <<co, events, applied>> /\ Live(u)
        /\ \A v \in UserId : users'[v] = IF v = u THEN NoRow ELSE users[v]
    BY <1>1 DEF DeleteAccount, Inv, UsersInv, stripe, ghosts
  <2>2. ASSUME NEW k \in Checkouts
        PROVE  OrderOf(k)' = IF k \in S THEN "void" ELSE OrderOf(k)
    <3>1. co[k].pc # "none" => co[k].uid \in UserId
      BY DEF Inv, CoInv, Filled
    <3>2. Delivered(k)' <=> Delivered(k)
      BY <2>1 DEF Delivered
    <3>3. QED
      BY <2>1, <3>1, <3>2 DEF OrderOf, Live
  <2>3. OrdersNow' = [k \in Checkouts |-> IF k \in S THEN "void" ELSE OrdersNow[k]]
    BY <2>2 DEF OrdersNow
  <2>4. Fulfil!VoidOrders(S)
    BY <2>3 DEF Fulfil!VoidOrders
  <2>5. QED
    BY <2>4 DEF Fulfil!Next
\* Paying: "new" becomes "paid", unless the account is gone.
<1>2. ASSUME NEW k \in Checkouts, PaySession(k) PROVE [Fulfil!Next]_OrdersNow
  <2>1. /\ co[k].pc = "open" /\ UNCHANGED <<users, applied>>
        /\ \A j \in Checkouts : j # k => co'[j] = co[j]
    BY <1>2 DEF PaySession, Inv, CoInv, db, ghosts
  <2>2. co'[k].pc = "paid" /\ co'[k].uid = co[k].uid
    <3>1. co[k] \in Checkout
      BY DEF Inv, CoInv
    <3>2. QED
      BY <1>2, <3>1 DEF PaySession, Inv, CoInv, Checkout
  <2>3. \A u \in UserId : ~DeleteAccount(u)
    BY <2>1 DEF DeleteAccount, Live, Inv, UsersInv
  <2>4. \A j \in Checkouts : Delivered(j)' <=> Delivered(j)
    BY <1>0, <2>1, DeliveredSame DEF Steps, Inv, LedgerInv
  <2>5. \A j \in Checkouts : j # k => OrderOf(j)' = OrderOf(j)
    BY <1>0, <2>1, <2>3, <2>4, OrderSame
  <2>6. CASE Live(co[k].uid)
    <3>1. ~Delivered(k)
      BY <2>1 DEF Delivered, Inv, LedgerInv, EventsInv, Reports
    <3>2. OrderOf(k) = "new" /\ OrderOf(k)' = "paid"
      BY <2>1, <2>2, <2>4, <2>6, <3>1 DEF OrderOf, Live
    <3>3. Fulfil!PayOrder(k)
      BY <2>5, <3>2 DEF Fulfil!PayOrder, Fulfil!Move, OrdersNow
    <3>4. QED
      BY <3>3 DEF Fulfil!Next
  <2>7. CASE ~Live(co[k].uid)
    <3>1. OrderOf(k)' = OrderOf(k)
      BY <2>1, <2>2, <2>7 DEF OrderOf, Live
    <3>2. QED
      BY <1>s, <2>5, <3>1
  <2>8. QED
    BY <2>6, <2>7
\* An apply statement that took effect: "paid" becomes "delivered", or the order
\* was delivered already, or the event was about a subscription's status.
<1>3. ASSUME NEW d \in Deliveries, dl[d].pc = "apply", applied' = applied \cup {dl[d].ev},
             UNCHANGED <<co, events>>, \A u \in UserId : ~DeleteAccount(u),
             events[dl[d].ev].type = "completed" => Live(events[dl[d].ev].uid)
      PROVE [Fulfil!Next]_OrdersNow
  <2> DEFINE e  == dl[d].ev
             k  == events[e].of
  <2>1. e \in DOMAIN events /\ events[e] \in Event /\ Reports(events[e])
    BY <1>3 DEF Inv, LedgerInv, Sound, EventsInv
  <2>2. k \in Checkouts /\ co[k].pc = "paid" /\ events[e].uid = co[k].uid /\ co[k].uid \in UserId
    BY <2>1 DEF Event, Reports
  <2>3. applied' \subseteq DOMAIN events
    BY <1>3, <2>1 DEF Inv, LedgerInv
  <2>4. ASSUME NEW j \in Checkouts, ~(j = k /\ events[e].type = "completed")
        PROVE  OrderOf(j)' = OrderOf(j)
    <3>1. Delivered(j)' <=> Delivered(j)
      BY <1>0, <1>3, <2>3, <2>4, DeliveredSame DEF Steps
    <3>2. QED
      BY <1>0, <1>3, <3>1, OrderSame
  <2>5. CASE events[e].type = "completed"
    <3>1. Live(co[k].uid) /\ users'[co[k].uid] # NoRow
      BY <1>0, <1>3, <2>2, <2>5 DEF Steps, UsersStep, RowMoves
    <3>2. PICK j \in Checkouts : j = k
      BY <2>2
    <3>3. OrderOf(j) \in {"paid", "delivered"} /\ OrderOf(j)' = "delivered"
      <4>1. Delivered(j)'
        BY <1>3, <2>5, <3>2 DEF Delivered
      <4>2. OrderOf(j)' = "delivered"
        BY <1>3, <2>2, <3>1, <3>2, <4>1 DEF OrderOf, Live
      <4>3. OrderOf(j) \in {"paid", "delivered"}
        BY <2>2, <3>1, <3>2 DEF OrderOf
      <4>4. QED
        BY <4>2, <4>3
    <3>4. \A i \in Checkouts : i # j => OrderOf(i)' = OrderOf(i)
      BY <2>4, <3>2
    <3>5. CASE OrderOf(j) = "delivered"
      BY <1>s, <3>3, <3>4, <3>5
    <3>6. CASE OrderOf(j) = "paid"
      <4>1. Fulfil!DeliverOrder(j)
        BY <3>3, <3>4, <3>6 DEF Fulfil!DeliverOrder, Fulfil!Move, OrdersNow
      <4>2. QED
        BY <4>1 DEF Fulfil!Next
    <3>7. QED
      BY <3>3, <3>5, <3>6
  <2>6. CASE events[e].type # "completed"
    BY <1>s, <2>4, <2>6
  <2>7. QED
    BY <2>5, <2>6
<1>4. ASSUME NEW d \in Deliveries, ApplyGrant(d) \/ ApplyLink(d) \/ ApplyStatus(d),
             applied' # applied
      PROVE [Fulfil!Next]_OrdersNow
  <2>1. /\ dl[d].pc = "apply" /\ applied' = applied \cup {dl[d].ev} /\ UNCHANGED <<co, events>>
        /\ events[dl[d].ev].type = "completed" => Live(events[dl[d].ev].uid)
    BY <1>4 DEF ApplyGrant, ApplyLink, ApplyStatus, Applying, stripe
  <2>2. \A u \in UserId : ~DeleteAccount(u)
    BY <2>1, <1>4 DEF DeleteAccount, ghosts
  <2>3. QED
    BY <1>3, <2>1, <2>2
<1>5. ASSUME \A u \in UserId : ~DeleteAccount(u), \A k \in Checkouts : ~PaySession(k),
             applied' = applied
      PROVE UNCHANGED OrdersNow
  <2>1. \A k \in Checkouts : co'[k].pc = "paid" <=> co[k].pc = "paid"
    BY <1>0, <1>5, PaidOnlyByPaying DEF Frame, Inv, Steps, CoStep, Moves
  <2>2. \A k \in Checkouts : Delivered(k)' <=> Delivered(k)
    BY <1>0, <1>5, DeliveredSame DEF Inv, LedgerInv, Steps
  <2>3. QED
    BY <1>0, <1>5, <1>s, <2>1, <2>2, OrderSame
<1>6. ASSUME applied' # applied
      PROVE \E d \in Deliveries : ApplyGrant(d) \/ ApplyLink(d) \/ ApplyStatus(d)
  BY <1>0, <1>6
  DEF Frame, DeliveriesTouched, DeliveryStep, ApplyEvent, Crash, AbortDelivery, Deliver,
      CheckEvent, ApplyNothing, RecordEvent, Reply, ghosts
<1>7. QED
  BY <1>1, <1>2, <1>4, <1>5, <1>6

\* Every behaviour of the handlers, with crashes, aborts and duplicate or
\* reordered events, is one of the order book: an order is delivered only after
\* it is paid, never goes back, and a deleted account's orders stay void.
THEOREM ImplementsFulfilmentSafety == Spec => Fulfil!Spec
<1>1. Init => Fulfil!Init
  <2>1. ASSUME Init, NEW k \in Checkouts PROVE OrderOf(k) = "new"
    BY <2>1 DEF Init, NoCheckout, OrderOf, Delivered
  <2>2. QED
    BY <2>1 DEF Fulfil!Init, OrdersNow
<1>2. Inv /\ [Next]_vars => [Fulfil!Next]_OrdersNow
  BY RefineStep
<1>3. QED
  BY <1>1, <1>2, Invariance, PTL DEF Spec, Fulfil!Spec

-------------------------------------------------------------------------------
(* With Stripe delivering in order and users on fresh pages: a checkout and    *)
(* its row agree about the customer, a subscription's status is that of its    *)
(* newest event, and a row shows the newest event recorded for its customer.   *)

StatusEvents(evs) == {e \in DOMAIN evs : evs[e].type \in {"updated", "deleted"}}
About(k)          == {e \in StatusEvents(events) : events[e].of = k}
UpTo(evs, c, n)   == {e \in StatusEvents(evs) : evs[e].cust = c /\ e <= n}

\* s is the status that the newest of the events E of evs reports.
Newest(evs, E, s) ==
  \/ E = {} /\ s = ""
  \/ \E e \in E : evs[e].status = s /\ \A f \in E : f <= e

Linked(k) == co[k].pc \in {"session", "open", "paid"}
IsSub(k)  == co[k].pc # "none" /\ co[k].product \in Subs

\* Checkout k and the rows: k's own row has k's customer, no other row has it;
\* a customer not yet stored is nobody else's; a subscription is the only one
\* of its customer.
Agrees(k) ==
  /\ Live(co[k].uid) =>
       /\ co[k].pc = "ensure" \/ Linked(k) => users[co[k].uid].cust = co[k].cust
       /\ co[k].pc = "link" => users[co[k].uid].cust = NoCust
  /\ co[k].cust # NoCust =>
       /\ \A u \in UserId : Live(u) /\ users[u].cust = co[k].cust => u = co[k].uid
       /\ co[k].pc = "link" =>
            \A j \in Checkouts : co[j].pc # "none" /\ co[j].cust = co[k].cust => j = k
       /\ IsSub(k) => \A j \in Checkouts : IsSub(j) /\ co[j].cust = co[k].cust => j = k
  /\ IsSub(k) /\ co[k].pc = "ensure" => co[k].cust = NoCust

Matched ==
  /\ \A j, k \in Checkouts : InHandler(j) /\ InHandler(k) /\ co[j].owner = co[k].owner => j = k
  /\ \A k \in Checkouts : co[k].pc # "none" => Agrees(k)
  /\ \A u, v \in UserId :
       Live(u) /\ Live(v) /\ users[u].cust = users[v].cust => u = v \/ users[u].cust = NoCust

SubsInv ==
  /\ \A e \in StatusEvents(events) : events[e].product \in Subs
  /\ \A k \in Checkouts : Newest(events, About(k), co[k].sub)

\* The row of u shows the newest of the first n events for its customer.
Reflects(u, n) ==
  Live(u) => IF users[u].cust = NoCust THEN users[u].status = ""
             ELSE Newest(events, UpTo(events, users[u].cust, n), users[u].status)

\* The first n events are recorded; the next one may be under way, and applied.
Turn(n) ==
  /\ processed = 1 .. n
  /\ \A c, d \in Deliveries : dl[c].pc # "idle" /\ dl[d].pc # "idle" => c = d
  /\ \A d \in Deliveries :
       /\ dl[d].pc # "idle" => dl[d].ev <= n + 1
       /\ dl[d].pc \in {"apply", "record"} => dl[d].ev = n + 1
       /\ dl[d].pc = "record" => \A u \in UserId : Reflects(u, n + 1)
  /\ \A u \in UserId : Reflects(u, n) \/ (n < Len(events) /\ Reflects(u, n + 1))

TurnInv == \E n \in 0 .. Len(events) : Turn(n)

OrderlyInv == Matched /\ SubsInv /\ TurnInv

\* A step after which the checkouts and rows that are left agree as before.
LEMMA StaysMatched ==
  ASSUME CoInv, UsersInv, IdentityInv, Matched,
         \A k \in Checkouts :
           /\ co'[k].uid = co[k].uid /\ co'[k].owner = co[k].owner
           /\ co'[k].cust = co[k].cust /\ co'[k].product = co[k].product
           /\ \/ co'[k].pc = co[k].pc
              \/ Linked(k) /\ co'[k].pc \in {"open", "paid"}
              \/ InHandler(k) /\ co'[k].pc = "dead",
         \A u \in UserId : users'[u] # NoRow =>
           \/ Live(u) /\ users'[u].cust = users[u].cust
           \/ u = lastId + 1 /\ users'[u].cust = NoCust
  PROVE  Matched'
<1>0. \A k \in Checkouts : co[k] \in Checkout /\ Filled(co[k])
  BY DEF CoInv
<1>1. \A k \in Checkouts : InHandler(k)' => InHandler(k)
  BY DEF InHandler, Linked
<1>2. \A k \in Checkouts : IsSub(k)' <=> IsSub(k)
  BY DEF IsSub, Linked, InHandler
<1>3. \A k \in Checkouts : co'[k].pc # "none" => co[k].pc # "none"
  BY DEF Linked, InHandler
<1>4. ASSUME NEW k \in Checkouts, co'[k].pc # "none" PROVE Agrees(k)'
  <2>1. Agrees(k) /\ co[k].uid \in UserId /\ co[k].uid # lastId + 1 /\ co[k].pc # "none"
    <3>1. co[k].pc # "none"
      BY <1>3, <1>4
    <3>2. Agrees(k) /\ co[k].uid \in UserId /\ co[k].uid <= lastId
      BY <1>0, <3>1 DEF Matched, Filled, IdentityInv
    <3>3. QED
      BY <3>1, <3>2 DEF UsersInv
  <2>2. users'[co[k].uid] # NoRow => Live(co[k].uid) /\ users'[co[k].uid].cust = users[co[k].uid].cust
    BY <2>1
  <2>3. /\ (co'[k].pc = "ensure" \/ Linked(k)') => (co[k].pc = "ensure" \/ Linked(k))
        /\ co'[k].pc = "link" => co[k].pc = "link"
    BY DEF Linked, InHandler
  <2>4. users'[co'[k].uid] # NoRow =>
          /\ co'[k].pc = "ensure" \/ Linked(k)' => users'[co'[k].uid].cust = co'[k].cust
          /\ co'[k].pc = "link" => users'[co'[k].uid].cust = NoCust
    BY <2>1, <2>2, <2>3 DEF Agrees, Live
  <2>5. ASSUME co[k].cust # NoCust
        PROVE  /\ \A u \in UserId : users'[u] # NoRow /\ users'[u].cust = co'[k].cust => u = co'[k].uid
               /\ co'[k].pc = "link" =>
                    \A j \in Checkouts : co'[j].pc # "none" /\ co'[j].cust = co'[k].cust => j = k
               /\ IsSub(k)' => \A j \in Checkouts : IsSub(j)' /\ co'[j].cust = co'[k].cust => j = k
    BY <1>2, <1>3, <2>1, <2>3, <2>5 DEF Agrees
  <2>6. IsSub(k)' /\ co'[k].pc = "ensure" => co'[k].cust = NoCust
    BY <1>2, <2>1 DEF Agrees, Linked, InHandler
  <2>7. QED
    BY <2>4, <2>5, <2>6 DEF Agrees, Live
<1>5. \A u, v \in UserId :
        users'[u] # NoRow /\ users'[v] # NoRow /\ users'[u].cust = users'[v].cust =>
          u = v \/ users'[u].cust = NoCust
  BY DEF Matched, Live
<1>6. QED
  BY <1>1, <1>4, <1>5 DEF Matched, Live

LEMMA StartMatched ==
  ASSUME Orderly, CoInv, UsersInv, IdentityInv, Matched,
         NEW k \in Checkouts, NEW u \in UserId, NEW p \in Products, StartCheckout(k, u, p)
  PROVE  Matched'
<1>1. /\ Live(u) /\ users' = users /\ co[k].pc = "none" /\ p \in Available
      /\ \A j \in Checkouts : InHandler(j) => co[j].owner # users[u].owner
      /\ p \in Subs => users[u].cust = NoCust
      /\ co'[k].pc = "ensure" /\ co'[k].uid = u /\ co'[k].cust = users[u].cust
      /\ co'[k].product = p /\ co'[k].owner = users[u].owner
      /\ \A j \in Checkouts : j # k => co'[j] = co[j]
  BY DEF StartCheckout, Offered, CoInv, db
<1>2. \A i, j \in Checkouts : InHandler(i)' /\ InHandler(j)' /\ co'[i].owner = co'[j].owner => i = j
  BY <1>1 DEF Matched, InHandler
\* A checkout that is not linked yet keeps its customer from every row.
<1>a. ASSUME NEW j \in Checkouts, co[j].pc = "link", co[j].cust # NoCust
      PROVE  users[u].cust # co[j].cust
  <2>1. Agrees(j)
    BY <1>a DEF Matched
  <2>2. QED
    BY <1>1, <1>a, <2>1 DEF Agrees
<1>3. Agrees(k)'
  BY <1>1 DEF Agrees, Matched, Live, IsSub, Linked
<1>4. ASSUME NEW j \in Checkouts, j # k, co[j].pc # "none" PROVE Agrees(j)'
  <2>1. Agrees(j) /\ co'[j] = co[j]
    BY <1>1, <1>4 DEF Matched
  <2>2. IsSub(k)' => co'[k].cust = NoCust
    BY <1>1 DEF IsSub
  <2>3. \A i \in Checkouts : i # k => (IsSub(i)' <=> IsSub(i))
    BY <1>1 DEF IsSub
  <2>4. co[j].pc = "link" /\ co[j].cust # NoCust => co'[k].cust # co[j].cust
    BY <1>1, <1>a
  <2>5. QED
    BY <1>1, <1>4, <2>1, <2>2, <2>3, <2>4 DEF Agrees, Live, Linked
<1>5. QED
  BY <1>1, <1>2, <1>3, <1>4 DEF Matched, Live

LEMMA EnsureMatched ==
  ASSUME CoInv, UsersInv, CustInv, IdentityInv, Matched, NEW k \in Checkouts, EnsureCustomer(k)
  PROVE  Matched'
<1>0. \A j \in Checkouts : co[j] \in Checkout /\ Filled(co[j])
  BY DEF CoInv
<1>a. \/ co[k].cust # NoCust /\ co' = [co EXCEPT ![k].pc = "session"]
      \/ \E c \in Customers : /\ co[k].cust = NoCust /\ customers[c] = NoPerson
                              /\ co' = [co EXCEPT ![k].cust = c, ![k].pc = "link"]
  BY DEF EnsureCustomer
<1>b. \/ co[k].cust # NoCust /\ co' = [co EXCEPT ![k] = [co[k] EXCEPT !.pc = "session"]]
      \/ \E c \in Customers :
           /\ co[k].cust = NoCust /\ customers[c] = NoPerson
           /\ co' = [co EXCEPT ![k] = [co[k] EXCEPT !.cust = c, !.pc = "link"]]
  BY <1>a
<1>c. /\ co'[k].uid = co[k].uid /\ co'[k].owner = co[k].owner /\ co'[k].product = co[k].product
      /\ \/ co[k].cust # NoCust /\ co'[k].cust = co[k].cust /\ co'[k].pc = "session"
         \/ /\ co[k].cust = NoCust /\ co'[k].cust \in Customers /\ co'[k].pc = "link"
            /\ customers[co'[k].cust] = NoPerson
      /\ \A j \in Checkouts : j # k => co'[j] = co[j]
  <2>1. CASE co[k].cust # NoCust /\ co' = [co EXCEPT ![k] = [co[k] EXCEPT !.pc = "session"]]
    BY <1>0, <2>1 DEF CoInv, Checkout
  <2>2. ASSUME NEW c \in Customers, co[k].cust = NoCust, customers[c] = NoPerson,
               co' = [co EXCEPT ![k] = [co[k] EXCEPT !.cust = c, !.pc = "link"]]
        PROVE  /\ co'[k].uid = co[k].uid /\ co'[k].owner = co[k].owner
               /\ co'[k].product = co[k].product /\ co'[k].cust = c /\ co'[k].pc = "link"
               /\ \A j \in Checkouts : j # k => co'[j] = co[j]
    BY <1>0, <2>2 DEF CoInv, Checkout
  <2>3. QED
    BY <1>b, <2>1, <2>2
<1>1. /\ users' = users /\ co[k].pc = "ensure" /\ Agrees(k)
      /\ co'[k].uid = co[k].uid /\ co'[k].owner = co[k].owner /\ co'[k].product = co[k].product
      /\ co'[k].pc \in {"link", "session"}
      /\ \A j \in Checkouts : j # k => co'[j] = co[j]
  BY <1>c DEF EnsureCustomer, db, Matched
<1>2. \A j \in Checkouts : InHandler(j)' => InHandler(j)
  BY <1>1 DEF InHandler
<1>3. \A j \in Checkouts : IsSub(j)' <=> IsSub(j)
  BY <1>1 DEF IsSub
<1>4. CASE co[k].cust # NoCust /\ co'[k].cust = co[k].cust /\ co'[k].pc = "session"
  <2>1. Agrees(k)'
    BY <1>1, <1>3, <1>4 DEF Agrees, Live, Linked
  <2>2. ASSUME NEW j \in Checkouts, j # k, co[j].pc # "none" PROVE Agrees(j)'
    <3>1. Agrees(j) /\ co'[j] = co[j]
      BY <1>1, <2>2 DEF Matched
    <3>2. QED
      BY <1>1, <1>3, <1>4, <2>2, <3>1 DEF Agrees, Live, Linked
  <2>3. QED
    BY <1>1, <1>2, <2>1, <2>2 DEF Matched, Live
<1>5. CASE /\ co[k].cust = NoCust /\ co'[k].cust \in Customers /\ co'[k].pc = "link"
           /\ customers[co'[k].cust] = NoPerson
  <2>1. ASSUME NEW j \in Checkouts, co'[j].pc # "none", co'[j].cust = co'[k].cust PROVE j = k
    <3>1. SUFFICES ASSUME j # k PROVE FALSE
      OBVIOUS
    <3>2. co[j].pc # "none" /\ co[j].cust = co'[k].cust /\ co[j].cust # NoCust
      BY <1>1, <1>5, <2>1, <3>1
    <3>3. customers[co[j].cust] = co[j].owner /\ co[j].owner \in People
      BY <1>0, <3>2 DEF IdentityInv, Filled
    <3>4. QED
      BY <1>5, <3>2, <3>3
  <2>2. ASSUME NEW u \in UserId, Live(u) PROVE users[u].cust # co'[k].cust
    <3>1. users[u] \in UserRow
      BY <2>2 DEF Live, UsersInv
    <3>2. QED
      BY <1>5, <2>2, <3>1 DEF IdentityInv, CustomerIsOwners, UserRow
  <2>3. Agrees(k)'
    BY <1>1, <1>5, <2>1, <2>2 DEF Agrees, Live, Linked, IsSub
  <2>4. ASSUME NEW j \in Checkouts, j # k, co[j].pc # "none" PROVE Agrees(j)'
    <3>1. Agrees(j) /\ co'[j] = co[j]
      BY <1>1, <2>4 DEF Matched
    <3>2. QED
      BY <1>1, <1>3, <2>1, <2>4, <3>1 DEF Agrees, Live, Linked
  <2>5. QED
    BY <1>1, <1>2, <2>3, <2>4 DEF Matched, Live
<1>6. QED
  BY <1>4, <1>5, <1>c

LEMMA LinkMatched ==
  ASSUME CoInv, UsersInv, IdentityInv, Matched, NEW k \in Checkouts, LinkCustomer(k)
  PROVE  /\ Matched'
         /\ \A u \in UserId :
              /\ users'[u] # NoRow => Live(u)
              /\ u # co[k].uid => users'[u] = users[u]
              /\ u = co[k].uid /\ Live(u) =>
                   /\ users[u].cust = NoCust /\ users'[u].cust = co[k].cust
                   /\ users'[u].status = users[u].status
<1>0. \A j \in Checkouts : co[j] \in Checkout /\ Filled(co[j])
  BY DEF CoInv
<1>1. co[k].pc = "link" /\ Agrees(k) /\ co[k].cust # NoCust /\ co[k].uid \in UserId
  BY <1>0 DEF LinkCustomer, Matched, Filled
<1>2. ~CustomerTaken(co[k].uid, co[k].cust)
  BY <1>1 DEF CustomerTaken, Agrees
<1>3. users' = WithCustomer(co[k].uid, co[k].cust) /\ co' = [co EXCEPT ![k].pc = "session"]
  BY <1>2 DEF LinkCustomer
<1>4. \A u \in UserId :
        /\ users'[u] # NoRow => Live(u)
        /\ u # co[k].uid => users'[u] = users[u]
        /\ u = co[k].uid /\ Live(u) =>
             /\ users[u].cust = NoCust /\ users'[u].cust = co[k].cust
             /\ users'[u].status = users[u].status
  <2>1. \A u \in UserId : Live(u) => users[u] \in UserRow
    BY DEF UsersInv, Live
  <2>2. QED
    BY <1>1, <1>3, <2>1 DEF WithCustomer, UsersInv, UserRow, Live, Agrees
<1>5. /\ co'[k].uid = co[k].uid /\ co'[k].owner = co[k].owner
      /\ co'[k].product = co[k].product /\ co'[k].cust = co[k].cust /\ co'[k].pc = "session"
      /\ \A j \in Checkouts : j # k => co'[j] = co[j]
  BY <1>0, <1>3 DEF CoInv, Checkout
<1>6. \A j \in Checkouts : InHandler(j)' => InHandler(j)
  BY <1>1, <1>5 DEF InHandler
<1>7. \A j \in Checkouts : IsSub(j)' <=> IsSub(j)
  BY <1>1, <1>5 DEF IsSub
<1>8. Agrees(k)'
  BY <1>1, <1>4, <1>5, <1>7 DEF Agrees, Live, Linked
<1>9. ASSUME NEW j \in Checkouts, j # k, co[j].pc # "none" PROVE Agrees(j)'
  <2>0. ASSUME InHandler(j), Live(co[k].uid) PROVE co[j].uid # co[k].uid
    <3>1. co[j].owner # co[k].owner
      BY <1>1, <1>9, <2>0 DEF Matched, InHandler
    <3>2. QED
      BY <1>1, <1>9, <2>0, <3>1 DEF IdentityInv
  <2>1. /\ Agrees(j) /\ co'[j] = co[j] /\ co[j].cust # co[k].cust
        /\ co[j].uid \in UserId
    BY <1>0, <1>1, <1>5, <1>9 DEF Matched, Agrees, Filled
  <2>2. Linked(j) => co[j].cust # NoCust
    BY <1>0, <2>1 DEF Linked, Filled
  <2>3. Live(co[j].uid)' /\ Linked(j) => co[j].uid # co[k].uid
    BY <1>1, <1>4, <2>1, <2>2 DEF Agrees, Live
  <2>4. QED
    BY <1>1, <1>4, <1>5, <1>7, <2>0, <2>1, <2>2, <2>3 DEF Agrees, Live, Linked, InHandler
<1>10. ASSUME NEW u \in UserId, NEW v \in UserId, users'[u] # NoRow, users'[v] # NoRow,
              users'[u].cust = users'[v].cust
       PROVE  u = v \/ users'[u].cust = NoCust
  BY <1>1, <1>4, <1>10 DEF Matched, Agrees, Live
<1>11. QED
  BY <1>4, <1>5, <1>6, <1>8, <1>9, <1>10 DEF Matched, Live

\* What becomes of a row that is neither linked nor given a status.
RowKept(u) ==
  users'[u] # NoRow =>
    \/ Live(u) /\ users'[u].cust = users[u].cust /\ users'[u].status = users[u].status
    \/ u = lastId + 1 /\ users'[u].cust = NoCust /\ users'[u].status = ""

LEMMA StatusKeepsCustomers ==
  ASSUME UsersInv, NEW c, NEW s \in SubStatus, users' = WithStatus(c, s), NEW u \in UserId
  PROVE  /\ Live(u)' <=> Live(u)
         /\ Live(u) => /\ users'[u].cust = users[u].cust
                       /\ users[u].cust = c => users'[u].status = s
                       /\ users[u].cust # c => users'[u].status = users[u].status
<1>1. Live(u) => users[u] \in UserRow /\ NoRow \notin UserRow
  BY DEF UsersInv, Live, BillingAssumption
<1>2. users'[u] = IF Live(u) /\ users[u].cust = c
                  THEN [users[u] EXCEPT !.status = s] ELSE users[u]
  BY DEF WithStatus
<1>3. CASE Live(u) /\ users[u].cust = c
  <2>1. users[u] \in UserRow
    BY <1>1, <1>3
  <2>2. users'[u] \in UserRow /\ users'[u].cust = c /\ users'[u].status = s
    BY <1>2, <1>3, <2>1 DEF UserRow
  <2>3. QED
    BY <1>1, <1>3, <2>2 DEF Live
<1>4. CASE ~(Live(u) /\ users[u].cust = c)
  BY <1>2, <1>4 DEF Live
<1>5. QED
  BY <1>3, <1>4

LEMMA RowsStep ==
  ASSUME Inv, Matched, UsersTouched \/ UNCHANGED <<users, lastId>>
  PROVE  \/ \E k \in Checkouts : LinkCustomer(k)
         \/ \E d \in Deliveries : ApplyStatus(d)
         \/ \A u \in UserId : RowKept(u)
<1>0. UsersInv
  BY DEF Inv
<1>1. ASSUME NEW p \in People, SignUp(p) PROVE \A u \in UserId : RowKept(u)
  BY <1>0, <1>1 DEF SignUp, UsersInv, RowKept, Live, NextId
<1>2. ASSUME NEW w \in UserId, DeleteAccount(w) PROVE \A u \in UserId : RowKept(u)
  BY <1>0, <1>2 DEF DeleteAccount, UsersInv, RowKept, Live
<1>3. ASSUME NEW d \in Deliveries, ApplyLink(d) PROVE \A u \in UserId : RowKept(u)
  <2> DEFINE ev == events[dl[d].ev]
  <2>1. dl[d].ev \in DOMAIN events
    BY <1>3 DEF Inv, LedgerInv, Sound, ApplyLink, Applying
  <2>2. ev \in Event /\ Reports(ev)
    BY <2>1 DEF Inv, EventsInv
  <2>3. PICK k \in Checkouts : k = ev.of
    BY <2>2 DEF Event
  <2>4. co[k].pc = "paid" /\ ev.uid = co[k].uid /\ ev.cust = co[k].cust /\ ev.uid \in UserId
    BY <2>2, <2>3 DEF Reports, Event
  <2>5. Live(ev.uid) => users[ev.uid].cust = ev.cust /\ users[ev.uid] \in UserRow
    BY <1>0, <2>4 DEF Matched, Agrees, Linked, UsersInv, Live
  <2>6. users' \in {users, WithCustomer(ev.uid, ev.cust)}
    BY <1>3 DEF ApplyLink
  <2>7. ASSUME NEW u \in UserId, users'[u] # NoRow
        PROVE Live(u) /\ users'[u].cust = users[u].cust /\ users'[u].status = users[u].status
    <3>1. CASE users' = users
      BY <2>7, <3>1 DEF Live
    <3>2. CASE users' = WithCustomer(ev.uid, ev.cust)
      <4>0. u # ev.uid => users'[u] = users[u]
        BY <1>0, <2>4, <3>2 DEF WithCustomer, UsersInv
      <4>1. u = ev.uid => users'[u] = IF users[u] = NoRow THEN NoRow ELSE [users[u] EXCEPT !.cust = ev.cust]
        BY <1>0, <2>4, <3>2 DEF WithCustomer, UsersInv
      <4>2. u = ev.uid => Live(u)
        BY <2>7, <4>1 DEF Live
      <4>3. u = ev.uid => users'[u].cust = users[u].cust /\ users'[u].status = users[u].status
        BY <2>5, <4>1, <4>2 DEF Live, UserRow
      <4>4. QED
        BY <2>7, <4>0, <4>2, <4>3 DEF Live
    <3>3. QED
      BY <2>6, <3>1, <3>2
  <2>8. QED
    BY <2>7 DEF RowKept
<1>4. CASE UNCHANGED <<users, lastId>>
  BY <1>4 DEF RowKept, Live
<1>5. QED
  BY <1>1, <1>2, <1>3, <1>4 DEF UsersTouched

LEMMA MatchedStep ==
  ASSUME Orderly, Inv, Matched, [Next]_vars
  PROVE  Matched'
<1>0. Frame /\ CoInv /\ UsersInv /\ CustInv /\ IdentityInv
  BY StepFrame DEF Inv
<1>1. ASSUME NEW k \in Checkouts, NEW u \in UserId, NEW p \in Products, StartCheckout(k, u, p)
      PROVE Matched'
  BY <1>0, <1>1, StartMatched
<1>2. ASSUME NEW k \in Checkouts, EnsureCustomer(k) PROVE Matched'
  BY <1>0, <1>2, EnsureMatched
<1>3. ASSUME NEW k \in Checkouts, LinkCustomer(k) PROVE Matched'
  BY <1>0, <1>3, LinkMatched
<1>4. ASSUME \A k \in Checkouts : ~EnsureCustomer(k) /\ ~LinkCustomer(k),
             \A k \in Checkouts, u \in UserId, p \in Products : ~StartCheckout(k, u, p)
      PROVE Matched'
  <2>1. \A u \in UserId : users'[u] # NoRow =>
           \/ Live(u) /\ users'[u].cust = users[u].cust
           \/ u = lastId + 1 /\ users'[u].cust = NoCust
    <3>1. CASE \E d \in Deliveries : ApplyStatus(d)
      <4>1. PICK d \in Deliveries : ApplyStatus(d)
        BY <3>1
      <4>2. dl[d].ev \in DOMAIN events
        BY <4>1 DEF Inv, LedgerInv, Sound, ApplyStatus, Applying
      <4>3. events[dl[d].ev].status \in SubStatus
        <5>1. events[dl[d].ev] \in Event
          BY <4>2 DEF Inv, EventsInv
        <5>2. QED
          BY <5>1 DEF Event
      <4>4. QED
        BY <1>0, <4>1, <4>3, StatusKeepsCustomers DEF ApplyStatus, Live
    <3>2. CASE \A u \in UserId : RowKept(u)
      BY <3>2 DEF RowKept
    <3>3. QED
      BY <1>0, <1>4, <3>1, <3>2, RowsStep DEF Frame
  <2>2. ASSUME NEW k \in Checkouts
        PROVE  /\ co'[k].uid = co[k].uid /\ co'[k].owner = co[k].owner
               /\ co'[k].cust = co[k].cust /\ co'[k].product = co[k].product
               /\ \/ co'[k].pc = co[k].pc
                  \/ Linked(k) /\ co'[k].pc \in {"open", "paid"}
                  \/ InHandler(k) /\ co'[k].pc = "dead"
    <3>0. co \in [Checkouts -> Checkout] /\ co[k] \in Checkout
      BY <1>0 DEF CoInv
    <3>1. CASE Crash
      BY <3>0, <3>1 DEF Crash, Checkout
    <3>2. ASSUME NEW j \in Checkouts, OpenSession(j) \/ AbortCheckout(j) \/ PaySession(j)
          PROVE  /\ co'[k].uid = co[k].uid /\ co'[k].owner = co[k].owner
                 /\ co'[k].cust = co[k].cust /\ co'[k].product = co[k].product
                 /\ \/ co'[k].pc = co[k].pc
                    \/ Linked(k) /\ co'[k].pc \in {"open", "paid"}
                    \/ InHandler(k) /\ co'[k].pc = "dead"
      <4>2. CASE OpenSession(j)
        BY <3>0, <4>2 DEF OpenSession, Checkout, Linked
      <4>3. CASE AbortCheckout(j)
        BY <3>0, <4>3 DEF AbortCheckout, Checkout
      <4>4. CASE PaySession(j)
        <5> DEFINE s == IF co[j].product \in Subs THEN "active" ELSE ""
        <5>1. co' = [co EXCEPT ![j] = [co[j] EXCEPT !.pc = "paid", !.sub = s]]
          BY <4>4 DEF PaySession
        <5>2. co[j].pc = "open"
          BY <4>4 DEF PaySession
        <5> HIDE DEF s
        <5>3. QED
          BY <3>0, <5>1, <5>2 DEF Checkout, Linked
      <4>5. QED
        BY <3>2, <4>2, <4>3, <4>4
    <3>3. ASSUME NEW j \in Checkouts, NEW s \in Statuses, ChangeSubscription(j, s)
          PROVE  /\ co'[k].uid = co[k].uid /\ co'[k].owner = co[k].owner
                 /\ co'[k].cust = co[k].cust /\ co'[k].product = co[k].product
                 /\ co'[k].pc = co[k].pc
      BY <3>0, <3>3 DEF ChangeSubscription, Checkout
    <3>4. QED
      BY <1>0, <1>4, <3>1, <3>2, <3>3 DEF Frame, CheckoutsTouched, CheckoutStep
  <2>3. QED
    BY <1>0, <2>1, <2>2, StaysMatched
<1>5. QED
  BY <1>1, <1>2, <1>3, <1>4

\* What a step adds to the status events: nothing, or the new status of one
\* subscription.
StatusNews(k) ==
  /\ StatusEvents(events') = StatusEvents(events) \cup {Len(events) + 1}
  /\ events'[Len(events) + 1].of = k /\ events'[Len(events) + 1].status = co'[k].sub
  /\ co[k].product \in Subs /\ events'[Len(events) + 1].product = co[k].product
  /\ \A j \in Checkouts : j # k => co'[j].sub = co[j].sub

NoStatusNews ==
  /\ StatusEvents(events') = StatusEvents(events)
  /\ \A j \in Checkouts : co'[j].sub = co[j].sub

LEMMA AppendOne ==
  ASSUME EventsInv, NEW ev \in Event,
         \/ events' = Append(events, ev) \/ events' = events \o <<ev>>
         \/ \E x \in Event : x.type = "completed" /\ events' = events \o <<ev, x>>
  PROVE  /\ ev.type \in {"updated", "deleted"} =>
              /\ StatusEvents(events') = StatusEvents(events) \cup {Len(events) + 1}
              /\ events'[Len(events) + 1] = ev
         /\ ev.type \notin {"updated", "deleted"} => StatusEvents(events') = StatusEvents(events)
<1> DEFINE n == Len(events)
<1>1. events \in Seq(Event) /\ n \in Nat /\ DOMAIN events = 1 .. n
  BY DEF EventsInv
<1>2. CASE events' = Append(events, ev) \/ events' = events \o <<ev>>
  <2>1. DOMAIN events' = 1 .. n + 1 /\ events'[n + 1] = ev /\ \A i \in 1 .. n : events'[i] = events[i]
    BY <1>1, <1>2
  <2>2. QED
    BY <1>1, <2>1 DEF StatusEvents
<1>3. ASSUME NEW x \in Event, x.type = "completed", events' = events \o <<ev, x>>
      PROVE  /\ ev.type \in {"updated", "deleted"} =>
                  /\ StatusEvents(events') = StatusEvents(events) \cup {n + 1}
                  /\ events'[n + 1] = ev
             /\ ev.type \notin {"updated", "deleted"} => StatusEvents(events') = StatusEvents(events)
  <2>1. /\ DOMAIN events' = 1 .. n + 2 /\ events'[n + 1] = ev /\ events'[n + 2] = x
        /\ \A i \in 1 .. n : events'[i] = events[i]
    BY <1>1, <1>3
  <2>2. QED
    BY <1>1, <1>3, <2>1 DEF StatusEvents
<1>4. QED
  BY <1>2, <1>3

\* The newest event stays the newest while only later ones are added.
LEMMA NewestStays ==
  ASSUME NEW evs, NEW evs2, NEW E, NEW s, Newest(evs, E, s), \A e \in E : evs2[e] = evs[e]
  PROVE  Newest(evs2, E, s)
  BY DEF Newest

LEMMA StatusStep ==
  ASSUME Inv, SubsInv, Steps, Frame
  PROVE  NoStatusNews \/ \E k \in Checkouts : StatusNews(k)
<1>0. CoInv /\ EventsInv /\ (\A k \in Checkouts : co[k] \in Checkout /\ Filled(co[k]))
  BY DEF Inv, CoInv
<1>1. ASSUME NEW k \in Checkouts, PaySession(k)
      PROVE NoStatusNews \/ StatusNews(k)
  <2> DEFINE up   == EventOf(k, "updated", "active")
             done == EventOf(k, "completed", "")
  <2>1. co[k].pc = "open" /\ co[k].sub = "" /\ \A j \in Checkouts : j # k => co'[j] = co[j]
    BY <1>0, <1>1 DEF PaySession, CoInv, Filled
  <2>2. up \in Event /\ done \in Event /\ up.type = "updated" /\ done.type = "completed"
        /\ up.of = k /\ up.status = "active" /\ up.product = co[k].product
    <3>1. "active" \in SubStatus /\ "" \in SubStatus
      BY DEF SubStatus
    <3>2. up \in Event /\ done \in Event
      BY <1>0, <2>1, <3>1, EventOfEvent
    <3>3. QED
      BY <3>2 DEF EventOf
  <2> HIDE DEF up, done
  <2>3. CASE co[k].product \in Subs
    <3>1. events' = events \o <<up, done>> /\ co'[k].sub = "active"
      BY <1>0, <1>1, <2>3 DEF PaySession, CoInv, Checkout, up, done
    <3>3. /\ StatusEvents(events') = StatusEvents(events) \cup {Len(events) + 1}
          /\ events'[Len(events) + 1] = up
      BY <1>0, <2>2, <3>1, AppendOne
    <3>4. QED
      BY <2>1, <2>2, <2>3, <3>1, <3>3 DEF StatusNews
  <2>4. CASE co[k].product \notin Subs
    <3>1. events' = events \o <<done>> /\ co'[k].sub = ""
      BY <1>0, <1>1, <2>2, <2>4 DEF PaySession, CoInv, Checkout, done
    <3>2. StatusEvents(events') = StatusEvents(events)
      BY <1>0, <2>2, <3>1, AppendOne
    <3>3. QED
      BY <2>1, <3>1, <3>2 DEF NoStatusNews
  <2>5. QED
    BY <2>3, <2>4
<1>2. ASSUME NEW k \in Checkouts, NEW s \in Statuses, ChangeSubscription(k, s)
      PROVE StatusNews(k)
  <2> DEFINE ev == EventOf(k, IF s = "canceled" THEN "deleted" ELSE "updated", s)
  <2>1. /\ co[k].pc = "paid" /\ co'[k].sub = s /\ \A j \in Checkouts : j # k => co'[j] = co[j]
        /\ co[k].sub # "" /\ events' = Append(events, ev)
    BY <1>0, <1>2 DEF ChangeSubscription, CoInv, Filled, Checkout
  <2>2. ev \in Event /\ ev.type \in {"updated", "deleted"} /\ ev.of = k /\ ev.status = s
        /\ ev.product = co[k].product
    <3>1. s \in SubStatus
      OBVIOUS
    <3>2. ev \in Event
      BY <1>0, <2>1, <3>1, EventOfEvent
    <3>3. QED
      BY <3>2 DEF EventOf
  <2>3. co[k].product \in Subs
    <3>1. PICK e \in About(k) : TRUE
      BY <2>1 DEF SubsInv, Newest
    <3>2. e \in StatusEvents(events) /\ events[e].of = k /\ Reports(events[e])
      BY <1>0, <3>1 DEF About, StatusEvents, EventsInv
    <3>3. QED
      BY <3>2 DEF SubsInv, Reports
  <2> HIDE DEF ev
  <2>5. StatusEvents(events') = StatusEvents(events) \cup {Len(events) + 1} /\ events'[Len(events) + 1] = ev
    BY <1>0, <2>1, <2>2, AppendOne
  <2>6. QED
    BY <2>1, <2>2, <2>3, <2>5 DEF StatusNews
<1>3. ASSUME NEW k \in Checkouts, OtherEvent(k) PROVE NoStatusNews
  <2> DEFINE ev == EventOf(k, "other", "")
  <2>1. co[k].pc = "paid" /\ co' = co /\ events' = Append(events, ev)
    BY <1>3 DEF OtherEvent
  <2>2. ev \in Event /\ ev.type = "other"
    <3>1. "" \in SubStatus
      BY DEF SubStatus
    <3>2. ev \in Event
      BY <1>0, <2>1, <3>1, EventOfEvent
    <3>3. QED
      BY <3>2 DEF EventOf
  <2> HIDE DEF ev
  <2>5. StatusEvents(events') = StatusEvents(events)
    BY <1>0, <2>1, <2>2, AppendOne
  <2>6. QED
    BY <2>1, <2>5 DEF NoStatusNews
<1>4. ASSUME UNCHANGED events, \A k \in Checkouts : ~PaySession(k),
             \A k \in Checkouts, s \in Statuses : ~ChangeSubscription(k, s)
      PROVE NoStatusNews
  <2>1. StatusEvents(events') = StatusEvents(events)
    BY <1>4 DEF StatusEvents
  <2>2. ASSUME NEW j \in Checkouts PROVE co'[j].sub = co[j].sub
    <3>0. co \in [Checkouts -> Checkout] /\ co[j] \in Checkout /\ Filled(co[j])
      BY <1>0 DEF CoInv
    <3>1. CASE Crash
      BY <3>0, <3>1 DEF Crash, Checkout
    <3>2. CASE \E k \in Checkouts : EnsureCustomer(k)
      <4>1. PICK k \in Checkouts : EnsureCustomer(k)
        BY <3>2
      <4>2. CASE co' = [co EXCEPT ![k].pc = "session"]
        BY <3>0, <4>2 DEF Checkout
      <4>3. CASE \E c \in Customers : co' = [co EXCEPT ![k].cust = c, ![k].pc = "link"]
        <5>1. PICK c \in Customers :
                co' = [co EXCEPT ![k] = [co[k] EXCEPT !.cust = c, !.pc = "link"]]
          BY <4>3
        <5>2. QED
          BY <3>0, <5>1 DEF Checkout
      <4>4. QED
        BY <4>1, <4>2, <4>3 DEF EnsureCustomer
    <3>3. CASE \E k \in Checkouts : LinkCustomer(k) \/ OpenSession(k) \/ AbortCheckout(k)
      BY <3>0, <3>3 DEF LinkCustomer, OpenSession, AbortCheckout, Checkout
    <3>4. CASE \E k \in Checkouts, u \in UserId, p \in Products : StartCheckout(k, u, p)
      <4>1. PICK k \in Checkouts, u \in UserId, p \in Products : StartCheckout(k, u, p)
        BY <3>4
      <4>2. co[k].pc = "none" /\ co'[k].sub = "" /\ \A i \in Checkouts : i # k => co'[i] = co[i]
        BY <3>0, <4>1 DEF StartCheckout
      <4>3. co[k].sub = ""
        BY <1>0, <4>2 DEF Filled
      <4>4. QED
        BY <4>2, <4>3
    <3>5. QED
      BY <1>4, <3>1, <3>2, <3>3, <3>4 DEF Frame, CheckoutsTouched, CheckoutStep
  <2>3. QED
    BY <2>1, <2>2 DEF NoStatusNews
<1>5. QED
  <2>1. CASE \E k \in Checkouts : PaySession(k)
    BY <1>1, <2>1
  <2>2. CASE \E k \in Checkouts, s \in Statuses : ChangeSubscription(k, s)
    BY <1>2, <2>2
  <2>3. CASE \E k \in Checkouts : OtherEvent(k)
    BY <1>3, <2>3
  <2>4. QED
    BY <1>4, <2>1, <2>2, <2>3 DEF Frame, EventsTouched

LEMMA SubsStep ==
  ASSUME Inv, SubsInv, Steps, Frame
  PROVE  SubsInv'
<1>1. CoInv /\ EventsInv /\ EventsStep /\ CoStep /\ EventsInv'
  BY DEF Inv, Steps, EventsStep
<1>2. \A e \in StatusEvents(events) : e \in DOMAIN events /\ events'[e] = events[e] /\ e <= Len(events)
  BY <1>1 DEF StatusEvents, EventsStep, EventsInv
<1>3. CASE NoStatusNews
  <2>1. \A k \in Checkouts : About(k)' = About(k)
    BY <1>2, <1>3 DEF About, NoStatusNews
  <2>2. ASSUME NEW k \in Checkouts PROVE Newest(events', About(k)', co'[k].sub)
    <3>1. Newest(events, About(k), co[k].sub) /\ \A e \in About(k) : events'[e] = events[e]
      BY <1>2 DEF SubsInv, About
    <3>2. Newest(events', About(k), co[k].sub)
      BY <3>1, NewestStays
    <3>3. QED
      BY <1>3, <2>1, <3>2 DEF NoStatusNews
  <2>3. QED
    BY <1>2, <1>3, <2>2 DEF NoStatusNews, SubsInv
<1>4. ASSUME NEW k \in Checkouts, StatusNews(k) PROVE SubsInv'
  <2>1. \A j \in Checkouts : About(j)' = IF j = k THEN About(j) \cup {Len(events) + 1} ELSE About(j)
    BY <1>2, <1>4 DEF About, StatusNews
  <2>2. Newest(events', About(k)', co'[k].sub)
    <3>1. \A f \in About(k)' : f <= Len(events) + 1
      BY <1>1, <1>2, <2>1 DEF About, EventsInv
    <3>2. QED
      BY <1>4, <2>1, <3>1 DEF Newest, StatusNews
  <2>3. ASSUME NEW j \in Checkouts, j # k PROVE Newest(events', About(j)', co'[j].sub)
    <3>1. Newest(events, About(j), co[j].sub) /\ \A e \in About(j) : events'[e] = events[e]
      BY <1>2 DEF SubsInv, About
    <3>2. Newest(events', About(j), co[j].sub)
      BY <3>1, NewestStays
    <3>3. QED
      BY <1>4, <2>1, <2>3, <3>2 DEF StatusNews
  <2>4. \A e \in StatusEvents(events') : events'[e].product \in Subs
    BY <1>2, <1>4 DEF StatusNews, SubsInv
  <2>5. QED
    BY <2>2, <2>3, <2>4 DEF SubsInv
<1>5. QED
  BY <1>3, <1>4, StatusStep

\* Events that are there already keep their place.
LEMMA UpToStays ==
  ASSUME EventsInv, EventsStep, NEW c, NEW n \in 0 .. Len(events)
  PROVE  /\ UpTo(events', c, n) = UpTo(events, c, n)
         /\ \A e \in UpTo(events, c, n) : events'[e] = events[e]
         /\ Len(events) <= Len(events')
<1>1. /\ events \in Seq(Event) /\ events' \in Seq(Event)
      /\ \A e \in DOMAIN events : e \in DOMAIN events' /\ events'[e] = events[e]
  BY DEF EventsInv, EventsStep
<1>2. Len(events) <= Len(events')
  BY <1>1
<1>3. QED
  BY <1>1, <1>2 DEF UpTo, StatusEvents

\* A row keeps reflecting the first n events as long as no status is stored.
LEMMA ReflectsStays ==
  ASSUME Inv, Matched, IdentityInv, EventsStep, NEW n \in 0 .. Len(events),
         UsersTouched \/ UNCHANGED <<users, lastId>>, \A d \in Deliveries : ~ApplyStatus(d),
         NEW u \in UserId, Reflects(u, n)
  PROVE  Reflects(u, n)'
<1>0. UsersInv /\ CoInv /\ EventsInv
  BY DEF Inv
<1>1. SUFFICES ASSUME users'[u] # NoRow
               PROVE  IF users'[u].cust = NoCust THEN users'[u].status = ""
                      ELSE Newest(events', UpTo(events', users'[u].cust, n), users'[u].status)
  BY DEF Reflects, Live
<1>2. CASE RowKept(u)
  <2>1. CASE Live(u) /\ users'[u].cust = users[u].cust /\ users'[u].status = users[u].status
    <3>1. CASE users[u].cust = NoCust
      BY <2>1, <3>1 DEF Reflects
    <3>2. CASE users[u].cust # NoCust
      <4>1. Newest(events, UpTo(events, users[u].cust, n), users[u].status)
        BY <2>1, <3>2 DEF Reflects
      <4>2. Newest(events', UpTo(events, users[u].cust, n), users[u].status)
        <5>1. \A e \in UpTo(events, users[u].cust, n) : events'[e] = events[e]
          BY <1>0, UpToStays
        <5>2. QED
          BY <4>1, <5>1, NewestStays
      <4>3. UpTo(events', users'[u].cust, n) = UpTo(events, users[u].cust, n)
        BY <1>0, <2>1, UpToStays
      <4>4. QED
        BY <2>1, <3>2, <4>2, <4>3
    <3>3. QED
      BY <3>1, <3>2
  <2>2. CASE u = lastId + 1 /\ users'[u].cust = NoCust /\ users'[u].status = ""
    BY <2>2
  <2>3. QED
    BY <1>1, <1>2, <2>1, <2>2 DEF RowKept
<1>3. ASSUME NEW k \in Checkouts, LinkCustomer(k), ~RowKept(u)
      PROVE  IF users'[u].cust = NoCust THEN users'[u].status = ""
             ELSE Newest(events', UpTo(events', users'[u].cust, n), users'[u].status)
  <2>1. /\ u = co[k].uid /\ Live(u) /\ users[u].cust = NoCust /\ users'[u].cust = co[k].cust
        /\ users'[u].status = users[u].status
    BY <1>0, <1>1, <1>3, LinkMatched DEF RowKept
  <2>2. users'[u].status = ""
    BY <2>1 DEF Reflects
  <2>3. events' = events /\ co[k].pc = "link" /\ co[k].cust \in Customers
    BY <1>0, <1>3 DEF LinkCustomer, stripe, CoInv, Filled
  <2>4. ASSUME NEW e \in DOMAIN events PROVE events[e].cust # co[k].cust
    <3>1. events[e] \in Event /\ Reports(events[e])
      BY <1>0 DEF EventsInv
    <3>2. PICK j \in Checkouts : j = events[e].of
      BY <3>1 DEF Event
    <3>3. co[j].pc = "paid" /\ events[e].cust = co[j].cust
      BY <3>1, <3>2 DEF Reports
    <3>4. Agrees(k) /\ co[k].cust # NoCust
      BY <2>3 DEF Matched
    <3>5. QED
      BY <2>3, <3>3, <3>4 DEF Agrees
  <2>5. UpTo(events', users'[u].cust, n) = {}
    BY <2>1, <2>3, <2>4 DEF UpTo, StatusEvents
  <2>6. QED
    BY <2>2, <2>5 DEF Newest
<1>4. QED
  BY <1>2, <1>3, RowsStep

\* Storing the status of event n + 1 brings every row up to it.
LEMMA StatusReflects ==
  ASSUME Inv, NEW d \in Deliveries, ApplyStatus(d), NEW n \in Nat, dl[d].ev = n + 1,
         NEW u \in UserId, Reflects(u, n) \/ Reflects(u, n + 1)
  PROVE  Reflects(u, n + 1)'
<1> DEFINE ev == events[n + 1]
<1>0. UsersInv /\ EventsInv /\ events' = events
  BY DEF Inv, ApplyStatus, stripe
<1>1. n + 1 \in DOMAIN events /\ ev \in Event /\ ev.type \in {"updated", "deleted"}
  BY <1>0 DEF Inv, LedgerInv, Sound, ApplyStatus, Applying, EventsInv
<1>2. n + 1 \in StatusEvents(events)
  BY <1>1 DEF StatusEvents
<1>3. ev.status \in SubStatus /\ ev.cust \in Customers
  BY <1>1 DEF Event
<1>4. users' = WithStatus(ev.cust, ev.status)
  BY DEF ApplyStatus
<1>5. /\ Live(u)' <=> Live(u)
      /\ Live(u) => /\ users'[u].cust = users[u].cust
                    /\ users[u].cust = ev.cust => users'[u].status = ev.status
                    /\ users[u].cust # ev.cust => users'[u].status = users[u].status
  BY <1>0, <1>3, <1>4, StatusKeepsCustomers
<1>7. SUFFICES ASSUME Live(u)
               PROVE  IF users[u].cust = NoCust THEN users'[u].status = ""
                      ELSE Newest(events, UpTo(events, users[u].cust, n + 1), users'[u].status)
  <2>1. Live(u) => UpTo(events', users'[u].cust, n + 1) = UpTo(events, users[u].cust, n + 1)
    BY <1>5, <1>0
  <2>2. QED
    BY <1>0, <1>5, <2>1 DEF Reflects
<1>8. CASE users[u].cust = ev.cust
  <2>1. n + 1 \in UpTo(events, ev.cust, n + 1) /\ \A f \in UpTo(events, ev.cust, n + 1) : f <= n + 1
    BY <1>2 DEF UpTo
  <2>2. users[u].cust # NoCust /\ users'[u].status = ev.status
    BY <1>3, <1>5, <1>7, <1>8
  <2>3. QED
    BY <1>8, <2>1, <2>2 DEF Newest
<1>9. CASE users[u].cust # ev.cust
  <2>1. UpTo(events, users[u].cust, n) = UpTo(events, users[u].cust, n + 1)
    <3>1. \A e \in StatusEvents(events) : e \in Nat
      BY <1>0 DEF StatusEvents, EventsInv
    <3>2. QED
      BY <1>9, <3>1 DEF UpTo
  <2>2. QED
    BY <1>5, <1>7, <1>9, <2>1 DEF Reflects
<1>10. QED
  BY <1>8, <1>9

\* Passing an event that stores no status changes nothing.
LEMMA OtherReflects ==
  ASSUME EventsInv, NEW n \in Nat, n + 1 \notin StatusEvents(events), NEW u \in UserId
  PROVE  Reflects(u, n) <=> Reflects(u, n + 1)
<1>1. \A e \in StatusEvents(events) : e \in Nat
  BY DEF StatusEvents, EventsInv
<1>2. \A c : UpTo(events, c, n) = UpTo(events, c, n + 1)
  BY <1>1 DEF UpTo
<1>3. QED
  BY <1>2 DEF Reflects

\* One delivery moves on; rows only change by what other lemmas cover.
LEMMA TurnStep ==
  ASSUME Orderly, Inv, OrderlyInv, Steps, Frame, LedgerInv'
  PROVE  TurnInv'
<1>0. /\ Matched /\ IdentityInv /\ EventsInv /\ EventsStep /\ LedgerInv /\ UsersInv
      /\ dl \in [Deliveries -> Delivery] /\ Len(events) \in Nat /\ DOMAIN events = 1 .. Len(events)
  BY DEF OrderlyInv, Inv, Steps, LedgerInv, EventsInv
<1>1. PICK n \in 0 .. Len(events) : Turn(n)
  BY DEF OrderlyInv, TurnInv
<1>2. Len(events) <= Len(events') /\ Len(events') \in Nat
  BY <1>0, UpToStays DEF EventsInv, EventsStep
<1> DEFINE Rows(m) == \A u \in UserId : Reflects(u, m)
           Half(m) == \A u \in UserId : Reflects(u, m) \/ (m < Len(events) /\ Reflects(u, m + 1))
<1>3. ASSUME \A d \in Deliveries : ~ApplyStatus(d)
      PROVE  Half(n)' /\ (n < Len(events) /\ Rows(n + 1) => Rows(n + 1)')
  <2>1. \A m \in 0 .. Len(events), u \in UserId : Reflects(u, m) => Reflects(u, m)'
    BY <1>0, <1>3, ReflectsStays DEF Frame
  <2>2. QED
    BY <1>0, <1>1, <1>2, <2>1 DEF Turn
\* Nothing is delivered or recorded.
<1>4. CASE UNCHANGED <<dl, processed, applied, acked>>
  <2>1. \A d \in Deliveries : ~ApplyStatus(d)
    <3>1. ASSUME NEW d \in Deliveries, ApplyStatus(d) PROVE FALSE
      BY <1>0, <1>4, <3>1 DEF ApplyStatus, Applying, Goto
    <3>2. QED
      BY <3>1
  <2>2. \A d \in Deliveries : dl[d].pc = "record" => n < Len(events)
    BY <1>0, <1>1 DEF Turn, LedgerInv, Sound
  <2>3. Turn(n)'
    BY <1>1, <1>3, <1>4, <2>1, <2>2 DEF Turn
  <2>4. QED
    BY <1>0, <1>2, <2>3 DEF TurnInv
<1>5. CASE Crash
  <2>1. (\A d \in Deliveries : dl'[d] = Idle) /\ processed' = processed
    BY <1>5 DEF Crash, db
  <2>2. \A d \in Deliveries : ~ApplyStatus(d)
    <3>1. ASSUME NEW d \in Deliveries, ApplyStatus(d) PROVE dl'[d].pc = "record"
      BY <1>0, <3>1 DEF ApplyStatus, Goto, Delivery
    <3>2. QED
      BY <2>1, <3>1 DEF Idle
  <2>3. Turn(n)'
    BY <1>1, <1>3, <2>1, <2>2 DEF Turn, Idle
  <2>4. QED
    BY <1>0, <1>2, <2>3 DEF TurnInv
<1>6. ASSUME NEW d \in Deliveries, NEW e \in EventId, Deliver(d, e) PROVE TurnInv'
  <2>1. /\ dl'[d] = [pc |-> "check", ev |-> e] /\ e \in DOMAIN events
        /\ \A c \in Deliveries : c # d => dl'[c] = dl[c] /\ dl[c].pc = "idle"
        /\ \A f \in 1 .. e - 1 : f \in acked
        /\ processed' = processed
    BY <1>0, <1>6 DEF Deliver, db
  <2>2. e <= n + 1
    <3>1. SUFFICES ASSUME e > n + 1 PROVE FALSE
      BY <1>0, <2>1
    <3>2. n + 1 \in processed
      BY <1>0, <2>1, <3>1 DEF LedgerInv
    <3>3. QED
      BY <1>1, <3>2 DEF Turn
  <2>3. \A c \in Deliveries : ~ApplyStatus(c)
    BY <1>0, <1>6, <2>1 DEF ApplyStatus, Applying, Deliver
  <2>4. Turn(n)'
    BY <1>1, <1>3, <2>1, <2>2, <2>3 DEF Turn
  <2>5. QED
    BY <1>0, <1>2, <2>4 DEF TurnInv
\* The delivery d moves on to r.
<1>7. ASSUME NEW d \in Deliveries, NEW r \in Delivery, dl[d].pc # "idle",
             dl' = [dl EXCEPT ![d] = r], processed' = processed,
             r.pc # "idle" => r.ev = dl[d].ev,
             r.pc = "apply" => dl[d].ev = n + 1,
             r.pc = "record" => dl[d].ev = n + 1 /\ Rows(n + 1)',
             Half(n)'
      PROVE  TurnInv'
  <2>1. dl'[d] = r /\ \A c \in Deliveries : c # d => dl'[c] = dl[c] /\ dl[c].pc = "idle"
    BY <1>0, <1>1, <1>7 DEF Turn
  <2>2. Turn(n)'
    BY <1>1, <1>7, <2>1 DEF Turn
  <2>3. QED
    BY <1>0, <1>2, <2>2 DEF TurnInv
<1>8. ASSUME NEW d \in Deliveries, dl[d].pc # "idle" PROVE dl[d].ev \in 1 .. Len(events) /\ dl[d].ev <= n + 1
  BY <1>0, <1>1, <1>8 DEF Turn, LedgerInv, Sound
<1>9. \A d \in Deliveries, q \in {"apply", "record", "reply"} : [dl[d] EXCEPT !.pc = q] \in Delivery
  BY <1>0 DEF Delivery
<1>10. Idle \in Delivery /\ Idle.pc = "idle"
  BY DEF Idle, Delivery
<1>11. ASSUME NEW d \in Deliveries, CheckEvent(d) PROVE TurnInv'
  <2> DEFINE q == IF dl[d].ev \in processed THEN "reply" ELSE "apply"
             r == [dl[d] EXCEPT !.pc = q]
  <2>1. dl[d].pc = "check" /\ dl' = [dl EXCEPT ![d] = r] /\ processed' = processed
    BY <1>11 DEF CheckEvent, Goto, db
  <2>a. \A c \in Deliveries : ~ApplyStatus(c)
    BY <1>1, <2>1 DEF Turn, ApplyStatus, Applying
  <2>2. r.ev = dl[d].ev /\ r.pc = q /\ r \in Delivery
    BY <1>0, <1>9 DEF Delivery
  <2>3. q = "apply" => dl[d].ev = n + 1
    BY <1>1, <1>8, <2>1 DEF Turn
  <2> HIDE DEF r
  <2>4. QED
    BY <1>3, <1>7, <2>1, <2>2, <2>3, <2>a
<1>12. ASSUME NEW d \in Deliveries, ApplyStatus(d) PROVE TurnInv'
  <2> DEFINE r == [dl[d] EXCEPT !.pc = "record"]
  <2>1. /\ dl[d].pc = "apply" /\ dl' = [dl EXCEPT ![d] = r] /\ processed' = processed
        /\ events' = events
    BY <1>12 DEF ApplyStatus, Applying, Goto, stripe
  <2>2. r.ev = dl[d].ev /\ r.pc = "record" /\ r \in Delivery
    BY <1>0, <1>9 DEF Delivery
  <2>3. dl[d].ev = n + 1 /\ n < Len(events)
    BY <1>1, <1>8, <2>1 DEF Turn
  <2>4. Rows(n + 1)'
    BY <1>0, <1>1, <1>12, <2>3, StatusReflects DEF Turn
  <2>5. Half(n)'
    BY <2>1, <2>3, <2>4
  <2> HIDE DEF r
  <2>6. QED
    BY <1>7, <2>1, <2>2, <2>3, <2>4, <2>5
\* The event under way stores no status; its statement may fail.
<1>13. ASSUME NEW d \in Deliveries, ApplyGrant(d) \/ ApplyLink(d) \/ ApplyNothing(d)
       PROVE  TurnInv'
  <2> DEFINE r == [dl[d] EXCEPT !.pc = "record"]
  <2>1. /\ dl[d].pc = "apply" /\ processed' = processed
        /\ dl' = [dl EXCEPT ![d] = Idle] \/ dl' = [dl EXCEPT ![d] = r]
        /\ events[dl[d].ev].type \notin {"updated", "deleted"}
    BY <1>13 DEF ApplyGrant, ApplyLink, ApplyNothing, Applying, Goto, Finish, db
  <2>2. r.ev = dl[d].ev /\ r.pc = "record" /\ r \in Delivery
    BY <1>0, <1>9 DEF Delivery
  <2>3. dl[d].ev = n + 1 /\ n < Len(events)
    BY <1>1, <1>8, <2>1 DEF Turn
  <2>4. \A c \in Deliveries : ~ApplyStatus(c)
    <3>1. ASSUME NEW c \in Deliveries, ApplyStatus(c) PROVE FALSE
      <4>1. c = d
        BY <1>1, <2>1, <3>1 DEF Turn, ApplyStatus, Applying
      <4>2. QED
        BY <2>1, <3>1, <4>1 DEF ApplyStatus, Applying
    <3>2. QED
      BY <3>1
  <2>5. Rows(n + 1)
    <3>1. n + 1 \notin StatusEvents(events)
      BY <2>1, <2>3 DEF StatusEvents
    <3>2. QED
      BY <1>0, <1>1, <3>1, OtherReflects DEF Turn
  <2> HIDE DEF r
  <2>6. QED
    BY <1>3, <1>7, <1>10, <2>1, <2>2, <2>3, <2>4, <2>5
<1>14. ASSUME NEW d \in Deliveries, RecordEvent(d) PROVE TurnInv'
  <2> DEFINE r == [dl[d] EXCEPT !.pc = "reply"]
  <2>1. /\ dl[d].pc = "record" /\ dl' = [dl EXCEPT ![d] = r]
        /\ processed' = processed \cup {dl[d].ev} /\ UNCHANGED <<users, events>>
    BY <1>14 DEF RecordEvent, Goto, stripe
  <2>2. r.ev = dl[d].ev /\ r.pc = "reply" /\ r \in Delivery
    BY <1>0, <1>9 DEF Delivery
  <2>3. dl[d].ev = n + 1 /\ n < Len(events) /\ Rows(n + 1)
    BY <1>1, <1>8, <2>1 DEF Turn
  <2>4. processed' = 1 .. n + 1
    BY <1>1, <2>1, <2>3 DEF Turn
  <2>5. \A c \in Deliveries : c # d => dl'[c] = dl[c] /\ dl[c].pc = "idle"
    BY <1>0, <1>1, <2>1 DEF Turn
  <2>6. Rows(n + 1)'
    BY <2>1, <2>3 DEF Reflects, Live
  <2> HIDE DEF r
  <2>7. Turn(n + 1)'
    BY <1>0, <2>1, <2>2, <2>3, <2>4, <2>5, <2>6 DEF Turn
  <2>8. QED
    BY <1>0, <1>2, <2>3, <2>7 DEF TurnInv
<1>15. ASSUME NEW d \in Deliveries, Reply(d) \/ AbortDelivery(d) PROVE TurnInv'
  <2>1. /\ dl[d].pc # "idle" /\ dl' = [dl EXCEPT ![d] = Idle] /\ processed' = processed
        /\ UNCHANGED <<users, events>>
    BY <1>15 DEF Reply, AbortDelivery, Finish, db, stripe
  <2>2. Half(n)'
    BY <1>1, <2>1 DEF Turn, Reflects, Live
  <2>3. QED
    BY <1>7, <1>10, <2>1, <2>2
<1>16. QED
  BY <1>4, <1>5, <1>6, <1>11, <1>12, <1>13, <1>14, <1>15
  DEF Frame, DeliveriesTouched, DeliveryStep, ApplyEvent

LEMMA OrderlyInvariance == ASSUME Orderly PROVE Spec => [](Inv /\ OrderlyInv)
<1>1. Init => OrderlyInv
  <2> SUFFICES ASSUME Init PROVE OrderlyInv
    OBVIOUS
  <2> USE DEF Init
  <2>1. \A k \in Checkouts : co[k].pc = "none" /\ co[k].sub = ""
    BY DEF NoCheckout
  <2>2. Matched
    BY <2>1 DEF Matched, InHandler, Live
  <2>3. StatusEvents(events) = {}
    BY DEF StatusEvents
  <2>4. SubsInv
    BY <2>1, <2>3 DEF SubsInv, About, Newest
  <2>5. \A d \in Deliveries : dl[d].pc = "idle"
    BY DEF Idle
  <2>6. \A u \in UserId : Reflects(u, 0)
    BY DEF Reflects, Live
  <2>7. Turn(0)
    BY <2>5, <2>6 DEF Turn
  <2>8. QED
    BY <2>2, <2>4, <2>7 DEF OrderlyInv, TurnInv
<1>2. ASSUME Inv, OrderlyInv, [Next]_vars PROVE OrderlyInv'
  <2>1. Steps /\ Frame /\ Inv'
    BY <1>2, StepsHold, StepFrame, NextInv
  <2>2. QED
    BY <1>2, <2>1, MatchedStep, SubsStep, TurnStep DEF OrderlyInv, Inv
<1>3. Inv /\ OrderlyInv /\ [Next]_vars => (Inv /\ OrderlyInv)'
  BY <1>2, NextInv
<1>4. QED
  BY <1>1, <1>3, InitInv, PTL DEF Spec

\* Delivered in order, one at a time, an event that was recorded is never
\* applied again, whatever requests are aborted and wherever the process stops.
THEOREM RecordedAlwaysSkipped == ASSUME Orderly PROVE Spec => []RecordedEventIsSkipped
<1>1. ASSUME Inv, OrderlyInv PROVE RecordedEventIsSkipped
  BY <1>1 DEF OrderlyInv, TurnInv, Turn, Inv, EventsInv, RecordedEventIsSkipped
<1>2. QED
  BY <1>1, OrderlyInvariance, PTL

\* Once every event is answered, a row shows its subscription's status.
LEMMA SettledRows ==
  ASSUME Inv, OrderlyInv, Settled, NEW u \in UserId, Live(u)
  PROVE  IF users[u].cust = NoCust THEN users[u].status = ""
         ELSE Newest(events, {e \in StatusEvents(events) : events[e].cust = users[u].cust},
                     users[u].status)
<1>0. Len(events) \in Nat /\ DOMAIN events = 1 .. Len(events)
  BY DEF Inv, EventsInv
<1>1. PICK n \in 0 .. Len(events) : Turn(n)
  BY DEF OrderlyInv, TurnInv
<1>2. Len(events) <= n
  <2>1. \A e \in 1 .. Len(events) : e \in 1 .. n
    BY <1>0, <1>1 DEF Settled, Inv, LedgerInv, Turn
  <2>2. CASE Len(events) = 0
    BY <2>2
  <2>3. CASE Len(events) # 0
    BY <1>0, <2>1, <2>3
  <2>4. QED
    BY <2>2, <2>3
<1>3. Reflects(u, n)
  BY <1>0, <1>1, <1>2 DEF Turn
<1>4. UpTo(events, users[u].cust, n) = {e \in StatusEvents(events) : events[e].cust = users[u].cust}
  BY <1>0, <1>2 DEF UpTo, StatusEvents
<1>5. QED
  BY <1>3, <1>4 DEF Reflects

\* The status events of u's customer are those of u's one subscription.
LEMMA OneSubscription ==
  ASSUME Inv, OrderlyInv, NEW u \in UserId, Live(u), users[u].cust # NoCust,
         NEW e \in StatusEvents(events), events[e].cust = users[u].cust
  PROVE  \E k \in Checkouts :
           /\ co[k].uid = u
           /\ {f \in StatusEvents(events) : events[f].cust = users[u].cust} = About(k)
<1>1. \A f \in StatusEvents(events) :
        events[f].of \in Checkouts /\ Reports(events[f]) /\ events[f].product \in Subs
  <2>1. ASSUME NEW f \in StatusEvents(events)
        PROVE  events[f] \in Event /\ Reports(events[f]) /\ events[f].product \in Subs
    BY DEF StatusEvents, Inv, EventsInv, OrderlyInv, SubsInv
  <2>2. QED
    BY <2>1 DEF Event
<1>2. PICK k \in Checkouts : k = events[e].of
  BY <1>1
<1>3. /\ co[k].pc = "paid" /\ co[k].cust = users[u].cust /\ IsSub(k) /\ Agrees(k)
      /\ co[k].uid \in UserId
  BY <1>1, <1>2 DEF Reports, IsSub, OrderlyInv, Matched, Inv, CoInv, Filled
<1>4. co[k].uid = u
  BY <1>3 DEF Agrees
<1>5. ASSUME NEW f \in StatusEvents(events), events[f].cust = users[u].cust
      PROVE  events[f].of = k
  <2>1. PICK j \in Checkouts : j = events[f].of
    BY <1>1
  <2>2. IsSub(j) /\ co[j].cust = users[u].cust
    BY <1>1, <1>5, <2>1 DEF Reports, IsSub
  <2>3. QED
    BY <1>3, <2>1, <2>2 DEF Agrees
<1>6. ASSUME NEW f \in StatusEvents(events), events[f].of = k
      PROVE  events[f].cust = users[u].cust
  BY <1>1, <1>3, <1>6 DEF Reports
<1>7. QED
  BY <1>4, <1>5, <1>6 DEF About

\* Two statuses that the same events report last are the same.
LEMMA NewestIsOne ==
  ASSUME EventsInv, NEW E, E \subseteq DOMAIN events, NEW s, NEW t,
         Newest(events, E, s), Newest(events, E, t)
  PROVE  s = t
<1>1. \A e \in E : e \in Nat
  BY DEF EventsInv
<1>2. CASE E = {}
  BY <1>2 DEF Newest
<1>3. CASE E # {}
  <2>1. PICK e \in E : events[e].status = s /\ \A f \in E : f <= e
    BY <1>3 DEF Newest
  <2>2. PICK g \in E : events[g].status = t /\ \A f \in E : f <= g
    BY <1>3 DEF Newest
  <2>3. e = g
    BY <1>1, <2>1, <2>2
  <2>4. QED
    BY <2>1, <2>2, <2>3
<1>4. QED
  BY <1>2, <1>3

\* With all events answered, /premium is open to nobody without an active
\* subscription at Stripe: what the row says is what the last event said.
THEOREM PremiumAlwaysNeedsSubscription ==
  ASSUME Orderly PROVE Spec => []PremiumNeedsSubscription
<1>1. ASSUME Inv, OrderlyInv PROVE PremiumNeedsSubscription
  <2>1. SUFFICES ASSUME Settled, NEW u \in UserId, Live(u), HasActiveSubscription(u)
                 PROVE  Subscribed(u)
    BY DEF PremiumNeedsSubscription
  <2> DEFINE E == {e \in StatusEvents(events) : events[e].cust = users[u].cust}
  <2>2. users[u].status \in {"active", "trialing"}
    BY <2>1 DEF HasActiveSubscription
  <2>3. users[u].cust # NoCust /\ Newest(events, E, users[u].status)
    BY <1>1, <2>1, <2>2, SettledRows
  <2>4. PICK e \in E : TRUE
    BY <2>2, <2>3 DEF Newest
  <2>5. PICK k \in Checkouts : co[k].uid = u /\ E = About(k)
    BY <1>1, <2>1, <2>3, <2>4, OneSubscription
  <2>6. Newest(events, About(k), co[k].sub) /\ About(k) \subseteq DOMAIN events
    BY <1>1 DEF OrderlyInv, SubsInv, About, StatusEvents
  <2>7. co[k].sub = users[u].status
    BY <1>1, <2>3, <2>5, <2>6, NewestIsOne DEF Inv
  <2>8. QED
    BY <2>2, <2>5, <2>7 DEF Subscribed
<1>2. QED
  BY <1>1, OrderlyInvariance, PTL

\* ... and open to everybody with one.
THEOREM SubscriberAlwaysHasPremium ==
  ASSUME Orderly PROVE Spec => []SubscriberHasPremium
<1>1. ASSUME Inv, OrderlyInv PROVE SubscriberHasPremium
  <2>1. SUFFICES ASSUME Settled, NEW u \in UserId, Live(u), Subscribed(u)
                 PROVE  HasActiveSubscription(u)
    BY DEF SubscriberHasPremium
  <2> DEFINE E == {e \in StatusEvents(events) : events[e].cust = users[u].cust}
  <2>2. PICK k \in Checkouts : co[k].uid = u /\ co[k].sub \in {"active", "trialing"}
    BY <2>1 DEF Subscribed
  <2>3. co[k].pc = "paid" /\ co[k].cust \in Customers /\ Agrees(k)
    BY <1>1, <2>2 DEF Inv, CoInv, Filled, OrderlyInv, Matched
  <2>4. users[u].cust = co[k].cust /\ users[u].cust # NoCust
    BY <2>1, <2>2, <2>3 DEF Agrees, Linked
  <2>5. Newest(events, About(k), co[k].sub) /\ About(k) \subseteq DOMAIN events
    BY <1>1 DEF OrderlyInv, SubsInv, About, StatusEvents
  <2>6. PICK e \in About(k) : TRUE
    BY <2>2, <2>5 DEF Newest
  <2>7. e \in StatusEvents(events) /\ events[e].cust = users[u].cust
    BY <1>1, <2>4, <2>6 DEF About, StatusEvents, Inv, EventsInv, Reports
  <2>8. PICK j \in Checkouts : co[j].uid = u /\ E = About(j)
    BY <1>1, <2>1, <2>4, <2>7, OneSubscription
  <2>9. E = About(k)
    BY <2>6, <2>7, <2>8 DEF About
  <2>10. Newest(events, E, users[u].status)
    BY <1>1, <2>1, <2>4, SettledRows
  <2>11. co[k].sub = users[u].status
    BY <1>1, <2>5, <2>9, <2>10, NewestIsOne DEF Inv
  <2>12. QED
    BY <2>2, <2>11 DEF HasActiveSubscription
<1>2. QED
  BY <1>1, OrderlyInvariance, PTL

-------------------------------------------------------------------------------
(* The users table is a directory.                                             *)

\* Every step is a step of the directory, or invisible to it.
LEMMA DirectoryStep ==
  ASSUME Inv, [Next]_vars
  PROVE  [Dir!Next]_(Dir!table)
<1>0. UsersInv /\ UsersInv' /\ UsersStep
  BY NextInv, StepsHold DEF Inv, Steps
<1>1. ASSUME NEW p \in People, SignUp(p) PROVE Dir!Next
  <2> DEFINE r == [owner |-> p, cust |-> NoCust, status |-> ""]
  <2>1. r \in UserRow /\ r.owner = p
    BY DEF UserRow, SubStatus
  <2>2. r # NoRow
    BY <2>1
  <2>3. /\ NextId = lastId + 1 /\ NextId \in UserId /\ lastId' = NextId
        /\ users' = [users EXCEPT ![NextId] = r]
        /\ \A u \in UserId : Live(u) => users[u].owner # p
    BY <1>1 DEF SignUp, NextId
  <2>4. \A u \in UserId : users'[u] = IF u = NextId THEN r ELSE users[u]
    BY <1>0, <2>3 DEF UsersInv
  <2> HIDE DEF r
  <2>5. \A u \in UserId : HoldersNow'[u] = IF u = NextId THEN p ELSE HoldersNow[u]
    BY <2>1, <2>2, <2>4 DEF HoldersNow, Live
  <2>6. HoldersNow' = [HoldersNow EXCEPT ![lastId + 1] = p]
    BY <2>3, <2>5 DEF HoldersNow
  <2>7. \A u \in UserId : HoldersNow[u] # p
    BY <2>3 DEF HoldersNow
  <2>8. Dir!Add(p)
    BY <2>3, <2>6, <2>7 DEF Dir!Add
  <2> QED
    BY <2>8 DEF Dir!Next
<1>2. ASSUME NEW w \in UserId, DeleteAccount(w) PROVE Dir!Next
  <2>1. /\ lastId' = lastId /\ \A u \in UserId : users'[u] = IF u = w THEN NoRow ELSE users[u]
    BY <1>0, <1>2 DEF DeleteAccount, UsersInv
  <2>2. HoldersNow' = [HoldersNow EXCEPT ![w] = NoPerson]
    BY <2>1 DEF HoldersNow, Live
  <2> QED
    BY <2>1, <2>2 DEF Dir!Next, Dir!Remove
<1>3. ASSUME ~ \E u \in UserId : DeleteAccount(u), lastId' = lastId PROVE UNCHANGED Dir!table
  <2>1. ASSUME NEW u \in UserId PROVE HoldersNow'[u] = HoldersNow[u]
    <3>1. /\ Live(u) => users'[u] # NoRow
          /\ users'[u] # NoRow => Live(u) /\ users'[u].owner = users[u].owner
      BY <1>0, <1>3 DEF UsersStep, RowMoves, UsersInv
    <3> QED
      BY <3>1 DEF HoldersNow, Live
  <2>2. HoldersNow' = HoldersNow
    BY <2>1 DEF HoldersNow
  <2> QED
    BY <1>3, <2>2 DEF Dir!table
<1>4. (\E p \in People : SignUp(p)) \/ lastId' = lastId
  BY StepFrame DEF Frame, UsersTouched, DeleteAccount, LinkCustomer, ApplyLink, ApplyStatus
<1> QED
  BY <1>1, <1>2, <1>3, <1>4

\* Whatever is bought, linked and reported, the users table is a directory: one
\* row for a person, no id twice, no row that changes hands.
THEOREM BillingKeepsDirectory == Spec => ImplementsDirectory
<1>1. Init => Dir!Init
  BY DEF Init, Dir!Init, HoldersNow, Live
<1>2. Inv /\ [Next]_vars => [Dir!Next]_(Dir!table)
  BY DirectoryStep
<1> QED
  BY <1>1, <1>2, Invariance, PTL DEF Spec, ImplementsDirectory, Dir!Spec

-------------------------------------------------------------------------------
(* What is tried again succeeds: the directory has one row for a person, so    *)
(* that the index on customers has nothing to refuse.                          *)

\* As a directory, the table never has two rows of one person.
LEMMA OneRowStep ==
  ASSUME Dir!OneRowEach, [Dir!Next]_(Dir!table)
  PROVE  Dir!OneRowEach'
<1>0. HoldersNow = [u \in UserId |-> HoldersNow[u]] /\ NoPerson \notin People
  BY DEF HoldersNow
<1>1. ASSUME NEW p \in People, Dir!Add(p) PROVE Dir!OneRowEach'
  <2>1. \A u \in UserId : HoldersNow'[u] = IF u = lastId + 1 THEN p ELSE HoldersNow[u]
    BY <1>0, <1>1 DEF Dir!Add
  <2> QED
    BY <1>1, <2>1 DEF Dir!Add, Dir!OneRowEach
<1>2. ASSUME NEW w \in UserId, Dir!Remove(w) PROVE Dir!OneRowEach'
  <2>1. \A u \in UserId : HoldersNow'[u] = IF u = w THEN NoPerson ELSE HoldersNow[u]
    BY <1>0, <1>2 DEF Dir!Remove
  <2> QED
    BY <1>0, <2>1 DEF Dir!OneRowEach
<1>3. CASE UNCHANGED Dir!table
  BY <1>3 DEF Dir!table, Dir!OneRowEach
<1> QED
  BY <1>1, <1>2, <1>3 DEF Dir!Next

LEMMA OneRowAlways == Spec => [](Inv /\ Dir!OneRowEach)
<1>1. Init => Dir!OneRowEach
  BY DEF Init, Dir!OneRowEach, HoldersNow, Live
<1>2. Inv /\ Dir!OneRowEach /\ [Next]_vars => Dir!OneRowEach'
  BY DirectoryStep, OneRowStep
<1> QED
  BY <1>1, <1>2, Invariance, PTL DEF Spec

\* The customer of a checkout is on no row but that of its account, for it was
\* made for the account's owner, who has one row.
LEMMA NeverTaken ==
  ASSUME Inv, Dir!OneRowEach, NEW k \in Checkouts, co[k].pc # "none", co[k].cust # NoCust
  PROVE  ~CustomerTaken(co[k].uid, co[k].cust)
<1> SUFFICES ASSUME Live(co[k].uid),
                    NEW v \in UserId \ {co[k].uid}, Live(v), users[v].cust = co[k].cust
             PROVE  FALSE
  BY DEF CustomerTaken
<1> DEFINE u == co[k].uid
<1>1. u \in UserId
  BY DEF Inv, CoInv, Filled
<1>2. users[u].owner = co[k].owner /\ customers[co[k].cust] = co[k].owner
  BY DEF Inv, IdentityInv
<1>3. users[v].owner = co[k].owner
  BY <1>2 DEF Inv, IdentityInv, CustomerIsOwners
<1>4. users[u] \in UserRow
  BY <1>1 DEF Inv, UsersInv, Live
<1>5. HoldersNow[u] \in People /\ HoldersNow[u] = HoldersNow[v]
  BY <1>1, <1>2, <1>3, <1>4 DEF HoldersNow, UserRow
<1> QED
  BY <1>1, <1>5 DEF Dir!OneRowEach

\* Only an abort or a crash, and a customer that is taken, ends a checkout early.
LEMMA CheckoutGoesOn ==
  ASSUME Inv, Dir!OneRowEach, [Next]_vars, faults' = faults, NEW k \in Checkouts, InHandler(k)
  PROVE  co'[k].pc # "dead"
<1>0. co \in [Checkouts -> Checkout] /\ faults \in Nat
  BY DEF Inv, CoInv
<1>1. CASE UNCHANGED co
  BY <1>1 DEF InHandler
<1>2. ~Crash /\ \A j \in Checkouts : ~AbortCheckout(j)
  BY <1>0 DEF Crash, AbortCheckout, FaultLeft
<1>3. ASSUME NEW j \in Checkouts, NEW u \in UserId, NEW p \in Products, StartCheckout(j, u, p)
      PROVE co'[k].pc # "dead"
  BY <1>0, <1>3 DEF StartCheckout, InHandler
<1>4. ASSUME NEW j \in Checkouts, EnsureCustomer(j) \/ OpenSession(j) \/ PaySession(j)
      PROVE co'[k].pc # "dead"
  <2>1. PICK r : r.pc # "dead" /\ co' = [co EXCEPT ![j] = r]
    <3>1. CASE EnsureCustomer(j)
      <4>1. CASE co' = [co EXCEPT ![j].pc = "session"]
        <5>1. [co[j] EXCEPT !.pc = "session"].pc # "dead"
          BY <1>0 DEF Checkout
        <5> QED
          BY <4>1, <5>1
      <4>2. ASSUME NEW c \in Customers, co' = [co EXCEPT ![j].cust = c, ![j].pc = "link"]
            PROVE \E r : r.pc # "dead" /\ co' = [co EXCEPT ![j] = r]
        <5>1. [co[j] EXCEPT !.cust = c, !.pc = "link"].pc # "dead"
          BY <1>0 DEF Checkout
        <5> QED
          BY <4>2, <5>1
      <4> QED
        BY <3>1, <4>1, <4>2 DEF EnsureCustomer
    <3>2. CASE OpenSession(j)
      <4>1. [co[j] EXCEPT !.pc = "open"].pc # "dead"
        BY <1>0 DEF Checkout
      <4> QED
        BY <3>2, <4>1 DEF OpenSession
    <3>3. CASE PaySession(j)
      <4>1. PICK s : co' = [co EXCEPT ![j].pc = "paid", ![j].sub = s]
        BY <3>3 DEF PaySession
      <4>2. [co[j] EXCEPT !.pc = "paid", !.sub = s].pc # "dead"
        BY <1>0 DEF Checkout
      <4> QED
        BY <4>1, <4>2
    <3> QED
      BY <1>4, <3>1, <3>2, <3>3
  <2> QED
    BY <1>0, <2>1 DEF InHandler
<1>5. ASSUME NEW j \in Checkouts, LinkCustomer(j) PROVE co'[k].pc # "dead"
  <2>1. co[j].pc = "link" /\ co[j].cust # NoCust
    BY <1>5 DEF LinkCustomer, Inv, CoInv, Filled
  <2>2. co' = [co EXCEPT ![j].pc = "session"]
    BY <1>5, <2>1, NeverTaken DEF LinkCustomer
  <2> QED
    BY <1>0, <2>2 DEF InHandler, Checkout
<1>6. ASSUME NEW j \in Checkouts, NEW s \in Statuses, ChangeSubscription(j, s)
      PROVE co'[k].pc # "dead"
  <2>1. co' = [co EXCEPT ![j].sub = s]
    BY <1>6 DEF ChangeSubscription
  <2> QED
    BY <1>0, <2>1 DEF InHandler, Checkout
<1> QED
  BY <1>1, <1>2, <1>3, <1>4, <1>5, <1>6, StepFrame DEF Frame, CheckoutsTouched, CheckoutStep

\* Of the statements of the webhook handler only a grant to nobody fails.
LEMMA DeliveryGoesOn ==
  ASSUME Inv, Dir!OneRowEach, [Next]_vars, faults' = faults, NEW d \in Deliveries,
         dl[d].pc \in {"check", "apply", "record"}, dl'[d].pc = "idle"
  PROVE  LET ev == events[dl[d].ev] IN
         ev.type = "completed" /\ ev.product \in OneTime /\ ~Live(ev.uid)
<1> DEFINE ev == events[dl[d].ev]
           Goal == ev.type = "completed" /\ ev.product \in OneTime /\ ~Live(ev.uid)
<1>0. dl \in [Deliveries -> Delivery] /\ faults \in Nat
  BY DEF Inv, LedgerInv
<1>1. dl' # dl
  BY <1>0
<1>2. ~Crash /\ \A c \in Deliveries : ~AbortDelivery(c)
  BY <1>0 DEF Crash, AbortDelivery, FaultLeft
<1>3. ASSUME NEW c \in Deliveries, NEW e \in EventId, Deliver(c, e) PROVE FALSE
  BY <1>0, <1>3 DEF Deliver
<1>4. ASSUME NEW c \in Deliveries, NEW pc \in {"apply", "record", "reply"}, Goto(c, pc) PROVE FALSE
  <2>1. dl'[c].pc = pc /\ \A b \in Deliveries \ {c} : dl'[b] = dl[b]
    BY <1>0, <1>4 DEF Goto, Delivery
  <2> QED
    BY <2>1
<1>5. ASSUME NEW c \in Deliveries, Reply(c) PROVE FALSE
  BY <1>0, <1>5 DEF Reply, Finish
<1>6. ASSUME NEW c \in Deliveries, ApplyGrant(c) PROVE Goal
  <2>1. c = d /\ ~Live(ev.uid)
    <3>1. /\ ~Live(events[dl[c].ev].uid) /\ Finish(c)
      BY <1>4, <1>6 DEF ApplyGrant
    <3>2. c = d
      BY <1>0, <3>1 DEF Finish
    <3> QED
      BY <3>1, <3>2
  <2> QED
    BY <1>6, <2>1 DEF ApplyGrant, Applying
<1>7. ASSUME NEW c \in Deliveries, ApplyLink(c) PROVE FALSE
  <2>1. dl[c].ev \in DOMAIN events
    BY <1>7 DEF Inv, LedgerInv, Sound, ApplyLink, Applying
  <2>2. events[dl[c].ev] \in Event /\ Reports(events[dl[c].ev])
    BY <2>1 DEF Inv, EventsInv
  <2>3. PICK k \in Checkouts : k = events[dl[c].ev].of
    BY <2>2 DEF Event
  <2>4. /\ co[k].pc = "paid" /\ co[k].cust # NoCust
        /\ events[dl[c].ev].uid = co[k].uid /\ events[dl[c].ev].cust = co[k].cust
    BY <2>2, <2>3 DEF Reports, Inv, CoInv, Filled
  <2>5. ~CustomerTaken(events[dl[c].ev].uid, events[dl[c].ev].cust)
    BY <2>4, NeverTaken
  <2>6. Goto(c, "record")
    BY <1>7, <2>5 DEF ApplyLink, Goto
  <2> QED
    BY <1>4, <2>6
<1>8. ASSUME NEW c \in Deliveries, CheckEvent(c) \/ ApplyStatus(c) \/ ApplyNothing(c) \/ RecordEvent(c)
      PROVE FALSE
  <2>1. \E pc \in {"apply", "record", "reply"} : Goto(c, pc)
    BY <1>8 DEF CheckEvent, ApplyStatus, ApplyNothing, RecordEvent
  <2> QED
    BY <1>4, <2>1
<1> QED
  BY <1>1, <1>2, <1>3, <1>5, <1>6, <1>7, <1>8, StepFrame
  DEF Frame, DeliveriesTouched, DeliveryStep, ApplyEvent

\* Nothing but a deleted account stands between a paid checkout and its delivery:
\* what was aborted succeeds when it is tried again.
THEOREM AlwaysRefusedOnlyIfGone == Spec => RefusedOnlyIfGone
<1>1. ASSUME Inv, Dir!OneRowEach, [Next]_vars
      PROVE  [faults' = faults =>
                /\ \A k \in Checkouts : InHandler(k) => co'[k].pc # "dead"
                /\ \A d \in Deliveries :
                     dl[d].pc \in {"check", "apply", "record"} /\ dl'[d].pc = "idle" =>
                       LET ev == events[dl[d].ev] IN
                       ev.type = "completed" /\ ev.product \in OneTime /\ ~Live(ev.uid)]_vars
  BY <1>1, CheckoutGoesOn, DeliveryGoesOn
<1> QED
  BY <1>1, OneRowAlways, PTL DEF Spec, RefusedOnlyIfGone
===============================================================================
