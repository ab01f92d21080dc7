------------------------------ MODULE Fulfilment ------------------------------
(***************************************************************************)
(* What the shop promises about an order, without webhooks, retries,       *)
(* customers or rows: it is paid at most once, delivered only after it was *)
(* paid, and delivered indeed unless its account is deleted. Delivering a  *)
(* one-time product is granting it, delivering a subscription is linking   *)
(* it to the account. Billing implements this specification.               *)
(***************************************************************************)
CONSTANT Orders   \* the orders that may ever be placed

VARIABLE order    \* order[o] : how far order o has come

\* "void" is an order whose account was deleted: it stays void.
OrderState == {"new", "paid", "delivered", "void"}

TypeOK == order \in [Orders -> OrderState]

Init == order = [o \in Orders |-> "new"]

Move(o, from, to) ==
  /\ order[o] \in from
  /\ order' = [order EXCEPT ![o] = to]

PayOrder(o) == Move(o, {"new"}, "paid")

DeliverOrder(o) == Move(o, {"paid"}, "delivered")

\* Deleting an account voids every order placed from it, at once.
VoidOrders(S) == order' = [o \in Orders |-> IF o \in S THEN "void" ELSE order[o]]

Next ==
  \/ \E o \in Orders : PayOrder(o) \/ DeliverOrder(o)
  \/ \E S \in SUBSET Orders : VoidOrders(S)

Spec == Init /\ [][Next]_order

Fulfilled == \A o \in Orders : order[o] = "paid" ~> order[o] \in {"delivered", "void"}

FairSpec == Spec /\ \A o \in Orders : WF_order(DeliverOrder(o))

===============================================================================
