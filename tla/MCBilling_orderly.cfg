\* Subscriptions of two people, with Stripe delivering in order and users on fresh pages.
SPECIFICATION Spec
CONSTANTS
  p1 = p1  p2 = p2  k1 = k1  k2 = k2  c1 = c1  c2 = c2  d1 = d1  d2 = d2
  ebook = ebook  pro = pro
  People = {p1, p2}
  MaxUsers = 2
  Customers = {c1, c2}
  Checkouts = {k1, k2}
  OneTime = {}
  Subs = {pro}
  Available = {pro}
  Statuses = {"active", "past_due", "canceled"}
  Deliveries = {d1}
  MaxEvents = 4
  MaxFaults = 1
  MaxGifts = 1
  Orderly = TRUE
  NoCust = NoCust
  NoRow = NoRow
  NoPerson = NoPerson
  NoProduct = NoProduct
SYMMETRY Symmetry
INVARIANTS PremiumNeedsSubscription SubscriberHasPremium
CHECK_DEADLOCK FALSE
