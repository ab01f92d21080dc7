\* One person starts two checkouts for a subscription before either is linked.
SPECIFICATION Spec
CONSTANTS
  p1 = p1  p2 = p2  k1 = k1  k2 = k2  c1 = c1  c2 = c2  d1 = d1  d2 = d2
  ebook = ebook  pro = pro
  People = {p1}
  MaxUsers = 1
  Customers = {c1, c2}
  Checkouts = {k1, k2}
  OneTime = {}
  Subs = {pro}
  Available = {pro}
  Statuses = {}
  Deliveries = {d1}
  MaxEvents = 2
  MaxFaults = 0
  MaxGifts = 0
  Orderly = FALSE
  NoCust = NoCust
  NoRow = NoRow
  NoPerson = NoPerson
  NoProduct = NoProduct
INVARIANT SubscriberHasPremium
CHECK_DEADLOCK FALSE
