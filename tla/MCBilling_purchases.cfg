\* One-time purchases: two people, two checkouts, overlapping deliveries.
SPECIFICATION Spec
CONSTANTS
  p1 = p1  p2 = p2  k1 = k1  k2 = k2  c1 = c1  c2 = c2  d1 = d1  d2 = d2
  ebook = ebook  pro = pro
  People = {p1, p2}
  MaxUsers = 2
  Customers = {c1, c2}
  Checkouts = {k1, k2}
  OneTime = {ebook}
  Subs = {}
  Available = {ebook}
  Statuses = {}
  Deliveries = {d1, d2}
  MaxEvents = 2
  MaxFaults = 1
  MaxGifts = 1
  Orderly = FALSE
  NoCust = NoCust
  NoRow = NoRow
  NoPerson = NoPerson
  NoProduct = NoProduct
SYMMETRY Symmetry
INVARIANTS TypeOK EntitlementsEarned CustomerIsOwners AckedNotLost
PROPERTIES RefusedOnlyIfGone
CHECK_DEADLOCK FALSE
