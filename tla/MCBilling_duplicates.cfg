\* Two deliveries of one event at the same time.
SPECIFICATION Spec
CONSTANTS
  p1 = p1  p2 = p2  k1 = k1  k2 = k2  c1 = c1  c2 = c2  d1 = d1  d2 = d2
  ebook = ebook  pro = pro
  People = {p1}
  MaxUsers = 1
  Customers = {c1}
  Checkouts = {k1}
  OneTime = {ebook}
  Subs = {}
  Available = {ebook}
  Statuses = {}
  Deliveries = {d1, d2}
  MaxEvents = 1
  MaxFaults = 0
  MaxGifts = 1
  Orderly = FALSE
  NoCust = NoCust
  NoRow = NoRow
  NoPerson = NoPerson
  NoProduct = NoProduct
INVARIANT RecordedEventIsSkipped
CHECK_DEADLOCK FALSE
