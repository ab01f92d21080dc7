\* Two links for one new address, opened at the same time.
SPECIFICATION Spec
CONSTANTS
  p1 = p1  p2 = p2  t1 = t1  t2 = t2  t3 = t3  s1 = s1  s2 = s2
  v1 = v1  v2 = v2  q1 = q1  q2 = q2
  People = {p1, p2}
  MaxUsers = 2
  Tokens = {t1, t2}
  Sessions = {s1, s2}
  Verifies = {v1, v2}
  Requests = {q1}
  TokenTTL = 1
  SessionTTL = 1
  MaxTime = 2
  Offset <- TheOffset
  MaxFaults = 0
  NoRow = NoRow
  NoPerson = NoPerson
  NoToken = NoToken
  NoSession = NoSession
PROPERTY FindOrCreate
