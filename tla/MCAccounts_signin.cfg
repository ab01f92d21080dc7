\* Two people, two links, two verify requests and two signed-in requests at once.
SPECIFICATION Spec
CONSTANTS
  p1 = p1  p2 = p2  t1 = t1  t2 = t2  t3 = t3  s1 = s1  s2 = s2
  v1 = v1  v2 = v2  q1 = q1  q2 = q2
  People = {p1, p2}
  MaxUsers = 2
  Tokens = {t1, t2}
  Sessions = {s1, s2}
  Verifies = {v1, v2}
  Requests = {q1, q2}
  TokenTTL = 1
  SessionTTL = 1
  MaxTime = 2
  Offset <- TheOffset
  MaxFaults = 1
  NoRow = NoRow
  NoPerson = NoPerson
  NoToken = NoToken
  NoSession = NoSession
SYMMETRY Symmetry
INVARIANTS TypeOK SessionIsAddressees ActsForHolder
PROPERTIES ImplementsDirectory ImplementsSignIn OthersStaySignedIn
