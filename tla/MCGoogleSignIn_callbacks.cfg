\* Two callbacks at once, with sign-ups and deletions in between.
SPECIFICATION Spec
CONSTANTS
  p1 = p1  p2 = p2  a1 = a1  a2 = a2  b1 = b1
  g1 = g1  g2 = g2  h1 = h1  x1 = x1  c1 = c1  c2 = c2
  Addresses = {a1, a2, b1}
  Gids = {g1, g2, h1, x1}
  Verified = {g1, g2, h1}
  AddressOf <- TheAddressOf
  OwnerOf <- TheOwnerOf
  MaxUsers = 3
  Callbacks = {c1, c2}
  MaxFaults = 1
  NoRow = NoRow
  NoGid = NoGid
SYMMETRY Symmetry
INVARIANTS TypeOK GoogleIsOwners SignsInOwner OneAccountPerGoogle
CHECK_DEADLOCK FALSE
