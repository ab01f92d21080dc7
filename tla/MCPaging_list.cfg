\* Up to five users on pages of two, listed and searched while they come and go.
SPECIFICATION Spec
CONSTANTS
  all = all  some = some
  PageSize = 2
  MaxId = 5
  Queries = {all, some}
  Match <- TheMatch
INVARIANTS TypeOK EmptyOnlyIfRaced WalkSeesAll WalkSeesOnce
