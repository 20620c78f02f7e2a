SPECIFICATION Spec
CONSTANTS
  p = p
  q = q
  Threads = {p, q}
  MaxItems = 4
  MaxId = 4
INVARIANTS
  NothingLost
