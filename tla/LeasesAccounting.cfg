SPECIFICATION ClearingSpec
CONSTANTS
  r1 = r1
  r2 = r2
  h1 = h1
  h2 = h2
  NoHolder = NoHolder
  Resources = {r1, r2}
  Holders = {h1}
  Requests = {0}
  MinDuration = 1
  MaxDuration = 2
  StartToken = 1
  ResetToken = 1
  MaxClock = 2
  MaxGrants = 2
  MaxDepth = 2
SYMMETRY ResourceSymmetry
INVARIANTS
  Accounting
  StaleNowIsSafe
