SPECIFICATION Spec
CONSTANTS
  r1 = r1
  r2 = r2
  h1 = h1
  h2 = h2
  NoHolder = NoHolder
  Resources = {r1}
  Holders = {h1, h2}
  Requests <- MCRequests
  MinDuration = 1
  MaxDuration = 2
  StartToken = 1
  ResetToken = 1
  MaxClock = 3
  MaxGrants = 2
  MaxDepth = 3
SYMMETRY HolderSymmetry
INVARIANTS
  BeliefBacked
  MutualExclusion
  NewestTokenOnRecord
PROPERTY
  ImplementsMutex
