SPECIFICATION Spec
CONSTANTS
  u1 = u1
  u2 = u2
  n1 = n1
  Users = {u1, u2}
  Expiry = 0
  MaxTime = 2
  MaxSessions = 2
  Names = {n1}
  NoEntry = NoEntry
  Never = Never
  MaxEntries = 2
  MaxVersions = 2
  Fallback = Fallback
  NoAnswer = NoAnswer
  MaxDepth = 2
SYMMETRY UserSymmetry
INVARIANTS
  AnswerTellsRevocation
PROPERTY
  ActorIsTokenUser
