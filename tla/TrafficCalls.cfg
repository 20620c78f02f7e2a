SPECIFICATION Spec
CONSTANTS
  m1 = m1
  m2 = m2
  t1 = t1
  t2 = t2
  g1 = g1
  g2 = g2
  k1 = k1
  s1 = s1
  c1 = c1
  c2 = c2
  c3 = c3
  standard = standard
  unknown = unknown
  fallback = fallback
  NoMessage = NoMessage
  NoEntry = NoEntry
  NoSub = NoSub
  Messages = {m1, m2}
  Topics = {t1, t2}
  Groups = {g1, g2}
  Kinds = {k1}
  SubIds = {s1}
  RetentionLimit = 1
  DefaultRetries = 1
  RetryChoices = {2}
  PollLimits = {1}
  MaxDeadLetters = 2
  Names = {standard}
  Standard = standard
  Unknown = unknown
  Fallback = fallback
  NoRule = NoRule
  NoBucket = NoBucket
  NoPromise = NoPromise
  RuleChoices <- MCRules
  StandardRule <- MCStandard
  FallbackRule <- MCFallback
  RateFloor = 1
  Costs = {1, 2}
  BanTimes = {1}
  MaxClock = 4
  Calls = {c1, c2, c3}
  FailureThreshold = 2
  SuccessThreshold = 2
  RecoveryTimeout = 2
SYMMETRY TrafficSymmetry
INVARIANTS
  IndexConsistent
  DeadLettersWait
  ReplayedOnce
  OverflowOnlyByReplay
  RedeliveredOnlyAfterDeath
  WindowBound
  BucketBound
  RetryHonoured
  ClosedBelowThreshold
PROPERTIES
  OpenIgnoresLateCalls
