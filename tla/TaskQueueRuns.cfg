SPECIFICATION FairSpec
CONSTANTS
  a = a
  b = b
  c = c
  Tasks = {a, b, c}
  MaxRetries = 2
  MaxDepth = 2
INVARIANTS
  RunsOnce
  RunsMatchRetries
PROPERTIES
  EndedIsFinal
  EveryTaskEnds
