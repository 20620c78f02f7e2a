SPECIFICATION Spec
CONSTANTS
  j1 = j1
  x1 = x1
  x2 = x2
  x3 = x3
  w1 = w1
  e1 = e1
  Jobs = {j1}
  Runs = {x1, x2, x3}
  NoRecord = NoRecord
  Flows = {w1}
  StopOn <- MCStopOn
  Execs = {e1}
  NoExec = NoExec
  MaxDepth = 3
SYMMETRY RunSymmetry
INVARIANT
  RunsCountedOnce
