SPECIFICATION Spec
CONSTANTS
  l1 = l1
  l2 = l2
  l3 = l3
  d1 = d1
  d2 = d2
  Listeners = {l1, l2, l3}
  MaxListeners = 3
  MaxDepth = 2
  MaxRemovals = 2
  Details = {d1, d2}
  MaxRecords = 2
SYMMETRY BusSymmetry
INVARIANTS
  CallsFollowTheList
  MissesAtMostRemovals
  ValidIsPrefix
