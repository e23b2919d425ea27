SPECIFICATION Spec
CONSTANTS
  i1 = i1
  i2 = i2
  i3 = i3
  r1 = r1
  r2 = r2
  Ids = {i1, i2, i3}
  Relations = {r1, r2}
  Events <- Delivered
  Saves = {s1, s2}
  Pids = {p1, p2}
  MaxOverlap = 2
  MaxReceived = 1
  Partial = Partial
  NULL = NULL
INVARIANTS
  StateFileWhole
CHECK_DEADLOCK FALSE
SYMMETRY Symmetry
