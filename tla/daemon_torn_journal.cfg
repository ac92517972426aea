SPECIFICATION Spec
CONSTANTS
  m1 = m1
  m2 = m2
  Commands = {m1, m2}
  None = None
  CompactAfter = 3
  MaxCrashes = 1
  MaxDrops = 0
  Tears = {1}
INVARIANTS DispatchedOnce

