SPECIFICATION Spec
CONSTANTS
  m1 = m1
  m2 = m2
  Commands = {m1, m2}
  None = None
  CompactAfter = 3
  MaxCrashes = 2
  MaxDrops = 1
  Tears = {}
INVARIANTS DispatchedOnce AnswersAreTrue MemoryOnDisk 

