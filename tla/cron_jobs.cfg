SPECIFICATION Spec
CONSTANTS
  o = o
  h = h
  Jobs = {o, h}
  Kind <- MCKind
  Sessions = {s1, s2}
  Runtimes = {r1, r2}
  None = None
  MaxTicks = 2
  MaxCrashes = 1
INVARIANTS  ClaimsAreDispatches NextRunIsArmed RestartIsQuiet
PROPERTIES DeliveredWhileActive DueIsClaimed
CHECK_DEADLOCK FALSE
