SPECIFICATION Spec
CONSTANTS
  a = a
  b = b
  c = c
  d = d
  g = g
  h = h
  Tasks = {a, b}
  Order <- PairOrder
  Requires <- PairRequires
  Quorum <- PairQuorum
  AttemptLimit <- PairAttemptLimit
  Resources <- PairResources
  Consumes <- NoNames
  Produces <- NoNames
  UsesRlm = TRUE
  MaxParallel = 2
  BudgetAttempts = 3
  BudgetFailures = 2
  BudgetTokens = 2
  Backoff = {a}
  Usages = {1, NoUsage}
  NoLimit = NoLimit
  NoUsage = NoUsage
  NoTask = NoTask
  Faults = {"list", "delete", "commit", "timeout", "wall", "cancel"}
  MaxCrashes = 1
INVARIANTS
  NoSecondLiveChild
  OrphansAreRecorded
  ResourcesExclusive
  
