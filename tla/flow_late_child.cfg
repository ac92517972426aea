SPECIFICATION Spec
CONSTANTS
  a = a
  b = b
  c = c
  d = d
  g = g
  h = h
  Tasks = {a, b}
  Order <- ChainOrder
  Requires <- ChainRequires
  Quorum <- PairQuorum
  AttemptLimit <- PairAttemptLimit
  Resources <- NoNames
  Consumes <- NoNames
  Produces <- NoNames
  UsesRlm = TRUE
  MaxParallel = 2
  BudgetAttempts = 3
  BudgetFailures = 2
  BudgetTokens = NoLimit
  Backoff = {}
  Usages = {NoUsage}
  NoLimit = NoLimit
  NoUsage = NoUsage
  NoTask = NoTask
  Faults = {"slow"}
  MaxCrashes = 1
INVARIANTS
  NoSecondLiveChild
