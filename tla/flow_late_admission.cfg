SPECIFICATION FairSpec
CONSTANTS
  a = a
  b = b
  c = c
  d = d
  g = g
  h = h
  Tasks = {a, b}
  Order <- ChainOrder
  Requires <- ChainRequires
  Quorum <- PairQuorum
  AttemptLimit <- PairAttemptLimit
  Resources <- NoNames
  Consumes <- NoNames
  Produces <- NoNames
  UsesRlm = TRUE
  MaxParallel = 2
  BudgetAttempts = 3
  BudgetFailures = 2
  BudgetTokens = NoLimit
  Backoff = {a}
  Usages = {NoUsage}
  NoLimit = NoLimit
  NoUsage = NoUsage
  NoTask = NoTask
  Faults = {"list", "delete", "commit", "timeout", "wall", "cancel", "slow", "vanish"}
  MaxCrashes = 1
INVARIANTS
  SuccessIsComplete
PROPERTIES
  FlowEndIsFinal
  CallsReturn
