SPECIFICATION Spec
CONSTANTS
  a = a
  b = b
  c = c
  d = d
  g = g
  h = h
  Tasks = {a, b, c, d, g, h}
  Order <- FanOrder
  Requires <- FanRequires
  Quorum <- FanQuorum
  AttemptLimit <- FanAttemptLimit
  Resources <- NoNames
  Consumes <- NoNames
  Produces <- NoNames
  UsesRlm = TRUE
  MaxParallel = 3
  BudgetAttempts = 4
  BudgetFailures = 3
  BudgetTokens = NoLimit
  Backoff = {}
  Usages = {NoUsage}
  NoLimit = NoLimit
  NoUsage = NoUsage
  NoTask = NoTask
  Faults = {"commit", "slow"}
  MaxCrashes = 0
INVARIANTS
  PublishedOnlySucceeded
PROPERTIES
  BlockedIsJustified
