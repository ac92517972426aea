SPECIFICATION Spec
CONSTANTS
  a = a
  b = b
  c = c
  d = d
  g = g
  h = h
  Tasks = {a, b, c, d}
  Order <- JoinOrder
  Requires <- JoinRequires
  Quorum <- JoinQuorum
  AttemptLimit <- JoinAttemptLimit
  Resources <- NoNames
  Consumes <- JoinConsumes
  Produces <- JoinProduces
  UsesRlm = FALSE
  MaxParallel = 2
  BudgetAttempts = 4
  BudgetFailures = 3
  BudgetTokens = NoLimit
  Backoff = {}
  Usages = {NoUsage}
  NoLimit = NoLimit
  NoUsage = NoUsage
  NoTask = NoTask
  Faults = {"commit", "timeout", "cancel"}
  MaxCrashes = 1
PROPERTIES
  ImplementsContract
