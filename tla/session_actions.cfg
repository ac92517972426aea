SPECIFICATION FairSpec
CONSTANTS
  p1 = p1
  p2 = p2
  Actions = {p1, p2}
  None = None
  Delivery <- FollowUps
  Batching <- FollowUpsTogether
  Shells = {"user"}
  MaxRetries = 1
  MaxStops = 1
INVARIANTS
  
  TicketsTellTheTruth
  CheckpointIsExact
  
PROPERTIES
  PreparedForTheLast
  BegunEnds
CHECK_DEADLOCK FALSE
