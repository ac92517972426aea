SPECIFICATION FairSpec
CONSTANTS
  Supervisors = {s1, s2, s3}
  Processes = {w1, w2}
  MaxTries = 3
  MaxFaults = 2
  None = None
  Gone = Gone
INVARIANTS
  RunningIsRecorded
  ObeysTheOwner
  ResultsOfTheOwner
  SocketOfTheOwner
PROPERTIES
  AloneIsAnswered
CHECK_DEADLOCK FALSE
