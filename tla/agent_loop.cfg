SPECIFICATION Spec
CONSTANTS
  InitialModes <- EqualModes
  MaxBatches = 2
  MaxTurns = 2
  MaxCalls = 2
  MaxRuns = 2
INVARIANTS AnsweredInOrder ModelSeesAnswers OneSteeringPerTurn OnlyAbortsLeaveTools
PROPERTIES KeepsMessages AbortEndsRun
CHECK_DEADLOCK FALSE
