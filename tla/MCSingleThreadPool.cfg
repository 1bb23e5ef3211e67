SPECIFICATION StpSpec
CONSTANTS
  NumTasks = 5
  Scenarios <- MCScenarios
INVARIANTS
  QueueCounted
  FinishLast
  EveryPictureDone
PROPERTIES
  AllPicturesEnd
CHECK_DEADLOCK FALSE
