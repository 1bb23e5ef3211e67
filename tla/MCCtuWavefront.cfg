SPECIFICATION FairSpec
CONSTANTS
  HeightInCtus = 2
  NumTasksPerLine = 2
  CtusInTask <- MCTwoOne
  NumThreads = 2
  DoALF = TRUE
  AllIntra = FALSE
  MayThrow = TRUE
INVARIANTS
  MotionSources
  IntraSourcesIntact
  DeblockOrder
  SaoCopyIntact
  AlfSourcesFinal
PROPERTIES
  EveryTaskEnds
CHECK_DEADLOCK FALSE
