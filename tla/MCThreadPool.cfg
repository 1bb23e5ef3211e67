SPECIFICATION FairPoolSpec
CONSTANTS
  NumThreads = 2
  NumTasks = 3
  Barriers <- MCChainBarriers
  Polls <- MCChainPolls
  MayThrow = {1}
  ChunkSize = 2
  MayClose = TRUE
  SpuriousWakeups = TRUE
INVARIANTS
  SlotExclusive
  CounterExact
  WaitMeansCleared
  NothingRunsEarly
  NoLostWakeup
PROPERTIES
  PoolComesToRest
CHECK_DEADLOCK FALSE
