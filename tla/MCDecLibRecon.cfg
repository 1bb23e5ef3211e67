SPECIFICATION PicFairSpec
CONSTANTS
  HeightInCtus = 2
  NumTasksPerLine = 2
  CtusInTask <- MCOneCtu
  NumThreads = 2
  DoALF = TRUE
  AllIntra = FALSE
  MayThrow = TRUE
  ParseMayFail = TRUE
  SliceMayBeLost = TRUE
INVARIANTS
  ErrorsAreReported
PROPERTIES
  KeepsPromise
  ReleasedWhenParsed
CHECK_DEADLOCK FALSE
