SPECIFICATION PicFairSpec
CONSTANTS
  HeightInCtus = 2
  NumTasksPerLine = 2
  CtusInTask <- MCOneCtu
  NumThreads = 2
  DoALF = TRUE
  AllIntra = FALSE
  MayThrow = FALSE
  ParseMayFail = TRUE
  SliceMayBeLost = FALSE
PROPERTIES
  AlwaysReleased
CHECK_DEADLOCK FALSE
