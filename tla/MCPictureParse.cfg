CONSTANTS
  WidthInCtus = 2
  HeightInCtus = 2
  SliceMaps <- MCSliceMaps
  NumPictures = 2
  ParseFrameDelay = 1
  Faults = {"lost", "header", "late", "data"}
  MaxFaults = 2
SPECIFICATION FairSpec
INVARIANTS ChecksWork NoHoles LineMeansLine ErrorsReported
PROPERTIES BarriersSettle CallsReturn
CHECK_DEADLOCK FALSE
