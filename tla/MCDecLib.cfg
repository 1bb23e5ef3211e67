CONSTANTS
  MaxPictures = 7
  MaxDecPicBuffering = 3
  NumReorderPics = 1
  ParseFrameDelay = 1
  DecInstances = 2
  MaxOutOfOrderPics = 1
  Inputs <- MCInputs
  MaxErrors = 1
  MaxFlushes = 1
  MaxHeld = 1
SPECIFICATION Spec
INVARIANTS BufferChecksHold ErrorsReportedOnce WithheldOnlyBehindStuck
PROPERTIES ReuseSafe KeepsOrder CallsReturn
CHECK_DEADLOCK FALSE
