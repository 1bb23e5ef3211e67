CONSTANTS
  MaxPictures = 7
  MaxDecPicBuffering = 3
  NumReorderPics = 1
  ParseFrameDelay = 1
  DecInstances = 2
  MaxOutOfOrderPics = 1
  Inputs <- ReconFailsInputs
  MaxErrors = 1
  MaxFlushes = 0
  MaxHeld = 1
SPECIFICATION Spec
INVARIANT Drained
CHECK_DEADLOCK FALSE
