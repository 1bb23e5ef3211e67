CONSTANTS
  AlfIds = {"alf1"}
  Contents = {1, 2}
  StoredInPicture = {"pps", "lmcs"}
  MaxInPicture = 1
  NumPictures = 2
  MaxSlices = 2
  MaxStores = 6
SPECIFICATION Spec
INVARIANTS PointersAlive DecodedAsSent
CHECK_DEADLOCK FALSE
