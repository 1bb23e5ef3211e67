CONSTANTS
  MaxPictures = 6
  MaxNals = 2
  MaxErrors = 2
  TryContinue = TRUE
  CopiedPictures = {2, 5}
  BadPictures = {4}
SPECIFICATION Spec
INVARIANTS InOrder EofIsTheEnd LocksMatch
PROPERTIES FlushEnds
