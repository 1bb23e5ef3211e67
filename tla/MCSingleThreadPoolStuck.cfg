SPECIFICATION StpSpec
CONSTANTS
  NumTasks = 3
  Scenarios <- MCTwoPictures
PROPERTIES
  AllPicturesEnd
CHECK_DEADLOCK FALSE
