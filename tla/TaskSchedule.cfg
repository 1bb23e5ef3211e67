SPECIFICATION Spec
CONSTANTS
  MaxWidth = 7
  MaxHeight = 3
  MaxThreads = 4
INVARIANTS
  LinePartitioned
  EachTaskOnce
  SourcesAddedFirst
CHECK_DEADLOCK FALSE
