SPECIFICATION ListSpec
CONSTANTS
  Supply = 8
  LoadSize = 2
  Retained = 6
  SmallList = 3
  Overscan = 1
  Estimate = 1
  ItemHeights = {1}
  FirstHeights <- LowItems
  ViewHeight = 2
  Counted = TRUE
  MaxListMoves = 5
  MaxUnrest = 24
INVARIANT ChangedBoundaryAsks
CHECK_DEADLOCK FALSE
