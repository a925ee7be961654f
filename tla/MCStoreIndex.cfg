SPECIFICATION FairSpec
CONSTANTS
  Paths = {p1, p2}
  ThresholdNum = 1
  ThresholdDen = 2
  EventQueue = 2
  MaxCount = 3
  Watching = TRUE
  NoPath = nopath
INVARIANT IndexedStaysFindable
PROPERTIES NeverForgotten ScannerKeepsUp
