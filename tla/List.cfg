SPECIFICATION FairSpec
CONSTANTS
  Keys = {1, 2, 3, 4, 5}
  Matching = {1, 4, 5}
  Limits = {1, 2}
  PageSize = 2
  MaxPages = 3
  MaxChanges = 2
  MaxFaults = 1
INVARIANTS NothingSkipped InOrder
PROPERTIES CursorAdvances ScanEnds
