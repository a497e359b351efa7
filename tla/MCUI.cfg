SPECIFICATION UIFairSpec
CONSTANTS
  Columns = 2
  Rows = 2
  StartX = 1
  StartY = 0
  Deltas <- MCDeltas
  MoveLimit = 2
  Debounce = 4
  Saturation = 5
  Period = 3
  ZoomLimit = 3
  TableSize = 3
  Unset = Unset
INVARIANTS
  UITypeOK
  OneStepPerUpdate
  ViewsAreStacked
PROPERTY ShowsStack
PROPERTY EveryStepShown
