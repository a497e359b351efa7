SPECIFICATION Spec
CONSTANTS
  Width = 2
  Height = 1
  NumProcs = 2
  NumSeen = 2
  MaxIterations = 1
  MaxEvents = 0
  NoColor = NoColor
  Views = {0}
  View0 = 0
  UpperLeftX <- MCUpperLeftX
  UpperLeftY <- MCUpperLeftY
  XSize <- MCXSize
  YSize <- MCYSize
INVARIANTS
  ScreenFilled
