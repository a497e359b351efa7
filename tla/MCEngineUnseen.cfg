SPECIFICATION Spec
CONSTANTS
  Width = 2
  Height = 1
  NumProcs = 3
  NumSeen = 2
  MaxIterations = 2
  MaxEvents = 0
  NoColor = NoColor
  Views = {0}
  View0 = 0
  UpperLeftX <- MCUpperLeftX
  UpperLeftY <- MCUpperLeftY
  XSize <- MCXSize
  YSize <- MCYSize
PROPERTIES
  DispatchesWhenWanted
