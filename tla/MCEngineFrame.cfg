SPECIFICATION ClockSpec
CONSTANTS
  Width = 2
  Height = 1
  NumProcs = 4
  NumSeen = 4
  MaxIterations = 2
  MaxEvents = 1
  NoColor = NoColor
  Views = {0, 1}
  View0 = 0
  UpperLeftX <- MCUpperLeftX
  UpperLeftY <- MCUpperLeftY
  XSize <- MCXSize
  YSize <- MCYSize
PROPERTIES
  Finishes
  EveryResultStored
