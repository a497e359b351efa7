SPECIFICATION Spec
CONSTANTS
  Width = 2
  Height = 2
  NumProcs = 3
  NumSeen = 2
  MaxIterations = 6
  MaxEvents = 1
  NoColor = NoColor
  Views = {0, 1}
  View0 = 0
  UpperLeftX <- MCUpperLeftX
  UpperLeftY <- MCUpperLeftY
  XSize <- MCXSize
  YSize <- MCYSize
INVARIANTS
  TypeOK
  Handshake
  NoPixelLost
  ViewCoherent
  GeneratorInv
  FrameComplete
  StaleBound
  FrameExact
  NoDoubleWork
