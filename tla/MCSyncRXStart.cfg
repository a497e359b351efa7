SPECIFICATION RXFairSpec
CONSTANTS
  NumBuffers = 4
  NumXfers = 2
  SamplesPerBuffer = 2
  Requests = {1, 3}
  Timeouts = {TRUE, FALSE}
  MaxFaults = 2
  MaxLate = 0
PROPERTY FailedStartEnds
