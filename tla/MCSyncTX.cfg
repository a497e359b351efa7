SPECIFICATION TXFairSpec
CONSTANTS
  NumBuffers = 4
  NumXfers = 2
  SamplesPerBuffer = 2
  Requests = {1, 3}
  Timeouts = {TRUE, FALSE}
  MaxFaults = 1
  MaxLate = 1
INVARIANTS
  TXTypeOK
  TXOwnership
PROPERTIES
  TXInOrder
  TXCloses
