SPECIFICATION TXSpec
CONSTANTS
  NumBuffers = 4
  NumXfers = 2
  SamplesPerBuffer = 2
  Requests = {1, 3}
  Timeouts = {FALSE}
  MaxFaults = 0
  MaxLate = 0
INVARIANTS InFlightIsTransferred
