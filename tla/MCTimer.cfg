\* Timer: edge rule and interrupt time.
CONSTANTS
  DivSize = 128
  TimaSize = 4
  ResetDiv = 64
  DivBit <- MCDivBit
  TimaInputs <- MCTimaInputs

SPECIFICATION BusSpec

PROPERTIES
  TimaCountsEdges
  InterruptOnTime
