\* PPU: frame timing, OAM scan, DMA and STAT.
CONSTANTS
  DmaBytes = 2
  DmaPeriod = 2
  IntMax = 4
  ScanCycles = 3
  LineCycles = 7
  DrawMin = 2
  DrawMax = 3
  Height = 2
  Lines = 3
  FirstSkip = 1
  LycInputs = {1}
  StatInputs <- MCStatInputs

SPECIFICATION FrameSpec

INVARIANTS
  LineOnTime
  SpritesOfThisLine
  DmaOnTime

PROPERTIES
  TransferIntact
  OneRequestPerRise
  FrameCompletes
