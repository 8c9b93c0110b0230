\* MBC3 clock: calendar, rollover, latch and recovery from stored values.
CONSTANTS
  ClockSpeed = 2
  SecMod = 2
  SecSize = 4
  MinMod = 2
  MinSize = 3
  HourMod = 2
  HourSize = 3
  DayLowSize = 1
  SecInputs <- MCInputs
  MinInputs <- MCInputs
  HourInputs <- MCInputs
  DayLowInputs = {0}
  MaxStores = 2

SPECIFICATION CalSpec

INVARIANTS
  LatchNeverAhead

PROPERTIES
  CalendarStep
  Heals
