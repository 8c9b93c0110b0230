\* CPU: interrupts and low-power modes, safety and wake-up.
CONSTANTS
  N = 5
  JOYPAD = 4
  TickIrqs <- MCTickIrqs

SPECIFICATION MasterSpec

INVARIANTS
  MasterIsEarned
  NothingMissed
  NullVectorOnlyByPush

PROPERTIES
  RequestsKept
  HaltWakes
