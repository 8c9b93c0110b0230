\* The instruction set: arithmetic, timing, operands and the stack.
CONSTANTS
  RegFiles <- MCRegFiles
  FlagSets <- Flags
  Entry = 336
  Base = 65534
  Contents = {0, 151}
  Opcodes <- Byte
  Follow <- MCFollow
  MaxSteps = 4

SPECIFICATION Spec

INVARIANTS
  InsnTypeOK
  DecimalAdjusts

PROPERTIES
  TableHolds
  WideAddsAsBytes
  ImplementsCallStack
