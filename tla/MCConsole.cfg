\* Work RAM in three banks with its echo, and video RAM, under two
\* breakpoints.
CONSTANTS
  Addresses = {32768, 49152, 53248, 57344, 61440}
  Values = {0, 1}
  Banks = {0, 7, 8}
  Code = {0, 256}
  Slots = 2

SPECIFICATION Spec

INVARIANT StoreReadsBack

PROPERTY ImplementsBreakpoints
