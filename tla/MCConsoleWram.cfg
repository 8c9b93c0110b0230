\* The last bank of work RAM and a byte of high RAM.
CONSTANTS
  Addresses = {53248, 65408}
  Values = {0, 1}
  Banks = {1, 7}
  Code = {0}
  Slots = 1

SPECIFICATION Spec

PROPERTY HighRamApart
