\* The bank at 4000..7FFF of an MBC1 cartridge with RAM banks.
CONSTANTS
  mbc1 = mbc1
  mbc2 = mbc2
  mbc3 = mbc3
  mbc5 = mbc5
  Games = {mbc1}
  NoGame = NoGame
  NoFile = NoFile
  Header <- MCHeader
  RamBankSize = 2
  Mbc2RamSize = 1
  RegisterBytes = {0, 1, 10}
  DataBytes = {23}
  Offsets = {0, 1}
  HeapBytes = {7}
  MaxStores = 2

SPECIFICATION FileSpec

INVARIANTS
  WindowShowsSwitchableBank
