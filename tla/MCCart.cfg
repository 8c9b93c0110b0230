\* Cartridges of all mappers, their RAM and its file.
CONSTANTS
  mbc1 = mbc1
  mbc2 = mbc2
  mbc3 = mbc3
  mbc5 = mbc5
  Games = {mbc1, mbc2, mbc3, mbc5}
  NoGame = NoGame
  NoFile = NoFile
  Header <- MCHeader
  RamBankSize = 2
  Mbc2RamSize = 1
  RegisterBytes = {1, 4, 10}
  DataBytes = {23}
  Offsets = {0, 1}
  HeapBytes = {0}
  MaxStores = 2

SPECIFICATION FileSpec

INVARIANTS
  FileTypeOK
  LatestStoreReadsBack

PROPERTIES
  ImplementsSlot
