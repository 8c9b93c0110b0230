----------------------------- MODULE CartProofs -----------------------------
(***************************************************************************)
(* Proofs about the memory controllers and the battery files, for any set  *)
(* of cartridges and any sizes of their RAM.                               *)
(***************************************************************************)
EXTENDS BatteryFile, SequenceTheorems, TLAPS

\* The sizes are numbers.
LEMMA RamSizeNat == ASSUME NEW g \in Games PROVE RamSize(g) \in Nat
BY CartAssumption DEF RamSize, CartHeader

LEMMA BlankIsContents == ASSUME NEW g \in Games PROVE Blank(g) \in Contents(g)
BY RamSizeNat DEF Blank, Contents, Byte

\* What emu_init gets of a file is nothing, or as many bytes as the file has.
LEMMA SaveDataTyped ==
  ASSUME NEW g \in Games, file[g] \in Seq(Byte) \union {NoFile}, NEW data \in SaveData(g),
         data # NoFile
  PROVE  file[g] \in Seq(Byte) /\ data \in Seq(Byte) /\ Len(data) = Len(file[g])
<1>1. file[g] \in Seq(Byte) /\ file[g] # NoFile
  BY DEF SaveData
<1>2. PICK n \in 0..Len(file[g]), heap \in [1..Len(file[g]) -> HeapBytes] :
        data = [i \in 1..Len(file[g]) |-> IF i <= n THEN file[g][i] ELSE heap[i]]
  <2> DEFINE Got(n, heap) == [i \in 1..Len(file[g]) |-> IF i <= n THEN file[g][i] ELSE heap[i]]
             Hs == [1..Len(file[g]) -> HeapBytes]
  <2>1. data \in {Got(n, heap) : n \in 0..Len(file[g]), heap \in Hs}
    <3>1. SaveData(g) = {NoFile} \union {Got(n, heap) : n \in 0..Len(file[g]), heap \in Hs}
      <4> HIDE DEF Hs
      <4> QED BY <1>1 DEF SaveData, Hs
    <3> HIDE DEF Got, Hs
    <3> QED BY <3>1
  <2> HIDE DEF Got, Hs
  <2>2. \E n \in 0..Len(file[g]), heap \in Hs : data = Got(n, heap)
    BY <2>1
  <2> QED BY <2>2 DEF Got, Hs
<1>3. ASSUME NEW i \in 1..Len(file[g])
      PROVE  (IF i <= n THEN file[g][i] ELSE heap[i]) \in Byte
  <2>1. file[g][i] \in Byte
    BY <1>1, ElementOfSeq
  <2>2. heap[i] \in Byte
    BY FileAssumption
  <2> QED
    BY <2>1, <2>2
<1>4. Len(file[g]) \in Nat
  BY <1>1
<1>5. data \in [1..Len(file[g]) -> Byte]
  BY <1>2, <1>3
<1> QED
  BY <1>1, <1>4, <1>5

\* What memcpy leaves in the RAM is RAM of the right size.
LEMMA LoadedIsContents ==
  ASSUME NEW g \in Games, NEW data \in Seq(Byte) PROVE Loaded(g, data) \in Contents(g)
<1>1. ASSUME NEW i \in 1..RamSize(g), i <= Len(data) PROVE data[i] \in Byte
  BY <1>1, RamSizeNat, ElementOfSeq
<1>2. \A i \in 1..RamSize(g) : (IF i <= Len(data) THEN data[i] ELSE 0) \in Byte
  BY <1>1 DEF Byte
<1> QED BY <1>2 DEF Loaded, Contents

\* A masked bank register names a bank of the ROM.
LEMMA RomBankInRom ==
  ASSUME NEW g \in Games, NEW value \in Byte, NEW width \in {16, 32, 256}
  PROVE  RomBank(g, value, width) \in Byte /\ RomBank(g, value, width) < Header[g].rom_banks
<1> DEFINE banks == Header[g].rom_banks
<1>1. banks \in {2, 4, 8, 16, 32, 64, 128, 256, 512}
  BY CartAssumption DEF CartHeader
<1> HIDE DEF banks
<1>2. value % banks \in 0..(banks - 1) /\ value % banks <= value
  BY <1>1 DEF Byte
<1>3. (value % banks) % width \in 0..(value % banks)
  BY <1>1, <1>2
<1>4. RomBank(g, value, width) = IF value = 0 THEN 1 ELSE (value % banks) % width
  BY DEF RomBank, banks
<1>5. RomBank(g, value, width) \in Byte /\ RomBank(g, value, width) < banks
  BY <1>1, <1>2, <1>3, <1>4 DEF Byte
<1> QED BY <1>5 DEF banks

\* The registers that every load starts with.
LEMMA PowerOnTyped ==
  ASSUME NEW g \in Games
  PROVE  PowerOn(g) \in RegisterFile /\ PowerOn(g).rom_bank < Header[g].rom_banks
BY CartAssumption DEF PowerOn, RegisterFile, Byte, CartHeader

\* The registers of a running game, whatever is written to them.
RegistersOK == reg \in RegisterFile /\ (Mapper # "MBC5" => reg.rom_bank < Header[game].rom_banks)

LEMMA WriteKeepsRegisters ==
  ASSUME game \in Games, RegistersOK,
         NEW area \in Areas, NEW bit8 \in BOOLEAN, NEW value \in Byte,
         WriteRegister(area, bit8, value)
  PROVE  RegistersOK'
<1>1. Mapper \in {"MBC1", "MBC2", "MBC3", "MBC5"} /\ Mapper' = Mapper
  BY CartAssumption DEF Mapper, CartHeader, WriteRegister
<1>2. value % 2 \in 0..1 /\ value % 4 \in 0..15 /\ value % 8 \in 0..15 /\ value % 16 \in 0..15
  BY DEF Byte
<1>3. CASE Mapper = "MBC1"
  <2>1. RomBank(game, value, 32) \in Byte /\ RomBank(game, value, 32) < Header[game].rom_banks
    BY RomBankInRom
  <2>2. reg' = WriteMbc1(area, value)
    BY <1>3 DEF WriteRegister
  <2> QED BY <1>1, <1>2, <1>3, <2>1, <2>2
          DEF RegistersOK, WriteMbc1, RegisterFile, Areas, Unlocks, WriteRegister
<1>4. CASE Mapper = "MBC2"
  <2>1. RomBank(game, value, 16) \in Byte /\ RomBank(game, value, 16) < Header[game].rom_banks
    BY RomBankInRom
  <2>2. reg' = WriteMbc2(area, bit8, value)
    BY <1>4 DEF WriteRegister
  <2> QED BY <1>1, <1>4, <2>1, <2>2
          DEF RegistersOK, WriteMbc2, RegisterFile, Areas, Unlocks, WriteRegister
<1>5. CASE Mapper = "MBC3"
  <2>1. RomBank(game, value, 256) \in Byte /\ RomBank(game, value, 256) < Header[game].rom_banks
    BY RomBankInRom
  <2>2. reg' = WriteMbc3(area, value)
    BY <1>5 DEF WriteRegister
  <2>3. \/ reg' = [reg EXCEPT !.ram_enabled = Unlocks(value)]
        \/ reg' = [reg EXCEPT !.rom_bank = RomBank(game, value, 256)]
        \/ reg' = [reg EXCEPT !.ram_bank = value] /\ value \in 0..15
        \/ reg' = reg
    BY <2>2 DEF WriteMbc3
  <2>4. game' = game
    BY DEF WriteRegister
  <2> QED BY <1>1, <2>1, <2>3, <2>4 DEF RegistersOK, RegisterFile, Unlocks
<1>6. CASE Mapper = "MBC5"
  <2>1. reg' = WriteMbc5(area, value)
    BY <1>6 DEF WriteRegister
  <2> QED BY <1>1, <1>2, <1>6, <2>1
          DEF RegistersOK, WriteMbc5, RegisterFile, Areas, Unlocks, WriteRegister
<1> QED BY <1>1, <1>3, <1>4, <1>5, <1>6

-----------------------------------------------------------------------------
(* The invariant *)

\* RAM as a sequence, and what a save makes of it.
LEMMA ContentsIsSeq ==
  ASSUME NEW g \in Games, NEW m \in Contents(g)
  PROVE  m \in Seq(Byte) /\ Len(m) = RamSize(g)
BY RamSizeNat DEF Contents

LEMMA SavedIsSeq ==
  ASSUME NEW g \in Games, NEW m \in Contents(g), NEW n \in 1..Len(m)
  PROVE  /\ SubSeq(m, 1, n) \in Seq(Byte)
         /\ Len(SubSeq(m, 1, n)) = n
         /\ n = Len(m) => SubSeq(m, 1, n) = m
<1>1. m \in Seq(Byte) /\ Len(m) \in Nat
  BY ContentsIsSeq
<1>2. \A i \in 1..n : m[i] \in Byte
  BY <1>1, ElementOfSeq
<1> QED BY <1>1, <1>2, SubSeqProperties, SubSeqFull

\* The name of the save file is that of the game in the console.
FileInv == FileTypeOK /\ rom_path = game

LEMMA FileInvInit == FileInit => FileInv
<1> SUFFICES ASSUME FileInit PROVE FileInv
  OBVIOUS
<1>1. file \in [Games -> Seq(Byte) \union {NoFile}] /\ stores \in 0..MaxStores
  BY FileAssumption DEF FileInit
<1> QED BY <1>1, CartAssumption DEF FileInit, FileInv, FileTypeOK

\* A load leaves a typed console, whichever game and file.
LEMMA EmuInitTyped ==
  ASSUME FileInv, NEW g \in Games, NEW data \in SaveData(g), EmuInit(g, data),
         UNCHANGED <<file, stores>>
  PROVE  FileInv'
<1>1. ram' \in Contents(g)
  <2>1. CASE Loads(g, data)
    <3>1. data \in Seq(Byte)
      BY <2>1, SaveDataTyped DEF Loads, FileInv, FileTypeOK
    <3> QED BY <2>1, <3>1, LoadedIsContents DEF EmuInit
  <2>2. CASE ~Loads(g, data)
    BY <2>2, BlankIsContents DEF EmuInit
  <2> QED BY <2>1, <2>2
<1>2. RegistersOK'
  BY PowerOnTyped DEF EmuInit, RegistersOK, Mapper
<1> QED BY <1>1, <1>2, CartAssumption DEF EmuInit, FileInv, FileTypeOK, RegistersOK

\* A store keeps the RAM the size it has.
LEMMA StoreTyped ==
  ASSUME FileInv, NEW offset \in Offsets, NEW value \in DataBytes,
         SoftwareStore(offset, value)
  PROVE  FileInv'
<1>1. ram \in Contents(game) /\ game \in Games /\ game' = game
  BY CartAssumption DEF FileInv, FileTypeOK, SoftwareStore, Store
<1>2. value \in Byte /\ value % 16 \in Byte
  BY CartAssumption DEF Byte
<1>3. ram' \in Contents(game)
  BY <1>1, <1>2 DEF SoftwareStore, Store, Contents
<1>4. stores' \in 0..MaxStores
  BY FileAssumption DEF FileInv, FileTypeOK, SoftwareStore
<1> QED BY <1>1, <1>3, <1>4 DEF FileInv, FileTypeOK, SoftwareStore, Store, Mapper

LEMMA SelectTyped ==
  ASSUME FileInv, NEW area \in Areas, NEW bit8 \in BOOLEAN, NEW value \in RegisterBytes,
         SoftwareSelect(area, bit8, value)
  PROVE  FileInv'
<1>1. game \in Games /\ RegistersOK /\ value \in Byte
  BY CartAssumption DEF FileInv, FileTypeOK, SoftwareSelect, RegistersOK
<1>2. RegistersOK'
  BY <1>1, WriteKeepsRegisters DEF SoftwareSelect
<1> QED BY <1>1, <1>2
        DEF FileInv, FileTypeOK, SoftwareSelect, WriteRegister, RegistersOK, Mapper

LEMMA FileInvStep == FileInv /\ [FileNext]_fileVars => FileInv'
<1> SUFFICES ASSUME FileInv, [FileNext]_fileVars PROVE FileInv'
  OBVIOUS
<1>1. CASE Load
  BY <1>1, EmuInitTyped DEF Load, Start, Drop
<1>2. CASE Software
  BY <1>2, StoreTyped, SelectTyped DEF Software
<1>3. CASE ExitUnsaved \/ CloseSave \/ Kill
  BY <1>3 DEF ExitUnsaved, CloseSave, Kill, SwitchOff, FileInv, FileTypeOK
<1>4. CASE OpenSave
  <2>1. <<>> \in Seq(Byte)
    OBVIOUS
  <2>2. file' \in [Games -> Seq(Byte) \union {NoFile}]
    BY <1>4, <2>1 DEF OpenSave, FileInv, FileTypeOK
  <2> QED BY <1>4, <2>2 DEF OpenSave, FileInv, FileTypeOK, Mapper
<1>5. CASE WriteSave
  <2>1. PICK n \in 1..Len(ram) : file' = [file EXCEPT ![rom_path] = SubSeq(ram, 1, n)]
    BY <1>5 DEF WriteSave
  <2>2. game \in Games /\ ram \in Contents(game)
    BY <1>5 DEF WriteSave, FileInv, FileTypeOK
  <2>3. SubSeq(ram, 1, n) \in Seq(Byte)
    BY <2>2, SavedIsSeq
  <2>4. file' \in [Games -> Seq(Byte) \union {NoFile}]
    BY <2>1, <2>3 DEF FileInv, FileTypeOK
  <2> QED BY <1>5, <2>4 DEF WriteSave, FileInv, FileTypeOK, Mapper
<1>6. CASE UNCHANGED fileVars
  BY <1>6 DEF fileVars, FileInv, FileTypeOK, Mapper
<1> QED BY <1>1, <1>2, <1>3, <1>4, <1>5, <1>6 DEF FileNext

LEMMA FileInvAlways == FileSpec => []FileInv
BY FileInvInit, FileInvStep, PTL DEF FileSpec

\* Registers and RAM keep their types for any cartridges: no register value
\* selects a bank beyond the ROM on MBC1's low register, MBC2 or MBC3, and a
\* loaded file never changes the size of the RAM.
THEOREM CartTypeCorrect == FileSpec => []FileTypeOK
<1>1. FileInv => FileTypeOK
  BY DEF FileInv
<1> QED BY <1>1, FileInvAlways, PTL

-----------------------------------------------------------------------------
(* The save files *)

\* A save writes the file of the running game only.
THEOREM SavesOwnFile == FileSpec => OwnFileOnly
<1>1. FileInv /\ [FileNext]_fileVars =>
        [\A g \in Games : file'[g] # file[g] => g = game]_fileVars
  BY DEF FileInv, FileTypeOK, FileNext, fileVars, Load, Start, Drop, Software,
         SoftwareStore, SoftwareSelect, ExitUnsaved, OpenSave, WriteSave, CloseSave, Kill
<1> QED BY <1>1, FileInvAlways, PTL DEF FileSpec, OwnFileOnly

\* The initial files are empty slots.
LEMMA SlotInitially == FileInit => Saves!SlotInit
BY DEF FileInit, Saves!SlotInit, Slot

\* A load begins a session of the slot; one that accepts other bytes than its
\* file has is a misread save.
LEMMA LoadBegins ==
  ASSUME FileInv, NEW g \in Games, NEW data \in SaveData(g), EmuInit(g, data), UNCHANGED file
  PROVE  Saves!Begin \/ Saves!BeginMisread
<1>1. game' = g /\ Slot' = Slot
  BY DEF EmuInit, Slot
<1>2. CASE Loads(g, data)
  <2>1. /\ file[g] \in Seq(Byte) /\ data \in Seq(Byte)
        /\ Len(data) = RamSize(g) /\ Len(file[g]) = RamSize(g)
    BY <1>2, SaveDataTyped DEF Loads, FileInv, FileTypeOK
  <2>2. Loaded(g, data) = data
    BY <2>1 DEF Loaded
  <2>3. Slot[g] = file[g] /\ Slot[g] # NoFile
    <3>1. file[g] # NoFile
      BY <2>1, FileAssumption
    <3> QED BY <2>1, <3>1 DEF Slot
  <2>4. CASE data = file[g]
    BY <1>1, <1>2, <2>2, <2>3, <2>4 DEF EmuInit, Saves!Begin
  <2>5. CASE data # file[g]
    <3>1. ram' \in Contents(g)
      BY <1>2, <2>1, LoadedIsContents DEF EmuInit
    <3> QED BY <1>1, <1>2, <2>3, <2>5, <3>1 DEF EmuInit, Saves!BeginMisread
  <2> QED BY <2>4, <2>5
<1>3. CASE ~Loads(g, data)
  BY <1>1, <1>3 DEF EmuInit, Saves!Begin
<1> QED BY <1>2, <1>3

\* Opening and writing the file spoil the slot until the last byte, which
\* commits it.
LEMMA WritingSaves ==
  ASSUME FileInv, OpenSave \/ WriteSave PROVE Saves!Spoil \/ Saves!Commit
<1>1. game \in Games /\ game # NoGame /\ rom_path = game /\ ram \in Contents(game)
      /\ UNCHANGED <<game, ram, misread>>
  BY CartAssumption DEF FileInv, FileTypeOK, OpenSave, WriteSave
<1>2. RamSize(game) \in Nat /\ Len(ram) = RamSize(game)
  BY <1>1, RamSizeNat, ContentsIsSeq
<1>3. ASSUME NEW content \in Seq(Byte), file' = [file EXCEPT ![game] = content]
      PROVE  Slot' = [Slot EXCEPT ![game] =
                        IF Len(content) = RamSize(game) THEN content ELSE NoFile]
  <2>1. content # NoFile /\ file'[game] = content
    BY <1>1, <1>3, FileAssumption DEF FileInv, FileTypeOK
  <2>2. \A g \in Games : g # game => file'[g] = file[g]
    BY <1>3 DEF FileInv, FileTypeOK
  <2> QED BY <1>1, <2>1, <2>2 DEF Slot
<1>4. CASE OpenSave
  <2>1. <<>> \in Seq(Byte) /\ Len(<<>>) = 0
    OBVIOUS
  <2>2. PICK empty \in Seq(Byte) : empty = <<>> /\ Len(empty) = 0
    BY <2>1, Zenon
  <2>3. RamSize(game) > 0 /\ file' = [file EXCEPT ![game] = empty]
    BY <1>1, <1>4, <2>2 DEF OpenSave, HasBatteryRam
  <2>4. Slot' = [Slot EXCEPT ![game] =
                   IF Len(empty) = RamSize(game) THEN empty ELSE NoFile]
    BY <1>3, <2>3
  <2>5. Len(empty) # RamSize(game)
    BY <2>2, <2>3
  <2>6. Slot' = [Slot EXCEPT ![game] = NoFile]
    BY <2>4, <2>5, Zenon
  <2> QED BY <1>1, <2>6 DEF Saves!Spoil
<1>5. CASE WriteSave
  <2>1. PICK n \in 1..Len(ram) : file' = [file EXCEPT ![game] = SubSeq(ram, 1, n)]
    BY <1>1, <1>5 DEF WriteSave
  <2>2. /\ SubSeq(ram, 1, n) \in Seq(Byte) /\ Len(SubSeq(ram, 1, n)) = n
        /\ n = Len(ram) => SubSeq(ram, 1, n) = ram
    BY <1>1, SavedIsSeq
  <2>3. Slot' = [Slot EXCEPT ![game] = IF n = Len(ram) THEN ram ELSE NoFile]
    BY <1>2, <1>3, <2>1, <2>2
  <2>4. CASE n = Len(ram)
    BY <1>1, <2>3, <2>4 DEF Saves!Commit
  <2>5. CASE n # Len(ram)
    BY <1>1, <2>3, <2>5 DEF Saves!Spoil
  <2> QED BY <2>4, <2>5
<1> QED BY <1>4, <1>5

\* What software does is play, and the end of the process a stop.
LEMMA PlayingKeepsSlot ==
  ASSUME FileInv, FileInv', Software \/ ExitUnsaved \/ CloseSave \/ Kill
  PROVE  Saves!Play \/ Saves!Stop
<1>1. game \in Games /\ game # NoGame
  BY CartAssumption
     DEF FileInv, FileTypeOK, Software, SoftwareStore, SoftwareSelect, ExitUnsaved, CloseSave, Kill
<1>2. Slot' = Slot
  BY DEF Slot, Software, SoftwareStore, SoftwareSelect, ExitUnsaved, CloseSave, Kill
<1>3. CASE Software
  <2>1. game' = game /\ misread' = misread
    BY <1>3 DEF Software, SoftwareStore, SoftwareSelect, Store, WriteRegister
  <2>2. ram' \in Contents(game)
    BY <1>1, <2>1 DEF FileInv, FileTypeOK
  <2> QED BY <1>1, <1>2, <2>1, <2>2 DEF Saves!Play
<1>4. CASE ExitUnsaved \/ CloseSave \/ Kill
  BY <1>1, <1>2, <1>4 DEF ExitUnsaved, CloseSave, Kill, SwitchOff, Saves!Stop
<1> QED BY <1>3, <1>4

\* The battery file implements the save slot: for any cartridges and any
\* sizes of RAM, no session starts with a torn save or that of another game
\* (emu_init and emu_try_save_ram in src/main.c), unless emu_init read a file
\* of the right size only in part; nothing there tells it so.
THEOREM FileIsASlot == FileSpec => ImplementsSlot
<1>1. FileInv /\ FileInv' /\ [FileNext]_fileVars => [Saves!SlotNext]_(Saves!slotVars)
  <2> SUFFICES ASSUME FileInv, FileInv', [FileNext]_fileVars
               PROVE  [Saves!SlotNext]_(Saves!slotVars)
    OBVIOUS
  <2>1. CASE Load
    BY <2>1, LoadBegins DEF Load, Start, Drop, Saves!SlotNext
  <2>2. CASE OpenSave \/ WriteSave
    BY <2>2, WritingSaves DEF Saves!SlotNext
  <2>3. CASE Software \/ ExitUnsaved \/ CloseSave \/ Kill
    BY <2>3, PlayingKeepsSlot DEF Saves!SlotNext
  <2>4. CASE UNCHANGED fileVars
    BY <2>4 DEF fileVars, Saves!slotVars, Slot
  <2> QED BY <2>1, <2>2, <2>3, <2>4 DEF FileNext
<1> QED BY <1>1, SlotInitially, FileInvAlways, PTL DEF FileSpec, ImplementsSlot, Saves!SlotSpec

-----------------------------------------------------------------------------
(* What is stored is read back, in this session and in a later one. *)

\* The cell that a store remembered in `latest' went to.
CellOf(l) ==
  IF Header[l.game].mapper = "MBC2" THEN (l.offset % Mbc2RamSize) + 1
  ELSE (IF Header[l.game].mapper = "MBC1" /\ l.mode = 0 THEN 0 ELSE l.ram_bank) * RamBankSize
         + l.offset + 1

\* What a cartridge shows of a byte in its RAM.
Shown(g, byte) == IF Header[g].mapper = "MBC2" THEN 240 + (byte % 16) ELSE byte

\* A file that is being written and has its full length is a copy of the RAM.
SavingInv ==
  phase = "saving" => (Len(file[game]) = Len(ram) => file[game] = ram)

\* While its game is in the console the latest byte is in RAM; else it is in
\* the file, and that is complete.
LatestInv ==
  latest.game \in Games =>
    /\ CellOf(latest) \in 1..RamSize(latest.game)
    /\ game = latest.game => Shown(game, ram[CellOf(latest)]) = latest.byte
    /\ game # latest.game =>
         /\ Loads(latest.game, file[latest.game])
         /\ Shown(latest.game, file[latest.game][CellOf(latest)]) = latest.byte

\* A place in a RAM of several banks.
LEMMA CellInBanks ==
  ASSUME NEW banks \in Nat, NEW size \in Nat, NEW bank \in Nat, bank < banks,
         NEW offset \in 0..(size - 1)
  PROVE  bank * size + offset + 1 \in 1..(banks * size)
<1>1. \E k \in Nat : banks = bank + 1 + k
  <2>1. banks - (bank + 1) \in Nat /\ banks = bank + 1 + (banks - (bank + 1))
    BY SMT
  <2> QED
    BY <2>1
<1>2. PICK k \in Nat : banks = bank + 1 + k
  BY <1>1
<1>3. banks * size = bank * size + size + k * size
  BY <1>2, SMT
<1>4. bank * size \in Nat /\ k * size \in Nat
  BY SMT
<1> QED
  BY <1>3, <1>4, SMT

\* A store that the RAM answers goes to one of its cells.
LEMMA StoreInRam ==
  ASSUME game \in Games, reg \in RegisterFile, NEW offset \in Offsets, RamAnswers(StoreBank)
  PROVE  Cell(StoreBank, offset) \in 1..RamSize(game)
<1>1. /\ RamBankSize \in Nat \ {0} /\ Mbc2RamSize \in Nat \ {0}
      /\ Header[game].ram_banks \in Nat
      /\ offset \in 0..(RamBankSize - 1)
      /\ StoreBank \in Nat
  BY CartAssumption, FileAssumption DEF CartHeader, StoreBank, RegisterFile
<1>2. CASE Mapper = "MBC2"
  <2>1. offset % Mbc2RamSize \in 0..(Mbc2RamSize - 1)
    BY <1>1
  <2> QED
    BY <1>1, <1>2, <2>1 DEF Cell, RamSize, Mapper
<1>3. CASE Mapper # "MBC2"
  <2>1. StoreBank < Header[game].ram_banks
    BY <1>3 DEF RamAnswers
  <2>2. StoreBank * RamBankSize + offset + 1 \in 1..(Header[game].ram_banks * RamBankSize)
    BY <1>1, <2>1, CellInBanks
  <2> QED
    BY <1>3, <2>2 DEF Cell, RamSize, Mapper
<1> QED
  BY <1>2, <1>3

LEMMA LatestInit == FileInit => SavingInv /\ LatestInv
BY CartAssumption DEF FileInit, SavingInv, LatestInv, Nothing

\* A load with all of the file keeps what is known of it; without, nothing is
\* promised.
LEMMA LoadKeepsLatest ==
  ASSUME FileInv, LatestInv, NEW g \in Games, Start(g) \/ Drop(g)
  PROVE  SavingInv' /\ LatestInv'
<1>1. SavingInv'
  BY DEF Start, Drop, EmuInit, SavingInv
<1>2. CASE latest' = Nothing
  <2>1. latest'.game \notin Games
    BY <1>2, CartAssumption DEF Nothing
  <2> QED
    BY <1>1, <2>1 DEF LatestInv
<1>3. CASE latest' # Nothing
  <2>0. Start(g) /\ phase = "off" /\ file' = file /\ game = NoGame
    <3>1. Start(g)
      BY <1>3, Zenon DEF Drop
    <3> QED
      BY <3>1 DEF Start, FileInv, FileTypeOK
  <2>9. PICK data \in SaveData(g) :
          /\ EmuInit(g, data)
          /\ latest' = IF latest.game = g /\ data # file[g] THEN Nothing ELSE latest
    BY <2>0, Zenon DEF Start
  <2>1. EmuInit(g, data) /\ latest' = latest /\ file' = file /\ game = NoGame
        /\ (g = latest.game => data = file[g])
    BY <1>3, <2>0, <2>9, Zenon
  <2>2. SUFFICES ASSUME latest.game \in Games PROVE LatestInv'
    BY <1>1, <2>1 DEF LatestInv
  <2>3. /\ CellOf(latest) \in 1..RamSize(latest.game)
        /\ Loads(latest.game, file[latest.game])
        /\ Shown(latest.game, file[latest.game][CellOf(latest)]) = latest.byte
    BY <2>1, <2>2, CartAssumption DEF LatestInv
  <2>4. game' = g
    BY <2>1 DEF EmuInit
  <2>5. CASE g = latest.game
    <3>1. ram' = Loaded(g, file[g])
      BY <2>1, <2>3, <2>5 DEF EmuInit
    <3>2. CellOf(latest) \in 1..RamSize(g) /\ CellOf(latest) <= Len(file[g])
      <4>1. RamSize(g) \in Nat /\ Len(file[g]) = RamSize(g)
        BY <2>3, <2>5, RamSizeNat DEF Loads
      <4> QED
        BY <2>3, <2>5, <4>1
    <3>3. ram'[CellOf(latest)] = file[g][CellOf(latest)]
      BY <3>1, <3>2 DEF Loaded
    <3> QED
      BY <2>1, <2>3, <2>4, <2>5, <3>3 DEF LatestInv, CellOf, Shown
  <2>6. CASE g # latest.game
    BY <2>1, <2>3, <2>4, <2>6 DEF LatestInv, CellOf, Loads
  <2> QED
    BY <2>5, <2>6
<1> QED
  BY <1>1, <1>2, <1>3

\* The store that becomes the latest is in the cell that CellOf says.
LEMMA StoreIsLatest ==
  ASSUME FileInv, NEW offset \in Offsets, NEW value \in DataBytes, SoftwareStore(offset, value)
  PROVE  SavingInv' /\ LatestInv'
<1>1. game \in Games /\ reg \in RegisterFile /\ ram \in Contents(game) /\ game' = game
  BY CartAssumption DEF FileInv, FileTypeOK, SoftwareStore, Store
<1>2. SavingInv'
  BY DEF SoftwareStore, SavingInv
<1> DEFINE c == Cell(StoreBank, offset)
           raw == IF Mapper = "MBC2" THEN value % 16 ELSE value
<1>3. c \in 1..RamSize(game)
  BY <1>1, StoreInRam DEF SoftwareStore, Store
<1>4. ram' = [ram EXCEPT ![c] = raw]
  BY DEF SoftwareStore, Store
<1>5. latest' = [ game |-> game, mode |-> reg.mode, ram_bank |-> reg.ram_bank,
                 offset |-> offset,
                 byte |-> IF Mapper = "MBC2" THEN 240 + (value % 16) ELSE value ]
  BY DEF SoftwareStore
<1>6. CellOf(latest') = c
  BY <1>5 DEF CellOf, Cell, StoreBank, Mapper
<1>7. Shown(game, raw) = latest'.byte
  <2>1. value \in Nat /\ (value % 16) % 16 = value % 16
    BY CartAssumption DEF Byte
  <2>2. CASE Mapper = "MBC2"
    BY <1>5, <2>1, <2>2 DEF Shown, Mapper
  <2>3. CASE Mapper # "MBC2"
    BY <1>5, <2>3 DEF Shown, Mapper
  <2> QED
    BY <2>2, <2>3
<1> HIDE DEF c, raw
<1>8. ram'[c] = raw
  BY <1>1, <1>3, <1>4 DEF Contents
<1>9. latest'.game = game
  BY <1>5
<1>10. LatestInv'
  <2>1. Shown(game', ram'[CellOf(latest')]) = latest'.byte
    BY <1>1, <1>6, <1>7, <1>8 
  <2>2. CellOf(latest') \in 1..RamSize(latest'.game)
    BY <1>3, <1>6, <1>9
  <2> QED
    BY <1>1, <1>9, <2>1, <2>2 DEF LatestInv, CellOf, Shown
<1> QED
  BY <1>2, <1>10

LEMMA SelectKeepsLatest ==
  ASSUME LatestInv, NEW area \in Areas, NEW bit8 \in BOOLEAN, NEW value \in RegisterBytes,
         SoftwareSelect(area, bit8, value)
  PROVE  SavingInv' /\ LatestInv'
BY DEF SoftwareSelect, WriteRegister, SavingInv, LatestInv, CellOf, Shown, Loads

\* The file of the running game holds nothing that is promised while its RAM
\* does.
LEMMA SavingKeepsLatest ==
  ASSUME FileInv, LatestInv, OpenSave \/ WriteSave
  PROVE  SavingInv' /\ LatestInv'
<1>1. /\ game \in Games /\ rom_path = game /\ ram \in Contents(game)
      /\ UNCHANGED <<game, ram, latest>>
  BY CartAssumption DEF FileInv, FileTypeOK, OpenSave, WriteSave
<1>2. RamSize(game) \in Nat /\ Len(ram) = RamSize(game)
  BY <1>1, RamSizeNat, ContentsIsSeq
<1>3. \A g \in Games : g # game => file'[g] = file[g]
  BY <1>1 DEF OpenSave, WriteSave, FileInv, FileTypeOK
<1>4. LatestInv'
  BY <1>1, <1>3 DEF LatestInv, CellOf, Shown, Loads
<1>5. CASE OpenSave
  <2>1. file'[game] = <<>> /\ RamSize(game) > 0
    BY <1>1, <1>5 DEF OpenSave, HasBatteryRam, FileInv, FileTypeOK
  <2>2. Len(file'[game']) # Len(ram')
    BY <1>1, <1>2, <2>1
  <2> QED
    BY <1>4, <2>2 DEF SavingInv
<1>6. CASE WriteSave
  <2>1. PICK n \in 1..Len(ram) : file' = [file EXCEPT ![game] = SubSeq(ram, 1, n)]
    BY <1>1, <1>6 DEF WriteSave
  <2>2. /\ Len(SubSeq(ram, 1, n)) = n
        /\ n = Len(ram) => SubSeq(ram, 1, n) = ram
    BY <1>1, SavedIsSeq
  <2>3. file'[game] = SubSeq(ram, 1, n)
    BY <1>1, <2>1 DEF FileInv, FileTypeOK
  <2>4. SavingInv'
    BY <1>1, <2>2, <2>3 DEF SavingInv
  <2> QED
    BY <1>4, <2>4
<1> QED
  BY <1>5, <1>6

LEMMA CloseKeepsLatest ==
  ASSUME FileInv, SavingInv, LatestInv, CloseSave
  PROVE  SavingInv' /\ LatestInv'
<1>1. /\ game \in Games /\ rom_path = game /\ ram \in Contents(game)
      /\ game' = NoGame /\ file' = file /\ phase' = "off"
      /\ latest' = IF Len(file[game]) = Len(ram) THEN latest ELSE Nothing
  BY CartAssumption DEF FileInv, FileTypeOK, CloseSave, SwitchOff
<1>2. SavingInv'
  BY <1>1 DEF SavingInv
<1>3. CASE Len(file[game]) # Len(ram)
  BY <1>1, <1>2, <1>3, CartAssumption DEF LatestInv, Nothing
<1>4. CASE Len(file[game]) = Len(ram)
  <2>1. file[game] = ram /\ latest' = latest
    BY <1>1, <1>4 DEF SavingInv, CloseSave
  <2>2. Loads(game, file[game])
    <3>1. file[game] # NoFile
      BY <1>1, <2>1, ContentsIsSeq, FileAssumption
    <3> QED
      BY <1>1, <2>1, <3>1, ContentsIsSeq DEF Loads
  <2>3. LatestInv'
    BY <1>1, <2>1, <2>2, CartAssumption DEF LatestInv, CellOf, Shown, Loads
  <2> QED
    BY <1>2, <2>3
<1> QED
  BY <1>3, <1>4

LEMMA LatestStep ==
  FileInv /\ SavingInv /\ LatestInv /\ [FileNext]_fileVars => SavingInv' /\ LatestInv'
<1> SUFFICES ASSUME FileInv, SavingInv, LatestInv, [FileNext]_fileVars
             PROVE  SavingInv' /\ LatestInv'
  OBVIOUS
<1>1. CASE Load
  BY <1>1, LoadKeepsLatest DEF Load
<1>2. CASE Software
  BY <1>2, StoreIsLatest, SelectKeepsLatest DEF Software
<1>3. CASE OpenSave \/ WriteSave
  BY <1>3, SavingKeepsLatest
<1>4. CASE CloseSave
  BY <1>4, CloseKeepsLatest
<1>5. CASE ExitUnsaved \/ Kill
  BY <1>5, CartAssumption DEF ExitUnsaved, Kill, SwitchOff, SavingInv, LatestInv, Nothing
<1>6. CASE UNCHANGED fileVars
  BY <1>6 DEF fileVars, SavingInv, LatestInv, CellOf, Shown, Loads
<1> QED
  BY <1>1, <1>2, <1>3, <1>4, <1>5, <1>6 DEF FileNext

\* The latest byte that software stored is what it reads with the same
\* selection, for all mappers, any bank sizes and registers, also in a session
\* that starts with the file of an earlier one, read in full (lib/cart.c,
\* emu_init and emu_try_save_ram in src/main.c).
THEOREM StoreSurvives == FileSpec => []LatestStoreReadsBack
<1>1. FileInv /\ LatestInv => LatestStoreReadsBack
  <2> SUFFICES ASSUME FileInv, LatestInv, phase = "running", latest.game = game,
                      reg.mode = latest.mode, reg.ram_bank = latest.ram_bank
               PROVE  Read(latest.offset) = latest.byte
    BY DEF LatestStoreReadsBack
  <2>1. game \in Games
    BY DEF FileInv, FileTypeOK
  <2>2. Cell(ReadBank, latest.offset) = CellOf(latest)
    BY DEF Cell, ReadBank, CellOf, Mapper
  <2>3. Read(latest.offset) = Shown(game, ram[CellOf(latest)])
    BY <2>2 DEF Read, Shown, Mapper
  <2> QED
    BY <2>1, <2>3 DEF LatestInv
<1> QED
  BY <1>1, LatestInit, LatestStep, FileInvAlways, PTL DEF FileSpec
=============================================================================
