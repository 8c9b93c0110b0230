----------------------------- MODULE Cartridge -----------------------------
(***************************************************************************)
(* The memory controllers of lib/cart.c: MBC1, MBC2, MBC3 and MBC5 map     *)
(* bus addresses to banks of ROM and RAM through a few write-only          *)
(* registers.                                                              *)
(*                                                                         *)
(* A write to a register is known by the lowest address of its area        *)
(* (MBC2 also looks at bit 8 of the address); a RAM access is known by its *)
(* offset into A000..BFFF.  ROM contents never change and are left out:    *)
(* what the ROM windows show is a bank number.  The clock behind RAM banks *)
(* 8 to 12 of MBC3 is in Mbc3Rtc.                                          *)
(***************************************************************************)
EXTENDS Integers, Sequences

CONSTANTS
  Games,        \* ROM files
  Header,       \* what the header of each says of its cartridge
  NoGame,
  RamBankSize,  \* FGB_CART_RAM_BANK_SIZE
  Mbc2RamSize,  \* 512 in the code
  RegisterBytes, DataBytes \* what software writes to registers and to RAM

Byte == 0..255

CartHeader ==
  [ mapper : {"MBC1", "MBC2", "MBC3", "MBC5"},
    rom_banks : {2, 4, 8, 16, 32, 64, 128, 256, 512},
    ram_banks : {0, 1, 4, 8, 16},
    battery : BOOLEAN, rumble : BOOLEAN ]

ASSUME CartAssumption ==
  /\ NoGame \notin Games
  /\ Header \in [Games -> CartHeader]
  /\ RamBankSize \in Nat \ {0} /\ Mbc2RamSize \in Nat \ {0}
  /\ RegisterBytes \subseteq Byte /\ DataBytes \subseteq Byte

VARIABLES
  game,  \* the cartridge in the console
  reg,   \* its registers
  ram    \* cart->ram: all banks, one after the other

cartVars == <<game, reg, ram>>

Mapper == Header[game].mapper

RegisterFile ==
  [ rom_bank : Byte, rom_bank_high : 0..1, ram_bank : 0..15,
    ram_enabled : BOOLEAN, mode : 0..1, rumble_enabled : BOOLEAN ]

\* ram_size_bytes: MBC2 has its own RAM, the others what the header says.
RamSize(g) == IF Header[g].mapper = "MBC2" THEN Mbc2RamSize
              ELSE Header[g].ram_banks * RamBankSize

Contents(g) == [1..RamSize(g) -> Byte]
Blank(g) == [i \in 1..RamSize(g) |-> 0]

\* The registers after fgb_cart_load.
PowerOn(g) ==
  [ rom_bank |-> IF Header[g].mapper \in {"MBC1", "MBC3"} THEN 1 ELSE 0,
    rom_bank_high |-> 0, ram_bank |-> 0, ram_enabled |-> FALSE, mode |-> 0,
    rumble_enabled |-> FALSE ]

-----------------------------------------------------------------------------
(* The registers *)

Areas == {"0000", "2000", "3000", "4000", "6000"}

\* `value & 0x0F' is 0x0A.
Unlocks(value) == value % 16 = 10

\* Mutant of RomBank: a bank beyond the ROM is not brought back into it.
RomBankUnmasked(g, value, width) == IF value = 0 THEN 1 ELSE value % width

\* The bank a ROM register of MBC1, MBC2 or MBC3 takes: 0 reads as 1, and
\* rom_bank_mask cuts the value before 0 is looked for again.
RomBank(g, value, width) ==
  IF value = 0 THEN 1 ELSE (value % Header[g].rom_banks) % width

WriteMbc1(area, value) ==
  CASE area = "0000" -> [reg EXCEPT !.ram_enabled = Unlocks(value)]
    [] area \in {"2000", "3000"} -> [reg EXCEPT !.rom_bank = RomBank(game, value, 32)]
    [] area = "4000" -> [reg EXCEPT !.ram_bank = value % 4]
    [] area = "6000" -> [reg EXCEPT !.mode = value % 2]

WriteMbc2(area, bit8, value) ==
  CASE area \in {"4000", "6000"} -> reg
    [] bit8 -> [reg EXCEPT !.rom_bank = RomBank(game, value, 16)]
    [] OTHER -> [reg EXCEPT !.ram_enabled = Unlocks(value)]

\* The write to 6000 latches the clock; banks 8 to 12 are its registers.
WriteMbc3(area, value) ==
  CASE area = "0000" -> [reg EXCEPT !.ram_enabled = Unlocks(value)]
    [] area \in {"2000", "3000"} -> [reg EXCEPT !.rom_bank = RomBank(game, value, 256)]
    [] area = "4000" /\ value \in (0..3) \union (8..12) -> [reg EXCEPT !.ram_bank = value]
    [] OTHER -> reg

\* With a rumble motor bit 3 of the RAM bank drives it.
WriteMbc5(area, value) ==
  CASE area = "0000" -> [reg EXCEPT !.ram_enabled = Unlocks(value)]
    [] area = "2000" -> [reg EXCEPT !.rom_bank = value]
    [] area = "3000" -> [reg EXCEPT !.rom_bank_high = value % 2]
    [] area = "4000" /\ Header[game].rumble ->
         [reg EXCEPT !.ram_bank = value % 8, !.rumble_enabled = (value % 16) \div 8 = 1]
    [] area = "4000" -> [reg EXCEPT !.ram_bank = value % 16]
    [] OTHER -> reg

\* A write below 8000.
WriteRegister(area, bit8, value) ==
  /\ reg' = CASE Mapper = "MBC1" -> WriteMbc1(area, value)
              [] Mapper = "MBC2" -> WriteMbc2(area, bit8, value)
              [] Mapper = "MBC3" -> WriteMbc3(area, value)
              [] Mapper = "MBC5" -> WriteMbc5(area, value)
  /\ UNCHANGED <<game, ram>>

-----------------------------------------------------------------------------
(* The windows *)

\* The bank at 4000..7FFF.
RomWindow ==
  CASE Mapper = "MBC1" -> reg.ram_bank * 32 + reg.rom_bank
    [] Mapper = "MBC5" -> reg.rom_bank_high * 256 + reg.rom_bank
    [] OTHER -> reg.rom_bank

\* Mutant of StoreBank: MBC1 uses the bank register in the simple mode too.
StoreBankAnyMode == reg.ram_bank

\* The RAM bank a write goes to, and the one a read comes from: the two
\* decode the registers separately.
StoreBank == IF Mapper = "MBC1" /\ reg.mode = 0 THEN 0 ELSE reg.ram_bank
ReadBank == IF Mapper = "MBC1" /\ reg.mode = 0 THEN 0 ELSE reg.ram_bank

\* The place of an offset in `ram'.
Cell(bank, offset) ==
  IF Mapper = "MBC2" THEN (offset % Mbc2RamSize) + 1 ELSE bank * RamBankSize + offset + 1

\* Software uses the RAM it has: it is enabled, and the bank selected is one
\* of the cartridge.
RamAnswers(bank) ==
  /\ reg.ram_enabled
  /\ Mapper = "MBC2" \/ bank < Header[game].ram_banks
  /\ Mapper = "MBC3" => bank < 4

\* A read of A000..BFFF.  MBC2 has four bits a cell, the others read as 1.
Read(offset) ==
  LET byte == ram[Cell(ReadBank, offset)] IN
  IF Mapper = "MBC2" THEN 240 + (byte % 16) ELSE byte

\* A write to A000..BFFF.
Store(offset, value) ==
  /\ RamAnswers(StoreBank)
  /\ ram' = [ram EXCEPT ![Cell(StoreBank, offset)] =
                           IF Mapper = "MBC2" THEN value % 16 ELSE value]
  /\ UNCHANGED <<game, reg>>

=============================================================================
