---------------------------- MODULE BatteryFile ----------------------------
(***************************************************************************)
(* The front end's care for battery RAM (src/main.c): a game is loaded     *)
(* with its .sav file, another one may be dropped on the window, and at    *)
(* exit the RAM of the running game is written over its file.              *)
(*                                                                         *)
(* The file is opened, which empties it, then written piece by piece;      *)
(* any of this can fail, and the process can be killed at any point.  The  *)
(* read at the start can fail too, and nobody looks whether it did.        *)
(***************************************************************************)
EXTENDS Cartridge

CONSTANTS
  NoFile,
  Offsets,   \* offsets into A000..BFFF that software uses
  HeapBytes, \* what memory fresh from malloc may hold
  MaxStores  \* bound on the stores of a behaviour

ASSUME FileAssumption ==
  /\ Offsets \subseteq 0..(RamBankSize - 1)
  /\ HeapBytes \subseteq Byte /\ HeapBytes # {}
  /\ MaxStores \in Nat
  /\ \A g \in Games : NoFile \notin Seq(Byte)

VARIABLES
  phase,     \* "off", "running", or "saving": in emu_try_save_ram
  rom_path,  \* g_app.rom_path, which the name of the save file is made from
  file,      \* the .sav file of each ROM file
  stores,    \* stores so far
  latest,    \* history: the latest store that was not lost, and where
  misread    \* history: the session began with bytes that its file does not hold

fileVars == <<game, reg, ram, phase, rom_path, file, stores, latest, misread>>

Nothing == [game |-> NoGame]

FileInit ==
  /\ phase = "off"
  /\ game = NoGame /\ reg = <<>> /\ ram = <<>>
  /\ rom_path = NoGame
  /\ file = [g \in Games |-> NoFile]
  /\ stores = 0
  /\ latest = Nothing
  /\ misread = FALSE

\* What emu_init makes of the save file: nothing when it does not open or there
\* is no memory for it; else a buffer of the size of the file, which fread
\* fills as far as it gets.  Its result is not looked at, and the rest of the
\* buffer is what malloc left there.
SaveData(g) ==
  {NoFile} \union
  (IF file[g] = NoFile THEN {} ELSE
     {[i \in 1..Len(file[g]) |-> IF i <= n THEN file[g][i] ELSE heap[i]] :
        n \in 0..Len(file[g]), heap \in [1..Len(file[g]) -> HeapBytes]})

\* Mutant of Loads: data of another size is copied as far as it goes.
LoadsAnySize(g, data) == data # NoFile

\* fgb_cart_load_battery_buffered_ram accepts data of the right size.
Loads(g, data) == data # NoFile /\ Len(data) = RamSize(g)

\* The RAM after a load: what memcpy copies, over zeroes.
Loaded(g, data) == [i \in 1..RamSize(g) |-> IF i <= Len(data) THEN data[i] ELSE 0]

\* emu_init: the save file is tried even for a cartridge without a battery.
EmuInit(g, data) ==
  /\ game' = g
  /\ reg' = PowerOn(g)
  /\ rom_path' = g
  /\ ram' = IF Loads(g, data) THEN Loaded(g, data) ELSE Blank(g)
  /\ misread' = (Loads(g, data) /\ data # file[g])
  /\ phase' = "running"

\* main starts a game.  What its file says is lost when it is not read in full.
Start(g) ==
  /\ phase = "off"
  /\ \E data \in SaveData(g) :
       /\ EmuInit(g, data)
       /\ latest' = IF latest.game = g /\ data # file[g] THEN Nothing ELSE latest
  /\ UNCHANGED <<file, stores>>

\* drop_callback: the running console is destroyed, its RAM with it.
Drop(g) ==
  /\ phase = "running"
  /\ \E data \in SaveData(g) : EmuInit(g, data)
  /\ latest' = Nothing
  /\ UNCHANGED <<file, stores>>

SoftwareStore(offset, value) ==
  /\ phase = "running" /\ stores < MaxStores
  /\ Store(offset, value)
  /\ stores' = stores + 1
  /\ latest' = [ game |-> game, mode |-> reg.mode, ram_bank |-> reg.ram_bank,
                 offset |-> offset,
                 byte |-> IF Mapper = "MBC2" THEN 240 + (value % 16) ELSE value ]
  /\ UNCHANGED <<phase, rom_path, file, misread>>

SoftwareSelect(area, bit8, value) ==
  /\ phase = "running"
  /\ WriteRegister(area, bit8, value)
  /\ UNCHANGED <<phase, rom_path, file, stores, latest, misread>>

-----------------------------------------------------------------------------
(* The end of a session *)

SwitchOff ==
  /\ phase' = "off"
  /\ game' = NoGame /\ reg' = <<>> /\ ram' = <<>> /\ rom_path' = NoGame
  /\ misread' = FALSE

\* fgb_cart_get_battery_buffered_ram
HasBatteryRam == Header[game].battery /\ RamSize(game) > 0

\* The window is closed: nothing to save, or no file to save it in.
ExitUnsaved ==
  /\ phase = "running"
  /\ SwitchOff
  /\ latest' = Nothing
  /\ UNCHANGED <<file, stores>>

\* fopen(save_path, "wb") leaves an empty file.
OpenSave ==
  /\ phase = "running" /\ HasBatteryRam
  /\ phase' = "saving"
  /\ file' = [file EXCEPT ![rom_path] = <<>>]
  /\ UNCHANGED <<game, reg, ram, rom_path, stores, latest, misread>>

\* fwrite and fclose bring more of the RAM to the file.
WriteSave ==
  /\ phase = "saving"
  /\ \E n \in 1..Len(ram) :
       /\ n > Len(file[rom_path])
       /\ file' = [file EXCEPT ![rom_path] = SubSeq(ram, 1, n)]
  /\ UNCHANGED <<game, reg, ram, phase, rom_path, stores, latest, misread>>

\* The file is closed and the process ends.  Nobody looks at what fwrite
\* and fclose return, so the file may be short.
CloseSave ==
  /\ phase = "saving"
  /\ SwitchOff
  /\ latest' = IF Len(file[rom_path]) = Len(ram) THEN latest ELSE Nothing
  /\ UNCHANGED <<file, stores>>

\* The process is killed.
Kill ==
  /\ phase # "off"
  /\ SwitchOff
  /\ latest' = Nothing
  /\ UNCHANGED <<file, stores>>

Load == \E g \in Games : Start(g) \/ Drop(g)

Software ==
  \/ \E offset \in Offsets, value \in DataBytes : SoftwareStore(offset, value)
  \/ \E area \in Areas, bit8 \in BOOLEAN, value \in RegisterBytes :
       SoftwareSelect(area, bit8, value)

FileNext ==
  Load \/ Software \/ ExitUnsaved \/ OpenSave \/ WriteSave \/ CloseSave \/ Kill

FileSpec == FileInit /\ [][FileNext]_fileVars

-----------------------------------------------------------------------------
(* Properties *)

\* Type invariant.  The ROM bank of MBC1, MBC2 and MBC3 is one of the ROM's,
\* whatever software writes, and the RAM has the size of the cartridge's.
FileTypeOK ==
  /\ phase \in {"off", "running", "saving"}
  /\ game \in Games \union {NoGame} /\ rom_path \in Games \union {NoGame}
  /\ phase = "off" <=> game = NoGame
  /\ phase = "off" => reg = <<>> /\ ram = <<>>
  /\ phase # "off" =>
       /\ reg \in RegisterFile
       /\ ram \in Contents(game)
       /\ Mapper # "MBC5" => reg.rom_bank < Header[game].rom_banks
  /\ file \in [Games -> Seq(Byte) \union {NoFile}]
  /\ stores \in 0..MaxStores
  /\ misread \in BOOLEAN

\* The latest byte software stored in external RAM is what it reads there
\* with the same selection, through any bank and mode switches in between,
\* and in a later session when the RAM was saved at exit and its file read in
\* full (lib/cart.c, emu_init and emu_try_save_ram in src/main.c).
LatestStoreReadsBack ==
  (phase = "running" /\ latest.game = game) =>
    ((reg.ram_enabled /\ reg.mode = latest.mode /\ reg.ram_bank = latest.ram_bank) =>
       Read(latest.offset) = latest.byte)

\* A save writes the file of the game that runs, also after another ROM was
\* dropped on the window (save_path_from_rom in src/main.c).
OwnFileOnly == [][\A g \in Games : file'[g] # file[g] => g = game]_fileVars

\* The file as a save: complete, or as good as none.
Slot ==
  [g \in Games |->
     IF file[g] # NoFile /\ Len(file[g]) = RamSize(g) THEN file[g] ELSE NoFile]

Saves == INSTANCE SaveSlot WITH
  Unsaved <- NoFile, Memories <- Contents, BlankMemory <- Blank,
  playing <- game, memory <- ram, slot <- Slot

\* The battery RAM and its file implement a save slot: whatever failed while
\* the file was opened or written, and whenever the process was killed, a
\* session starts with a whole save or with blank RAM, unless the file has the
\* right size and emu_init could not read all of it.
ImplementsSlot == Saves!SlotSpec

\* The comment on the memory map (lib/mmu.c) says that 4000..7FFF shows ROM
\* bank 01 to NN.
WindowShowsSwitchableBank ==
  phase = "running" => RomWindow \in 1..(Header[game].rom_banks - 1)

=============================================================================
