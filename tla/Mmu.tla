-------------------------------- MODULE Mmu --------------------------------
(***************************************************************************)
(* The memory map (lib/mmu.c): which unit answers an address in the two    *)
(* models of the console, and the memory that is the map's own, work RAM   *)
(* and high RAM, with the video RAM of lib/ppu.c.  The other units have    *)
(* modules of their own.                                                   *)
(*                                                                         *)
(* wram and hram follow each other in the structure, so they are one       *)
(* array here: wram holds the offsets 0 to 7FFF, hram those from 8000.     *)
(***************************************************************************)
EXTENDS Integers

CONSTANTS
  Addresses, \* the addresses that a program accesses
  Values,    \* the bytes that it stores
  Banks      \* the values that it writes to FF4F and FF70

Word == 0..65535
BankSize == 4096       \* FGB_WRAM_BANK_SIZE
WramSize == 8 * 4096   \* FGB_WRAM_BANKS of them
HramSize == 127        \* FGB_HRAM_SIZE

ASSUME MmuAssumption ==
  /\ Addresses \subseteq Word
  /\ Values \subseteq 0..255
  /\ 0 \in Values
  /\ Banks \subseteq 0..255

VARIABLES
  model,          \* DMG or CGB
  ram,            \* wram and hram, those of their bytes that a program accesses
  vram,           \* vram0 and vram1, likewise
  wbk,            \* the bank of work RAM at D000
  vbk,            \* the bank of video RAM
  bootrom_mapped,
  drawing,        \* the PPU is in mode DRAW
  told,           \* history: the byte that the program stored last in each place
  strayed         \* history: it has stored where the code departs from the map

mmuVars == <<model, ram, vram, wbk, vbk, bootrom_mapped, drawing, told, strayed>>

Target(unit, at) == [unit |-> unit, at |-> at]

-----------------------------------------------------------------------------
(* Who answers an address.                                                 *)

Rom == 0..32767
VideoRam == 32768..40959
CartRam == 40960..49151
WorkRam0 == 49152..53247
WorkRam1 == 53248..57343 \* the switched bank
Echo0 == 57344..61439
Echo1 == 61440..65023
WorkRam == 49152..65023  \* all four
Oam == 65024..65183
Unusable == 65184..65279
TimerRegisters == 65284..65287
ApuRegisters == 65296..65343
PpuRegisters(m) == IF m = "DMG" THEN 65344..65359 ELSE 65344..65355 \union {65359}
CpuRegisters == {65295, 65535}
HighRam == 65408..65534
BootRegister == 65360 \* FF50
BankRegister == 65392 \* FF70

\* C000 to FDFF.  Bank n of the CGB begins n + 1 banks after C000, behind the
\* two that echo RAM shows.
Work(m, bank, a) ==
  IF a >= 57344 THEN a - 57344
  ELSE IF m = "CGB" /\ a >= 53248 THEN (a + BankSize * bank) - 49152
  ELSE a - 49152

VideoAt(a) == a - 32768
OamAt(a) == a - 65024
HighAt(a) == WramSize + a - 65408

\* FF00 to FFFF; the two models differ in FF4C to FF4E and in FF70.
Register(m, a) ==
  CASE a \in TimerRegisters -> Target("timer", a)
    [] a \in ApuRegisters -> Target("apu", a)
    [] a \in PpuRegisters(m) -> Target("ppu", a)
    [] a = BootRegister -> Target("boot", a)
    [] a = BankRegister /\ m = "CGB" -> Target("wbk", a)
    [] a \in CpuRegisters -> Target("cpu", a)
    [] a \in HighRam -> Target("ram", HighAt(a))
    [] OTHER -> Target("io", a)

\* fgb_mmu_write_dmg and fgb_mmu_write_cgb
WriteTo(m, bank, a) ==
  CASE a \in Rom \/ a \in CartRam -> Target("cart", a)
    [] a \in VideoRam -> Target("vram", VideoAt(a))
    [] a \in WorkRam -> Target("ram", Work(m, bank, a))
    [] a \in Oam -> Target("oam", OamAt(a))
    [] a \in Unusable -> Target("none", a)
    [] OTHER -> Register(m, a)

\* Mutant of ReadFrom: reads know two banks only.
ReadFromOneBank(m, bank, boot, a) ==
  IF boot /\ a < 256 THEN Target("boot", a)
  ELSE IF a = BootRegister THEN Target("io", a)
  ELSE WriteTo(m, 1, a)

\* fgb_mmu_read_dmg and fgb_mmu_read_cgb: the boot ROM lies over the cartridge,
\* and FF50 is not there.
ReadFrom(m, bank, boot, a) ==
  IF boot /\ a < 256 THEN Target("boot", a)
  ELSE IF a = BootRegister THEN Target("io", a)
  ELSE WriteTo(m, bank, a)

-----------------------------------------------------------------------------
(* Memory.                                                                 *)

Selectable == {1} \union {b % 8 : b \in Banks \ {0}}

Memory == {a \in Addresses : a \in VideoRam \/ a \in WorkRam \/ a \in HighRam}

Offsets ==
  {t.at : t \in {u \in {WriteTo(m, b, a) : m \in {"DMG", "CGB"}, b \in Selectable, a \in Memory} :
                   u.unit = "ram"}}

VideoOffsets == {VideoAt(a) : a \in Memory \intersect VideoRam}

\* What the program means by an address (the comment at the head of lib/mmu.c);
\* wb and vb are the banks it selected.  Echo RAM is a mirror of C000 to DDFF.
\* The comment has the banks 1 to 7 at D000; a write of 8 selects one more, 0.
Place(m, wb, vb, a) ==
  CASE a \in VideoRam -> <<"video", IF m = "CGB" THEN vb ELSE 0, a>>
    [] a \in WorkRam0 -> <<"work", 0, a>>
    [] a \in WorkRam1 -> <<"work", IF m = "CGB" THEN wb ELSE 1, a>>
    [] a \in Echo0 -> <<"work", 0, a - 8192>>
    [] a \in Echo1 -> <<"work", IF m = "CGB" THEN wb ELSE 1, a - 8192>>
    [] OTHER -> <<"high", 0, a>>

Places == {Place(m, wb, vb, a) : m \in {"DMG", "CGB"}, wb \in Selectable, vb \in 0..1, a \in Memory}

\* Where the code of the CGB departs from that comment: F000 to FDFF shows the
\* bank 0 of the array whatever is selected, and the last bank of D000 lies
\* behind wram.
Astray(m, wb, a) == m = "CGB" /\ (a \in Echo1 \/ (a \in WorkRam1 /\ wb = 7))

\* fgb_mmu_reset and fgb_ppu_create: all memory is 0.
MmuInit ==
  /\ model \in {"DMG", "CGB"}
  /\ ram = [o \in Offsets |-> 0]
  /\ vram = [b \in 0..1 |-> [o \in VideoOffsets |-> 0]]
  /\ wbk = 1
  /\ vbk = 0
  /\ bootrom_mapped = TRUE
  /\ drawing = FALSE
  /\ told = [p \in Places |-> 0]
  /\ strayed = FALSE

\* fgb_ppu_write_vram and fgb_ppu_read_vram
VideoBank == IF model = "CGB" /\ vbk = 1 THEN 1 ELSE 0

\* A store to memory; the video RAM ignores it while a line is drawn.  Behind
\* hram the structure has its pointers: a store there is undefined, and left
\* out.
StoreByte(a, v) ==
  LET t == WriteTo(model, wbk, a)
      ignored == t.unit = "vram" /\ drawing
  IN /\ t.unit = "ram" => t.at < WramSize + HramSize
     /\ ram' = IF t.unit = "ram" THEN [ram EXCEPT ![t.at] = v] ELSE ram
     /\ vram' = IF t.unit = "vram" /\ ~ignored THEN [vram EXCEPT ![VideoBank][t.at] = v] ELSE vram
     /\ told' = IF ignored THEN told ELSE [told EXCEPT ![Place(model, wbk, vbk, a)] = v]
     /\ strayed' = (strayed \/ Astray(model, wbk, a))
     /\ UNCHANGED <<model, wbk, vbk, bootrom_mapped, drawing>>

\* FF70 and FF4F: in a DMG the first belongs to no unit, the second is kept
\* but without effect.
SelectWork(v) ==
  /\ wbk' = IF WriteTo(model, wbk, BankRegister).unit # "wbk" THEN wbk ELSE IF v = 0 THEN 1 ELSE v % 8
  /\ UNCHANGED <<model, ram, vram, vbk, bootrom_mapped, drawing, told, strayed>>

SelectVideo(v) ==
  /\ vbk' = v % 2
  /\ UNCHANGED <<model, ram, vram, wbk, bootrom_mapped, drawing, told, strayed>>

\* FF50
UnmapBoot ==
  /\ bootrom_mapped' = FALSE
  /\ UNCHANGED <<model, ram, vram, wbk, vbk, drawing, told, strayed>>

\* The PPU begins or ends to draw a line.
DrawingChanges ==
  /\ drawing' = ~drawing
  /\ UNCHANGED <<model, ram, vram, wbk, vbk, bootrom_mapped, told, strayed>>

\* fgb_cpu_reset maps the boot ROM again.
CpuResets ==
  /\ bootrom_mapped' = TRUE
  /\ UNCHANGED <<model, ram, vram, wbk, vbk, drawing, told, strayed>>

\* fgb_emu_reset: fgb_ppu_reset also clears the video RAM and leaves mode DRAW.
ConsoleResets ==
  /\ bootrom_mapped' = TRUE
  /\ vram' = [b \in 0..1 |-> [o \in VideoOffsets |-> 0]]
  /\ drawing' = FALSE
  /\ told' = [p \in Places |-> IF p[1] = "video" THEN 0 ELSE told[p]]
  /\ UNCHANGED <<model, ram, wbk, vbk, strayed>>

\* What a read of memory gives.
Loaded(a) ==
  LET t == ReadFrom(model, wbk, bootrom_mapped, a) IN
  CASE t.unit = "ram" -> ram[t.at]
    [] t.unit = "vram" -> IF drawing THEN 255 ELSE vram[VideoBank][t.at]

-----------------------------------------------------------------------------
(* Properties.                                                             *)

\* A read gives what the program stored last in the place it means, through
\* whichever address and whatever banks it selected in between; four functions
\* decode addresses for that, two for each model.  That holds for all places of
\* the map until a CGB program stores at one of the two where the code departs
\* from it, and but for reads at those.
StoreReadsBack ==
  ~strayed =>
    \A a \in Memory :
      (a \in VideoRam => ~drawing) /\ ~Astray(model, wbk, a) =>
        Loaded(a) = told[Place(model, wbk, vbk, a)]

\* "E000 - FDFF  Echo RAM(mirror of C000-DDFF)": both show the same byte.  It
\* holds in the DMG only (ConsoleProofs).
EchoMirrors ==
  \A a \in Memory :
    a \in Echo0 \union Echo1 /\ a - 8192 \in Memory => Loaded(a) = Loaded(a - 8192)

\* "FF80 - FFFE  High RAM(HRAM)": no store to another address changes it.
HighRamApart ==
  [][\A o \in Offsets : o >= WramSize /\ ram'[o] # ram[o] =>
       told'[<<"high", 0, o - WramSize + 65408>>] # told[<<"high", 0, o - WramSize + 65408>>]]_mmuVars
=============================================================================
