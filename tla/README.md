# Verification of fgb

fgb is a Game Boy emulator in C. A core library (`lib/`) models the console: CPU,
timer, PPU, APU, cartridge, MMU and I/O ports. A desktop front end (`src/`) runs it
frame by frame in one thread, shows what it draws, and feeds the sound device, which
calls back from a thread of its own.

This directory holds TLA+ modules for the parts of fgb where order, time or the borders of
a number decide what is right, TLC configurations that check them on small instances, and
proofs, checked by TLAPS, that hold for every value of the constants.

## Inventory

The whole console advances by `fgb_cpu_tick`: one T-cycle of the timer, the PPU, the APU
and the cartridge, in that order. Instructions call it between their memory accesses, so
a peripheral may request an interrupt at any tick inside an instruction, and a register
write of the CPU falls between any two ticks of a peripheral (three ticks before it, one
after). Only the audio path has two threads.

| component | state | operations | hard behaviour | must hold |
|---|---|---|---|---|
| Timer (`lib/timer.c`) | DIV, TIMA, TMA, TAC, the delay after an overflow | tick, register writes, reset | TIMA is clocked by three entry points; a write may hit any tick of the overflow delay | edges are counted once; interrupt and reload on their tick |
| CPU, interrupts (`lib/cpu.c`) | mode, IME, IE, IF | step, instructions, dispatch, key press, reset | requests arrive inside an instruction and inside the dispatch; EI is delayed; HALT has three forms | none missed, none lost, none accepted too early, HALT wakes |
| CPU, instructions (`lib/cpu.c`, `lib/instruction.c`) | registers, flags, stack | about 500 instructions | carries, DAA, conditional cycles, a stack made of bytes that wraps | timing and operands as in the table; decimal and wide sums; calls return |
| CPU, debugger (`lib/cpu.c`, `src/main.c`) | breakpoints, pause and step flags | set, clear, step, pause, continue, run a frame, reset | two flags written by the front end and by the frame loop | a frame stops where it is told to, and stays there |
| MBC3 clock (`lib/cart.c`) | running and latched registers, sub-second cycles | tick, latch, select, store | software stores any value, in or out of range | it is a calendar; it heals |
| Banking, battery RAM (`lib/cart.c`, `src/main.c`) | bank registers, RAM, save file | register writes, RAM access, load, drop, save, kill | bank numbers beyond the ROM; a save empties the only copy first | an access reaches the selected bank; a session starts with a whole save |
| PPU, frame (`lib/ppu.c`) | mode, LY, cycle counters, STAT line | tick, register writes, reset | variable drawing time; LCD switched at any tick; four STAT sources on one line | every line and frame has its exact length |
| PPU, OAM DMA (`lib/ppu.c`) | transfer and blocking of OAM | start, tick, OAM access | restart in mid-transfer; writes before the first byte; scan against transfer | transfers are on time and whole |
| PPU, pixel fetcher (`lib/ppu.c`) | FIFOs, fetch steps, list of sprites | tick, push, end of line, LCD switch | sprites and the window interrupt the background; registers change in mid-line | pixels in order, the first sprite on top, a line in time |
| APU (`lib/apu.c`, `lib/audio/channel.c`) | sequencer, four channels, sample clock | tick, register writes, reset | writes at any step of the sequencer | notes end, volumes and sweeps follow their registers, samples keep their rate |
| Audio path (`src/audio.c`) | ring buffer, converter | push, device callback | two threads, no lock; full and empty ring | frames arrive once, in order, whole |
| MMU (`lib/mmu.c`) | work RAM, high RAM, video RAM and their banks, boot ROM | read, write, bank registers, reset | two models, reads and writes decoded apart, banks switched between | a read finds the last store to the place it means |
| Joypad, serial (`lib/io.c`) | buttons, select lines | press, release, read, write | two matrices on one nibble | a press requests its interrupt |
| Front end (`src/main.c`) | console, files | run frame, events, reset, drop a ROM, exit | life of the console against its battery RAM | RAM is saved whole or not at all |

`PROJECT.json` lists the components with what is left out, and under "hazards" the places
in the code that are hard to test, each with the properties that watch it.

## Modules

| module | models | extends |
|---|---|---|
| `Timer` | `lib/timer.c`, one action per entry point | |
| `TimerOnBus` | the timer as the CPU drives it, with the age of the overflow | `Timer` |
| `Cpu` | `fgb_cpu_step`, the interrupt state, the dispatch | |
| `CpuMaster` | the CPU with the master enable its instructions imply | `Cpu` |
| `Alu` | the arithmetic helpers of `lib/cpu.c`, as operators | |
| `Instructions` | every opcode and CB suffix, and the table of `lib/instruction.c` | `Alu` |
| `CallStack` | what calls, returns, pushes and pops promise; implemented by `Instructions` | |
| `Mbc3Rtc` | the clock of the MBC3 | |
| `Mbc3Calendar` | the clock read as a calendar | `Mbc3Rtc` |
| `OamDma` | OAM DMA | |
| `Ppu` | `fgb_ppu_tick` and the register writes, composed with the DMA | `OamDma` |
| `PpuFrame` | the PPU with a record of where its frame is | `Ppu` |
| `Fetcher` | a line drawn tick by tick | |
| `AudioQueue` | what the audio path promises: a bounded queue | |
| `AudioRing` | `src/audio.c` on the ring of miniaudio; implements `AudioQueue` | |
| `AudioPath` | the APU's sample clock in front of the ring | `AudioRing` |
| `Apu` | the frame sequencer and the units of channel 1 | |
| `ApuNotes` | the notes of channel 1 | `Apu` |
| `ApuWave` | channel 3 beside channel 1 | `ApuNotes` |
| `Cartridge` | the memory controllers of `lib/cart.c`: bank registers, ROM and RAM windows | |
| `SaveSlot` | what a battery promises: a whole save or none, unless a save could not be read | |
| `BatteryFile` | load, drop, exit and kill in `src/main.c`; implements `SaveSlot` | `Cartridge` |
| `Mmu` | `lib/mmu.c` and the video RAM: who answers an address, and the memory behind it | |
| `Breakpoints` | what the debugger promises; implemented by `Console` | |
| `Debugger` | `fgb_cpu_run_frame`, the breakpoints, the keys of the front end | |
| `Console` | the program's stores under the debugger | `Mmu`, `Debugger` |
| `ClockProofs` | theorems about the timer and the MBC3 clock | `TimerOnBus`, `Mbc3Calendar` |
| `CpuProofs`, `InsnProofs` | theorems about the CPU | `CpuMaster`; `Instructions` |
| `PpuProofs`, `FetcherProofs` | theorems about the PPU | `PpuFrame`; `Fetcher` |
| `SoundProofs` | theorems about the APU and the audio path | `ApuWave`, `AudioPath` |
| `CartProofs`, `ConsoleProofs` | theorems about the cartridge; the debugger and the memory | `BatteryFile`; `Console` |
| `MC...` | instances for TLC | |

A component's own module holds its state and its actions. The module beside it
(`TimerOnBus`, `CpuMaster`, ...) adds history variables that record the facts
from outside, without reading the code's own bookkeeping, and states properties that
compare the two. Definitions marked "Mutant of" are what a plausible mistake would make
of the definition that follows; no specification uses them. They show that each property
can fail.

### Timer

State and actions are those of `struct fgb_timer` and its functions. `Tick` is
`fgb_timer_tick` whole: the edge, the increment, the delay with its three thresholds.
`WriteTIMA` has the early return of the reload tick as its guard. `requested` is the
timer's bit in IF; `WriteIF` is what the CPU does to it. `TimerOnBus` adds that four
ticks lie between two writes, and `age`, the ticks since TIMA was seen to wrap.

### CPU

The step is cut where it ticks: fetch, execution, the test at the end, and the dispatch's
push of the high byte, choice and push of the low byte. `Ticks` adds any set of peripheral
requests. Instructions are classes: those that do not touch interrupt state, a write to
IE or IF, EI, DI, RETI, HALT, STOP and unused opcodes (which hang in HALT mode). SP is
anywhere, so either byte of PC may land in IE or IF. `Reset` leaves IME alone, as
`fgb_cpu_reset` does. `CpuMaster` computes from the completed instructions alone whether
interrupts may be accepted.

### Instructions

One action per family of opcodes, each a whole run of `fgb_cpu_run_instruction` in one of
the modes that execute, with its operands, registers, flags, memory accesses in their
order, and the machine cycles it ticks. Memory is sparse: a location that the program
wrote holds what it wrote, any other one any of `Contents` at each read. `Follow` bounds
the programs: which opcodes unwritten code may hold after which. The arithmetic is in
`Alu`, whose operators give the value and the four flags together.

`TableHolds` compares every instruction with its row in `lib/instruction.c`: the cycles
and the bytes of operand. The refinement to `CallStack` reads the bytes between SP and the
bottom of the stack as words; a program that uses SP in another way is marked untidy and
may do what it likes.

### Debugger, MMU and their composition

`Mmu` decodes an address as the four functions of `lib/mmu.c` do, for both models.
`wram` and `hram` follow each other in the structure, and an index past the first reaches
the second, so they are one array. `told` records what the program stored last in each
place. `Place` says what an address means by the comment at the head of `lib/mmu.c` alone,
echo RAM included; the index arithmetic is in `Work`. `Astray` names the two areas of
the CGB where they part: F000 to FDFF, which is no mirror of D000, and bank 7 at D000,
which is high RAM. `strayed` says that a program has stored there; from then on
`StoreReadsBack` promises nothing (`wram_bank` shows what bank 7 does, and the list at the end of
"What is not modelled" says what F000 shows). A value of 8
written to FF70 selects a bank 0 that the comment does not have; it is a place of its own, and
the properties hold of it. The areas have names (`VideoRam`, `WorkRam1`, `Echo0`, ...), so that
the proofs can speak of them without their numbers.

`Debugger` has the table of slots, the two flags, and the front end's keys; a frame is any
number of steps. `Console` composes the two: each step of a frame makes one store or
switches a bank, and between frames the front end acts. The refinement maps the
slots to the set of addresses that `Breakpoints` speaks of.

### MBC3 clock

The four nested counters are four operators, one per level, with the widths of the
registers. Software stores any register value, before and after a latch.

### Cartridge and battery file

A register write is known by the area of its address, as the `if` chains of the
`fgb_cart_write_...` functions have it; MBC2 also looks at bit 8. `StoreBank` and
`ReadBank` are two operators because the write and the read functions decode
separately. RAM is a sequence of bytes, all banks one after the other. Software is
assumed to use only RAM banks its cartridge has.

`EmuInit` is `emu_init`: the registers start anew, the path changes, and what was got from
the save file is copied when it has the right size. `SaveData` says what may be got: nothing
when the file does not open or there is no memory for it, else a buffer of the size of the
file, of which `fread` filled a first part, all of it or none; the rest is one of
`HeapBytes` (0 in the run). `misread` says that a session began with a buffer that is not
the file. The exit is three steps, since the file is emptied by `fopen`, grows by pieces,
and is closed without a look at what was written; `Kill` may come between them. `Drop` is
the drop of another ROM, which saves nothing. The refinement maps the slot of a game to its
file when that is complete, and to none otherwise.

### PPU

One action per branch of `fgb_ppu_tick`; `RunTick` composes the branch of the mode with
the DMA part, which runs first, and with `fgb_ppu_try_stat_irq`, which runs last (and not
at all on the tick that ends VBLANK). DRAW lasts from `DrawMin` to `DrawMax` ticks: the
pixel fetcher decides in the code. `scanned` names the line whose sprites the buffer
holds. `PpuFrame` counts ticks from outside.

`Fetcher` is that fetcher: the steps of the background and window fetch, the sprite fetch
that interrupts it, both FIFOs, the pixel that is pushed in a tick, the end of a line and
what it leaves behind, and register writes in mid-line. Of a pixel it keeps where it comes
from (its column in background or window, or its sprite, and whether it is transparent).
Its `LineFits` is what justifies `DrawMax` in `Ppu`: with 160 pixels and ten sprites a
line takes at most 320 ticks of the 376 that HBLANK can make up for. Five of the 320 are
rare: switching the LCD off inside a sprite fetch and on again leaves that fetch under way,
and the first line of the new frame ends it before it begins its own.

### APU

`SequencerTick` is a tick that reaches the sequencer; the counter is tested before it is
incremented, so 8193 ticks lie between two steps. `UnitsStep` is channel 1's
`fs_tick` with length, sweep and envelope in the code's order. `ApuWave` adds the length
of channel 3, which has a width of its own; a tick of the sequencer steps both channels.
Channel 2 is channel 1 whose NR10 is never written.

### Audio path

`SampleTick` is the end of `fgb_apu_tick`: the accumulator, the frame that is due, and the
call of `fgb_audio_push_samples` when a chunk is full. That function runs on the same
thread, so the clock stands while it does. The producer runs with and without the
converter; the consumer runs `fgb_audio_callback`. Acquire, every copied frame, and commit
are steps of their own, so one thread's copy interleaves with everything the other does.
The refinement maps the queue to the frames between the two committed offsets.

## What the runs check

| run | properties | bounds |
|---|---|---|
| `timer` | `TimaCountsEdges`, `InterruptOnTime` | 7-bit divider, 2-bit TIMA; the lowest watched bit is the code's own |
| `cpu` | `MasterIsEarned`, `NothingMissed`, `NullVectorOnlyByPush`, `RequestsKept`, `HaltWakes` | none: the five interrupts of the code |
| `instructions` | `InsnTypeOK`, `DecimalAdjusts`, `TableHolds`, `WideAddsAsBytes`, `ImplementsCallStack` | every opcode and CB suffix from three register files with all flags; programs of up to four instructions |
| `mbc3` | `LatchNeverAhead`, `CalendarStep`, `Heals` | two ticks a second, moduli of 2, registers one or two values wider, two stores |
| `ppu` | `LineOnTime`, `SpritesOfThisLine`, `DmaOnTime`, `TransferIntact`, `OneRequestPerRise`, `FrameCompletes` | three lines of seven ticks, a DMA of two bytes with a period of two, counters of `dma_cycles` up to 4 |
| `fetcher` | `FetcherTypeOK`, `BackgroundInOrder`, `FirstSpriteWins`, `SpritesOnTime`, `LineFits`, `LineEnds` | lines of 18 pixels, two sprites, one register change or LCD switch a line, one window line |
| `audio` | `SamplesPaced`, `NoTornFrame`, `ImplementsQueue`, `PushReturns` | a ring of three frames, chunks and requests shorter and longer than it, two frames in three cycles |
| `apu` | `WaveNoteEnds`, `NoteEnds`, `EnvelopeOnTime`, `SweepNeverWraps` | lengths up to 2, volumes up to 2, four periods, two ticks a step; software programs one of the two channels |
| `cart` | `FileTypeOK`, `LatestStoreReadsBack`, `ImplementsSlot` | one game of each mapper, two of them with a battery, four ROM banks, two cells a RAM bank, two stores; reads of the save that stop anywhere |
| `console` | `StoreReadsBack`, `ImplementsBreakpoints` | the first address of video RAM, of both areas of work RAM and of their echoes, the bank values 0, 7 and 8, two code addresses, two slots |
| `window_bank`, `wram_bank` | one each, violated | as the run of the same module, or smaller |

The comment above each property says what it means. In short:

- `timer`: TIMA counts the falling edges of its clock, whichever entry point makes them,
  and an overflow requests its interrupt on the fourth tick after it.
- `cpu`: IME is what the instructions imply, with the delay of EI; no request waits at an
  instruction boundary that should have been dispatched; a dispatch finds its handler
  unless its own push took the request away; requests leave IF only in the ways they may;
  HALT ends, and STOP does while IME is set.
- `instructions`: see above; DAA after a sum or a difference of decimal operands is the
  decimal result; a 16-bit sum is that of its bytes, with the carry between them.
- `mbc3`: the cascade adds one second and a latched copy is never ahead; a clock that was
  set out of range comes back into it.
- `ppu`: each tick is where its mode and line say, sprites belong to their line, a transfer
  takes its time and is whole, STAT requests once per rise of its line, frames go on.
- `fetcher`: pixels come in order and on time, the first sprite by X wins, and a line ends.
- `audio` and `apu`: no drift, no frame torn, lost or doubled, no push that hangs; notes
  end, envelopes keep time, a sweep never wraps.
- `cart` and `console`: a load finds the last store to the place it means, across bank
  switches and, with a battery, sessions; a paused console stands still but for the steps
  it is granted.

Two runs state what a comment in the code says and show that the code does something else:

- `window_bank`: the memory map in `mmu.c` says that 4000 to 7FFF shows a switchable ROM
  bank from 01 on. On an MBC1 cartridge with RAM banks the selection of one moves that
  window beyond the ROM.
- `wram_bank`: `mmu.c` says that D000 shows work RAM banks 1 to 7, and that FF80 is high
  RAM. In the CGB the bank is added to an address that already lies one bank behind the
  array's start, so that bank 7 is high RAM. (The front end creates a DMG.)

### Why the bounds are enough

The constants are widths and periods, and the properties are about what happens where they
end. Each instance keeps all those ends and the gaps between them that the code has: the
timer's six-tick delay fits between two edges unless a write makes one; a DMA is longer than
an OAM scan; drawing may take its shortest and its longest time; `dma_cycles` wraps, where
the code needs 2^31 ticks; a ring is shorter and longer than a call; registers of the clock
hold values beyond their modulus. The register files of `instructions` hold decimal bytes,
bytes at the borders of each carry, and an HL that points into the stack; an instruction
reads nothing of an earlier one but registers, flags and memory, and the longest pattern the
properties speak of (call, push, pop, return) has four. A line of `Fetcher` has more than
one tile, so that every way for a sprite or the window to fall on a fetch occurs; sprites
overlap, have the same X, and hang over both edges. `console` has the first address of each
area that banks or echoes, and a bank value for every case of FF70: 0, which selects 1, the
last bank, and 8, which selects a bank 0. High RAM is left to the run `wram_bank` and to
`MemoryReadsBack`; that a full table takes no breakpoint more is left to
`DebuggerImplementsBreakpoints`, which is for any number of slots and addresses.

Bounds that are not in the code: `MaxStores` (stores into the MBC3 clock, and into battery
RAM), `MaxSteps` (instructions), `MaxChanges` and `MaxWindowLines` (changes in a line, and
the counter when the LCD is switched, which nothing bounds in the code), `Spent` (see below),
`FadeMax`, and the
value sets that software writes (`TimaInputs`, `LycInputs`, `StatInputs`, `Settings` and so
on). The proofs need none of them, except that they hold for any such set.

A line of `Fetcher` has `MaxChanges` changes of its own, less `Spent` where an LCD switch has cut
a fetch of the line before. `Spent = 0` is the code; the run takes `Spent = 1 = MaxChanges`, so that a
line after such a switch has no further change, to stay in its time. The theorems about
`Fetcher` hold for both.

### Fairness

Weak fairness is assumed of the step that runs the console: the main loop calls
`fgb_cpu_run_frame` again and again, every step ticks, and every tick reaches every
component (`Run`, `CalTick`, the ticks of `FrameSpec`, `DrawTick`). Nothing is assumed of
software: no write and no key press has to happen. In the audio path each thread, once
called, goes on; neither has to be called again. The timer, the APU, the cartridge, the
instructions and the debugger have safety properties only, and no fairness. A console held
by the debugger does not run, and the liveness properties say nothing of it.

Deadlock is checked in every run. A program of `Instructions` that has reached its bound,
or waits for an interrupt, stutters by an action of its own (`Done`).

## What is proved

TLAPS proves these for every value of the constants that satisfies the named assumptions
of the modules (`SizeAssumption`, `IrqAssumption`, `InsnAssumption`, `RtcAssumption`,
`StoresAssumption`, `DmaAssumption`, `PpuAssumption`, `FetcherAssumption`, `RingAssumption`,
`PathAssumption`, `ApuAssumption`, `FadeAssumption`, `WaveAssumption`, `CartAssumption`,
`FileAssumption`, `MmuAssumption`, `DebuggerAssumption`). `HighRamHeld` of `ConsoleProofs` has a
hypothesis more, `NoLastBank`, see there.

- `ClockProofs`, the timer. `TimerTypeCorrect` proves the type together with
  `DelayOnlyAfterOverflow`: an idle timer has a delay of 0. That second part is what
  makes the type inductive (an overflow that starts with a delay left over would
  pass the last threshold). `TimerCountsEdges` and `BusCountsEdges` go through the actions
  one by one: each makes the signal fall exactly when it increments. `DelayIsTrue` is
  inductive with the type; `InterruptIsOnTime` and `ReloadIsVisible` follow from it, and
  `BusTypeCorrect` bounds the age of an overflow.
- `ClockProofs`, the MBC3. `CalTypeCorrect` is the only strengthening. `CalendarCorrect` reads the
  registers as the digits of a number with mixed radices: `Carried` says what
  a carry does to two neighbouring digits, `DigitBound` that no digit reaches the next,
  `RollsOver` that the last of them wraps the whole. `LatchCorrect` follows from
  it, since the clock moves by one second.
- `CpuProofs`. `CpuTypeCorrect` for any number of interrupts. `EiIsDelayed` needs the
  relation of `mode`, `at` and `master` in every phase of a step (EI mode only when
  armed). `StepMissesNothing` strengthens the boundary to the phases
  of a dispatch. `DispatchFindsHandler` needs that a dispatch was started by a request
  that only the push can take away. `CpuKeepsRequests` is an action property.
- `InsnProofs`. `InsnTypeCorrect` has a lemma for each operator of `Alu` (what it returns is
  a byte or a word with flags) and one for each family of opcodes. `WideAddsCorrect` is
  about the helper of the 16-bit sums, for all operands. `DecimalCorrect` needs `SumHeld`:
  A and the flags are still those of the sum or difference that the history remembers.
  Then DAA is a case split over the two digits, their carry and their half carry.
  `StackIsAStack` is the refinement to `CallStack`: `StackInv` says that while a program is
  tidy, SP lies a whole number of words above the bottom and the bytes between are known; two
  lemmas say what a push and a pop of two bytes do to the words there, and every other
  instruction leaves SP and those bytes alone or makes the program untidy.
- `PpuProofs`. `DmaInv` relates the bytes moved, the age and the counters of a
  transfer; with it `DmaOnTimeCorrect` and `TransferIntactCorrect`. `LineInv` says in which
  tick of its line each mode is, from which `LineOnTimeCorrect`; `SpriteInv` when the
  buffer is stale; `StatInv` that the line of STAT is the disjunction of its sources after
  each tick, from which `OneRequestCorrect`. `FrameTypeCorrect` puts the types together.
- `SoundProofs`, the audio path. `RingTypeCorrect` and `NoFrameTorn` share one invariant: the number of
  unread frames is between 0 and the size, what either thread was granted lies in its
  own part, and an offset the other thread advances only makes that part larger.
  `RingIsAQueue` shows that every step of the ring is a step of `AudioQueue` or a
  stutter; the lemmas say what a commit does to the sequence of unread frames. `PathInv` is
  an equation: the accumulator and the frames, counted in ticks of the CPU clock, are the
  time that has passed, counted in samples. `SamplesPacedCorrect` divides it.
  `PathIsARing` carries the theorems of the ring over to the path.
- `SoundProofs`, the APU. `LengthInv` and `WaveInv` hold the parity of the sequencer's step against
  the length that is left: a note that starts at an odd step sounds one step longer.
  `EnvInv` says how long the envelope's timer has to go. `SweepCorrect` rests on the
  overflow test. `WaveIsNotes` shows that channel 1 beside channel 3 is
  channel 1 as specified alone.
- `CartProofs`. `CartTypeCorrect` rests on `RomBankInRom`, which says that the masked bank is
  one of the ROM's, and on `LoadedIsContents`. The invariant adds to the type that
  the path is that of the running game; `SavesOwnFile` follows. `FileIsASlot` is the
  refinement: opening and writing the file spoil the slot until the last byte commits it
  (`WritingSaves`), and a load finds the whole save or blank RAM, unless the file has the right size
  and was not read in full, which the slot calls `BeginMisread` (`LoadBegins`).
  `StoreSurvives` adds where the last byte stored is: in RAM while its game is in the console,
  and in a complete file otherwise (`LatestInv`); between the two, a file that has grown to its
  full length is the RAM (`SavingInv`).
- `ConsoleProofs`. `TableCorrect` says that the slots hold exactly the addresses that were
  asked for, none of them twice, and that inside a frame a console that is paused has a step
  to take. With it clearing the one slot that has an address clears the breakpoint, and
  `DebuggerImplementsBreakpoints` goes through the keys and the steps of a frame.
  `MemoryReadsBack` compares two tables, of what an access means and of where it goes, region by
  region (`PlaceAndCell`): two places are one byte only where the program strays
  (`SamePlaceSameCell`), and reads decode as writes do. `DmgEchoMirrors` follows from it in the
  DMG, where there is nowhere to stray. `HighRamHeld` assumes `NoLastBank`: no value written to
  FF70 has 7 in its lower three bits. Bank 7 lies in high RAM (the finding of `wram_bank`), and
  the theorem says that nothing else reaches it.
- `FetcherProofs`. A tick is three steps of the fetchers and one of the LCD; lemmas say which
  fields each may set. `FetcherTypeCorrect` needs `Drawable`: among others, a sprite fetch under way
  has a sprite of OAM and a step before the last, also when the LCD was switched off inside
  it, and what a merge makes has eight pixels at most. `LineFitsCorrect` has a potential,
  `TicksLeft`: the ticks that the line may still take, from the pixels, the tiles, the sprites
  and the fetch steps that are left. `TickCosts` shows that every tick makes it smaller,
  whichever branch it takes. The attempt found that the bound stated first, 5 ticks less, was
  wrong: the sprite fetch that the LCD switch cut off was not in it.
  `PictureInv` is what the other three need. Of the background it says which column every pixel
  of the FIFO has, counted from the pixels already taken, and that the tile under way is the one
  `fetch_x` selects; `ColumnOfTile` turns tiles modulo the map into columns modulo its pixels.
  Of the sprites it says that those fetched are the first of the list, and that each pixel of
  the sprite FIFO shows the first of them that is opaque there, or is blank where none is
  (`Shows`); a merge is correct because the list is sorted, so that a pixel already opaque
  belongs to an earlier sprite (`SpriteMerged`). `InTime` says that the next sprite is not yet
  late, which a pixel drawn keeps since a sprite that is due stops the LCD first
  (`InTimeNext`). The pixels left over from the line before are fewer than eight (`Leftovers`).
  From these `BackgroundInOrderCorrect`, `FirstSpriteWinsCorrect` and `SpritesOnTimeCorrect`.

Most type invariants are proved and so have no run of their own. Model-checked only:
`TableHolds`, which compares 512 rows with 512 functions, so that a proof would be the same
enumeration; and liveness (`HaltWakes`, `Heals`, `FrameCompletes`, `LineEnds`, `PushReturns`
and the fairness part of `ImplementsQueue`), which is out of the prover's reach.

## What is not modelled

- The bytes of pixels, palettes and tile data; waveforms, levels and mixing; the
  disassembly and its text. They are data that nothing here depends on.
- Channel 4 of the APU: writes to FF20 to FF23 reach a function that decodes FF16 to FF19
  (`apu.c:195`), so that nothing can start it.
- Reads, where they change nothing.
- ROM contents, the header checks at load, ROM sizes that are not powers of two, and
  cartridges without a mapper, which ignore every write.
- The joypad matrix and the serial port. A key press is modelled as the request it makes.
- `test_mode` of the CPU (`cpu.c:87`), in which a tick reaches no peripheral, and
  `ext_data` of the MMU: both are for the test harness only.
- Windows, menus, drawing, logging, and vendored code other than the four ring operations.

Things that a reader of the code should know and that no run states:

- `fgb_stop` says it interprets STOP as a HALT (`cpu.c:683`). A HALT with IME off wakes on
  an enabled request; STOP does not, and stays for ever.
- `fgb_ppu_do_oam_scan` says it waits for the DMA to finish (`ppu.c:603`). It skips the scan,
  and a DMA over the whole scan leaves the sprites of an earlier line; `SpritesOfThisLine`
  has that exception.
- The window's line counter is kept when the LCD comes on (`ppu.c:275`).
- After a pace of 0, a write to NR10 takes the pace from the bits that are the shift
  (`channel.c:329`).
- A 0 written to NR31 while channel 3 sounds leaves a length of 0, and the note never ends
  (`channel.c:422`); `WaveNoteEnds` has that exception.
- The APU's length timers are kept when it is switched off (`apu.c:208` says they are
  reset), and its sequencer has a period of 8193 ticks (`apu.c:90` says 512 Hz).
- The comments of `mmu.c` say that E000 to FDFF mirrors C000 to DDFF (`mmu.c:15`) and "maps
  directly" to it (`mmu.c:315`, `mmu.c:403`). In the CGB D000 shows bank n, which lies n + 1 banks
  behind C000 (`mmu.c:309`), and F000 to FDFF the bank right behind C000, whatever n is
  (`mmu.c:317`): with banks 1 to 7 the two are never the same. `Astray` has that exception.
  In the DMG the mirror is one, as `DmgEchoMirrors` proves. (The front end creates a DMG.)
- `emu_init` checks the size of the save file, and not what `fread` returns (`main.c:211`): a read
  that fails or falls short of a file of the right size makes battery RAM of a part of the save
  and of what `malloc` left behind it, and the exit writes that over the save. `SaveSlot` allows
  it as `BeginMisread`, and `LatestStoreReadsBack` speaks of files read in full. The
  result of `fread` is ignored for the ROM as well (`main.c:185`).
- An MBC3 with a clock and without RAM divides by a RAM size of 0 (`cart.c:277`), and the
  clock is not part of the save file (`cart.c:155`).
- Dropping a ROM loses the RAM of the running console (`main.c:918`).
- A reset of the console clears neither the cartridge nor work RAM.
- A step that was asked for and not yet taken survives a continuation, and is taken at the
  next pause.
- In the table of instructions the row of DI has 0 cycles, and the rows of CB and of an
  unused opcode have 255; `TableHolds` leaves these out.

## What is left

1. CPU, timer and PPU composed on one tick, so that an overflow whose interrupt is enabled
   reaches its handler in a bounded time.
2. `Fetcher` as a refinement of the DRAW mode of `Ppu`, which now share only the bound of
   `LineFits`.
3. The joypad matrix.
