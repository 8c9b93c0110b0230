------------------------------ MODULE PpuFrame ------------------------------
(***************************************************************************)
(* The PPU with a record of where its frame really is.                     *)
(*                                                                         *)
(* The history variables count ticks and events from outside, and never    *)
(* read the counters that the code keeps (mode_cycles, hblank_cycles,      *)
(* dma_cycles, window_line_counter):                                       *)
(*   elapsed   ticks of the current line, the skipped ones included;       *)
(*   dma_age   ticks of a running LCD since the last write to FF46, up to  *)
(*             the end of the transfer's tail;                             *)
(*   restarted that write found a transfer still active;                   *)
(*   excuse    why this line may be drawn with another line's sprites;     *)
(*   answered  an LCD interrupt was requested and the STAT line has not    *)
(*             been low since;                                             *)
(*   torn      the PPU was reset and OAM may have been left blocked.       *)
(***************************************************************************)
EXTENDS Ppu

VARIABLES elapsed, dma_age, restarted, excuse, answered, torn

history == <<elapsed, dma_age, restarted, excuse, answered, torn>>
frameSpecVars == <<ppuVars, history>>

\* The tick after the last byte, and the end of the tail in which OAM stays
\* blocked.
DmaEnd == DmaPeriod * DmaBytes + 1
DmaTail == DmaEnd + DmaPeriod

Running == lcd_enable /\ ~reset

FrameTypeOK ==
  /\ PpuTypeOK
  /\ elapsed \in 0..(LineCycles - 1)
  /\ dma_age \in 0..DmaTail
  /\ excuse \in {"none", "dma", "stale"}
  /\ {restarted, answered, torn} \subseteq BOOLEAN

FrameInit ==
  /\ PpuInit
  /\ elapsed = 0
  /\ dma_age = DmaTail /\ restarted = FALSE
  /\ excuse = "none" /\ answered = FALSE /\ torn = FALSE

\* A tick of a running LCD.
FrameRun ==
  /\ RunTick
  /\ elapsed' = IF mode' = "OAM_SCAN" /\ mode # "OAM_SCAN" THEN 0
                ELSE (elapsed + 1) % LineCycles
  /\ dma_age' = AtMost(dma_age + 1, DmaTail)
  /\ restarted' = (restarted /\ dma_age' < DmaTail)
  /\ excuse' = CASE mode # "OAM_SCAN" /\ mode' = "OAM_SCAN" -> "dma"
                 [] mode = "OAM_SCAN" /\ excuse = "dma" /\ ~dma_active' -> "none"
                 [] OTHER -> excuse
  /\ answered' = ("LCD" \in requests' \/ (answered /\ StatLine'))
  /\ torn' = (torn /\ dma_cycles' <= DmaPeriod)

FrameOff ==
  /\ OffTick
  /\ elapsed' = 0
  /\ UNCHANGED <<dma_age, restarted, excuse, answered, torn>>

FrameOn ==
  /\ OnTick
  /\ elapsed' = FirstSkip
  /\ excuse' = IF oam_scan_done THEN "stale" ELSE "dma"
  /\ UNCHANGED <<dma_age, restarted, answered, torn>>

FrameSwitch ==
  /\ SwitchLcd
  /\ UNCHANGED history

FrameDma ==
  /\ WriteDma
  /\ dma_age' = 0
  /\ restarted' = dma_active
  /\ torn' = FALSE
  /\ UNCHANGED <<elapsed, excuse, answered>>

FrameWrite ==
  /\ WriteLyc \/ WriteStat \/ CpuWriteOam
  /\ UNCHANGED history

FrameReset ==
  /\ Reset
  /\ elapsed' = 0
  /\ dma_age' = DmaTail /\ restarted' = FALSE
  /\ excuse' = "none"
  /\ torn' = (torn \/ oam_blocked)
  /\ answered' = answered

FrameNext ==
  \/ FrameRun \/ FrameOff \/ FrameOn \/ FrameSwitch
  \/ FrameDma \/ FrameWrite \/ FrameReset

FrameSpec ==
  /\ FrameInit /\ [][FrameNext]_frameSpecVars
  /\ WF_frameSpecVars(FrameRun \/ FrameOff \/ FrameOn)

-----------------------------------------------------------------------------

\* A running frame is where its mode and line say: OAM scan and drawing in
\* the first ticks of a line, HBLANK for exactly the rest of it, VBLANK on the
\* lines after the last drawn one and on no other.  Drawing of any length, a
\* switch of the LCD at any tick and a short first line leave no tick over.
LineOnTime ==
  Running =>
    /\ mode = "VBLANK" <=> ly >= Height
    /\ elapsed = CASE mode = "OAM_SCAN" -> mode_cycles
                   [] mode = "DRAW" -> ScanCycles + mode_cycles
                   [] mode = "HBLANK" -> LineCycles - hblank_cycles + mode_cycles
                   [] mode = "VBLANK" -> mode_cycles

\* A line is drawn with its own sprites, unless a DMA was active during its
\* whole OAM scan or the LCD had been switched off in the middle of a scan.
SpritesOfThisLine ==
  mode = "DRAW" /\ Running => scanned = ly \/ excuse \in {"dma", "stale"}

\* The DMA keeps time: after n ticks of a running LCD it has moved the bytes
\* whose periods have passed, it is active up to its last byte, and OAM is
\* closed from the first byte (from the start, when it interrupted another
\* transfer) to one period after the last, and at no other time.
DmaOnTime ==
  /\ dma_active <=> dma_age < DmaEnd
  /\ dma_age < DmaTail => dma_age = DmaPeriod * dma_bytes + dma_cycles
  /\ oam_blocked <=> \/ dma_age \in (DmaPeriod + 1)..(DmaTail - 1)
                     \/ restarted
                     \/ torn

\* A transfer that ends leaves its own bytes in all of OAM: no write of the
\* CPU gets between the first byte and the last, although the table is open
\* for the first ticks, and none is lost by a switch of the LCD.
TransferIntact ==
  [][ dma_active /\ ~dma_active' /\ ~Reset =>
        copied' = 0..(DmaBytes - 1) ]_frameSpecVars

\* STAT requests once per rise of its line, whichever of its sources raise it
\* and however software switches them and the LCD.
OneRequestPerRise == [][ "LCD" \in requests' => ~answered ]_frameSpecVars

\* With the LCD left on, a frame ends.
FrameCompletes == lcd_enable ~> (~lcd_enable \/ "VBLANK" \in requests)

=============================================================================
