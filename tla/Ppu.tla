-------------------------------- MODULE Ppu --------------------------------
(***************************************************************************)
(* The frame of the PPU (fgb_ppu_tick in lib/ppu.c): lines, modes, the     *)
(* LCD switch, the STAT and VBLANK requests, the window's line counter and *)
(* the OAM scan, with the OAM DMA that the same tick advances.             *)
(*                                                                         *)
(* Pixels are left out: the DRAW mode of a line ends after any number of   *)
(* ticks from DrawMin to DrawMax, which stand for the pixel fetcher, and   *)
(* draws window pixels or not.  WY is whatever software last wrote: a line *)
(* matches it or not.                                                      *)
(***************************************************************************)
EXTENDS OamDma

CONSTANTS
  ScanCycles,       \* OAM_SCAN_CYCLES: 80
  LineCycles,       \* SCANLINE_CYCLES: 456
  DrawMin, DrawMax, \* ticks that drawing a line takes
  Height, Lines,    \* 144 lines are drawn, of 154
  FirstSkip,        \* ticks the first scan after LCD-on is shorter: 4
  LycInputs,        \* what software writes to LYC
  StatInputs        \* the sets of sources it enables in STAT

HblankMax == LineCycles - ScanCycles

ASSUME PpuAssumption ==
  /\ ScanCycles \in Nat /\ LineCycles \in Nat /\ ScanCycles < LineCycles
  /\ DrawMin \in Nat \ {0} /\ DrawMax \in Nat /\ DrawMin <= DrawMax
  /\ DrawMax < HblankMax
  /\ Height \in Nat \ {0} /\ Lines \in Nat /\ Height < Lines
  /\ FirstSkip \in Nat /\ FirstSkip < ScanCycles
  /\ LycInputs \subseteq Nat
  /\ StatInputs \subseteq SUBSET {"LYC", "HBLANK", "VBLANK", "OAM"}

VARIABLES
  lcd_enable,    \* lcd_control.lcd_ppu_enable
  reset,         \* a tick has seen that the LCD is off
  mode,          \* stat.mode
  ly,
  mode_cycles,
  hblank_cycles,
  oam_scan_done,
  scanned,       \* the line whose sprites sprite_buffer holds, or -1
  reached_window_x, reached_window_y, window_line_counter,
  lyc,
  stat_int,      \* the sources that STAT enables
  last_stat,
  requests       \* the interrupts that the last step requested

ppuVars == <<lcd_enable, reset, mode, ly, mode_cycles, hblank_cycles,
             oam_scan_done, scanned, reached_window_x, reached_window_y,
             window_line_counter, lyc, stat_int, last_stat, requests, dmaVars>>

Modes == {"HBLANK", "VBLANK", "OAM_SCAN", "DRAW"}

PpuTypeOK ==
  /\ DmaTypeOK
  /\ lcd_enable \in BOOLEAN /\ reset \in BOOLEAN
  /\ mode \in Modes
  /\ ly \in 0..(Lines - 1)
  /\ mode_cycles \in 0..LineCycles
  /\ hblank_cycles \in 0..HblankMax
  /\ oam_scan_done \in BOOLEAN
  /\ scanned \in -1..(Height - 1)
  /\ reached_window_x \in BOOLEAN /\ reached_window_y \in BOOLEAN
  /\ window_line_counter \in 0..(2 * Height)
  /\ lyc \in LycInputs \union {0}
  /\ stat_int \in StatInputs \union {{}}
  /\ last_stat \in BOOLEAN
  /\ requests \in SUBSET {"VBLANK", "LCD"}

-----------------------------------------------------------------------------

lineVars == <<oam_scan_done, scanned, reached_window_x, reached_window_y,
              window_line_counter>>
statVars == <<lyc, stat_int>>

PpuInit ==
  /\ DmaInit
  /\ lcd_enable = FALSE /\ reset = FALSE
  /\ mode = "HBLANK" /\ ly = 0 /\ mode_cycles = 0
  /\ hblank_cycles = HblankMax
  /\ oam_scan_done = FALSE /\ scanned = -1
  /\ reached_window_x = FALSE /\ reached_window_y = FALSE
  /\ window_line_counter = 0
  /\ lyc = 0 /\ stat_int = {} /\ last_stat = FALSE
  /\ requests = {}

\* The STAT line as fgb_ppu_try_stat_irq computes it.
StatLine ==
  \/ ly = lyc /\ "LYC" \in stat_int
  \/ mode = "HBLANK" /\ "HBLANK" \in stat_int
  \/ mode = "OAM_SCAN" /\ "OAM" \in stat_int
  \/ mode = "VBLANK" /\ stat_int \intersect {"VBLANK", "OAM"} # {}

\* Mutant of TryStatIrq: the level of the line requests, not its rise.
TryStatIrqLevel(vblank) ==
  /\ last_stat' = StatLine'
  /\ requests' = vblank \union (IF StatLine' THEN {"LCD"} ELSE {})

\* fgb_ppu_try_stat_irq at the end of a tick that has requested `vblank'.
TryStatIrq(vblank) ==
  /\ last_stat' = StatLine'
  /\ requests' = vblank \union (IF StatLine' /\ ~last_stat THEN {"LCD"} ELSE {})

\* A tick with the LCD off: the first one leaves the frame.
OffTick ==
  /\ ~lcd_enable /\ ~reset
  /\ reset' = TRUE
  /\ mode' = "HBLANK" /\ ly' = 0 /\ mode_cycles' = 0
  /\ requests' = {}
  /\ UNCHANGED <<lcd_enable, hblank_cycles, lineVars, statVars, last_stat, dmaVars>>

\* Mutant of OnTick: the first line is not the shorter one.
OnTickFull ==
  /\ lcd_enable /\ reset
  /\ reset' = FALSE
  /\ mode' = "OAM_SCAN" /\ mode_cycles' = 0
  /\ requests' = {}
  /\ UNCHANGED <<lcd_enable, ly, hblank_cycles, lineVars, statVars, last_stat, dmaVars>>

\* The first tick with the LCD on again.
OnTick ==
  /\ lcd_enable /\ reset
  /\ reset' = FALSE
  /\ mode' = "OAM_SCAN" /\ mode_cycles' = FirstSkip
  /\ requests' = {}
  /\ UNCHANGED <<lcd_enable, ly, hblank_cycles, lineVars, statVars, last_stat, dmaVars>>

\* fgb_ppu_do_oam_scan, which comes after this tick's part of a DMA, reads the
\* table.
Scans == ~oam_scan_done /\ ~dma_active'

\* Mutant of ScanTick: the end of a line's scan does not arm the next one.
ScanTickOnce ==
  LET ends == mode_cycles + 1 >= ScanCycles IN
  /\ mode = "OAM_SCAN"
  /\ scanned' = IF Scans THEN ly ELSE scanned
  /\ oam_scan_done' = (oam_scan_done \/ Scans)
  /\ mode' = IF ends THEN "DRAW" ELSE mode
  /\ mode_cycles' = IF ends THEN mode_cycles + 1 - ScanCycles ELSE mode_cycles + 1
  /\ reached_window_y' \in {reached_window_y, reached_window_y \/ ends}
  /\ UNCHANGED <<ly, hblank_cycles, reached_window_x, window_line_counter>>
  /\ TryStatIrq({})

\* Mutant of ScanTick: the scan waits for the DMA, and the mode for the scan.
ScanTickWaits ==
  LET over == mode_cycles + 1 >= ScanCycles
      ends == over /\ (oam_scan_done \/ Scans)
  IN
  /\ mode = "OAM_SCAN"
  /\ scanned' = IF Scans THEN ly ELSE scanned
  /\ oam_scan_done' = (~ends /\ (oam_scan_done \/ Scans))
  /\ mode' = IF ends THEN "DRAW" ELSE mode
  /\ mode_cycles' = IF ends THEN 0 ELSE IF over THEN mode_cycles ELSE mode_cycles + 1
  /\ reached_window_y' \in {reached_window_y, reached_window_y \/ ends}
  /\ UNCHANGED <<ly, hblank_cycles, reached_window_x, window_line_counter>>
  /\ TryStatIrq({})

ScanTick ==
  LET ends == mode_cycles + 1 >= ScanCycles IN
  /\ mode = "OAM_SCAN"
  /\ scanned' = IF Scans THEN ly ELSE scanned
  /\ oam_scan_done' = (~ends /\ (oam_scan_done \/ Scans))
  /\ mode' = IF ends THEN "DRAW" ELSE mode
  /\ mode_cycles' = IF ends THEN mode_cycles + 1 - ScanCycles ELSE mode_cycles + 1
  /\ reached_window_y' \in {reached_window_y, reached_window_y \/ ends}
  /\ UNCHANGED <<ly, hblank_cycles, reached_window_x, window_line_counter>>
  /\ TryStatIrq({})

\* Drawing goes on, or the line's last pixel is pushed.
DrawTick ==
  /\ mode = "DRAW"
  /\ reached_window_x' \in {reached_window_x, reached_window_x \/ reached_window_y}
  /\ \/ /\ mode_cycles + 1 < DrawMax
        /\ mode_cycles' = mode_cycles + 1
        /\ UNCHANGED <<mode, hblank_cycles, window_line_counter>>
     \/ /\ mode_cycles + 1 >= DrawMin
        /\ mode' = "HBLANK"
        /\ hblank_cycles' = IF mode_cycles + 1 >= HblankMax THEN 0
                            ELSE HblankMax - (mode_cycles + 1)
        /\ mode_cycles' = 0
        /\ window_line_counter' = IF reached_window_x' THEN window_line_counter + 1
                                  ELSE window_line_counter
  /\ UNCHANGED <<ly, oam_scan_done, scanned, reached_window_y>>
  /\ TryStatIrq({})

HblankWaits ==
  /\ mode = "HBLANK"
  /\ mode_cycles + 1 < hblank_cycles
  /\ mode_cycles' = mode_cycles + 1
  /\ UNCHANGED <<mode, ly, hblank_cycles, lineVars>>
  /\ TryStatIrq({})

\* The line ends: the next one starts, or VBLANK does.
HblankEnds ==
  /\ mode = "HBLANK"
  /\ mode_cycles + 1 >= hblank_cycles
  /\ mode_cycles' = 0
  /\ ly' = ly + 1
  /\ reached_window_x' = FALSE
  /\ IF ly + 1 = Height
     THEN /\ mode' = "VBLANK"
          /\ reached_window_y' = FALSE
          /\ window_line_counter' = 0
          /\ TryStatIrq({"VBLANK"})
     ELSE /\ mode' = "OAM_SCAN"
          /\ UNCHANGED <<reached_window_y, window_line_counter>>
          /\ TryStatIrq({})
  /\ UNCHANGED <<hblank_cycles, oam_scan_done, scanned>>

VblankTick ==
  LET ends == mode_cycles + 1 >= LineCycles IN
  /\ mode = "VBLANK"
  /\ mode_cycles' = IF ends THEN mode_cycles + 1 - LineCycles ELSE mode_cycles + 1
  /\ IF ends /\ ly + 1 >= Lines
     THEN /\ ly' = 0 /\ mode' = "OAM_SCAN"
          /\ requests' = {} /\ UNCHANGED last_stat
     ELSE /\ ly' = IF ends THEN ly + 1 ELSE ly
          /\ mode' = mode
          /\ TryStatIrq({})
  /\ UNCHANGED <<hblank_cycles, lineVars>>

\* A tick with the LCD running.
RunTick ==
  /\ lcd_enable /\ ~reset
  /\ UNCHANGED <<lcd_enable, reset, statVars>>
  /\ DmaTick
  /\ ScanTick \/ DrawTick \/ HblankWaits \/ HblankEnds \/ VblankTick

Tick == OffTick \/ OnTick \/ RunTick

frameVars == <<mode, ly, mode_cycles, hblank_cycles, lineVars, last_stat>>

\* A write to LCDC.  Four ticks or more lie between two writes of the CPU, so
\* the LCD is not switched on again before a tick has seen it off.  Nothing
\* bounds window_line_counter when the LCD is switched off in every frame;
\* here a counter beyond Height is not carried on.
SwitchLcd ==
  /\ lcd_enable \/ reset
  /\ window_line_counter <= Height
  /\ lcd_enable' = ~lcd_enable
  /\ requests' = {}
  /\ UNCHANGED <<reset, frameVars, statVars, dmaVars>>

WriteLyc ==
  /\ lyc' \in LycInputs
  /\ requests' = {}
  /\ UNCHANGED <<lcd_enable, reset, frameVars, stat_int, dmaVars>>

\* A write to STAT, whose mode bits are read-only.
WriteStat ==
  /\ stat_int' \in StatInputs
  /\ requests' = {}
  /\ UNCHANGED <<lcd_enable, reset, frameVars, lyc, dmaVars>>

WriteDma ==
  /\ StartDma
  /\ requests' = {}
  /\ UNCHANGED <<lcd_enable, reset, frameVars, statVars>>

\* fgb_ppu_write_oam: the table is closed in two modes as well.
CpuWriteOam ==
  /\ mode \notin {"OAM_SCAN", "DRAW"}
  /\ \E i \in 0..(DmaBytes - 1) : WriteOam(i)
  /\ requests' = {}
  /\ UNCHANGED <<lcd_enable, reset, frameVars, statVars>>

\* fgb_ppu_reset; last_stat and oam_blocked have no line in it.
Reset ==
  /\ ResetDma
  /\ lcd_enable' = FALSE /\ reset' = FALSE
  /\ mode' = "HBLANK" /\ ly' = 0 /\ mode_cycles' = 0
  /\ hblank_cycles' = HblankMax
  /\ oam_scan_done' = FALSE /\ scanned' = -1
  /\ reached_window_x' = FALSE /\ reached_window_y' = FALSE
  /\ window_line_counter' = 0
  /\ lyc' = 0 /\ stat_int' = {}
  /\ requests' = {}
  /\ UNCHANGED last_stat

PpuNext ==
  \/ Tick \/ SwitchLcd \/ WriteLyc \/ WriteStat
  \/ WriteDma \/ CpuWriteOam \/ Reset

\* The CPU ticks the PPU on every T-cycle.
PpuSpec == PpuInit /\ [][PpuNext]_ppuVars /\ WF_ppuVars(Tick)

=============================================================================
