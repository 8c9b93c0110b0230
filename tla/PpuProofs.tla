------------------------------ MODULE PpuProofs ------------------------------
(***************************************************************************)
(* What the PPU guarantees for every length of a line, of a scan, of       *)
(* drawing, of a frame and of a DMA.                                       *)
(*                                                                         *)
(* The frame splits into four inductive invariants that do not depend on   *)
(* one another: the DMA's clock (DmaInv), the position in the frame        *)
(* (LineInv), the owner of the sprite buffer (SpriteInv) and the STAT line *)
(* (StatInv).  Each says what the counters of the code hold while the LCD  *)
(* is running; with the LCD off they are left where it stopped, and only   *)
(* the tick that sees it off brings them back.                             *)
(***************************************************************************)
EXTENDS PpuFrame, TLAPS

USE DmaAssumption DEF DmaAssumption

-----------------------------------------------------------------------------
(* The DMA. *)

\* The period of DmaPeriod + 1 ticks holds one whole byte.
LEMMA OneByteDue == (DmaPeriod + 1) \div DmaPeriod = 1
BY SMT

LEMMA PeriodOfNext ==
  ASSUME NEW b \in Nat
  PROVE  DmaPeriod * (b + 1) = DmaPeriod * b + DmaPeriod
BY SMT

LEMMA PeriodsGrow ==
  ASSUME NEW a \in Nat, NEW b \in Nat, a <= b
  PROVE  /\ DmaPeriod * a \in Nat
         /\ DmaPeriod * a <= DmaPeriod * b
BY SMT

DmaFlags ==
  /\ dma_active \in BOOLEAN /\ oam_blocked \in BOOLEAN
  /\ restarted \in BOOLEAN /\ torn \in BOOLEAN

DmaTypes ==
  /\ dma_cycles \in (-IntMax - 1)..IntMax
  /\ dma_bytes \in 0..DmaBytes
  /\ dma_age \in 0..DmaTail

\* An active transfer: where its two counters are, and what it has copied.
DmaMoves ==
  dma_active =>
    /\ dma_bytes < DmaBytes
    /\ dma_cycles \in 0..DmaPeriod
    /\ dma_bytes > 0 => dma_cycles > 0
    /\ dma_age = DmaPeriod * dma_bytes + dma_cycles
    /\ copied = 0..(dma_bytes - 1)
    /\ oam_blocked <=> dma_bytes > 0 \/ restarted
    /\ ~torn

\* The tail of a transfer, and the time without one.
DmaRests ==
  ~dma_active =>
    /\ dma_age >= DmaEnd
    /\ dma_age < DmaTail =>
         /\ dma_bytes = DmaBytes
         /\ dma_age = DmaPeriod * DmaBytes + dma_cycles
         /\ oam_blocked /\ ~torn
    /\ dma_age = DmaTail => (oam_blocked <=> torn) /\ ~restarted
    /\ torn => dma_cycles \in 0..DmaPeriod
    /\ copied \in SUBSET (0..(DmaBytes - 1))

DmaInv == DmaTypes /\ DmaMoves /\ DmaRests

dmaHistory == <<dma_age, restarted, torn>>

\* What a tick does to the record of the transfer.
DmaAges ==
  /\ dma_age' = AtMost(dma_age + 1, DmaTail)
  /\ restarted' <=> restarted /\ dma_age' < DmaTail
  /\ torn' <=> torn /\ dma_cycles' <= DmaPeriod

LEMMA DmaInitInv == FrameInit => DmaInv
<1> SUFFICES ASSUME FrameInit PROVE DmaInv
  OBVIOUS
<1>1. DmaPeriod * DmaBytes \in Nat
  BY PeriodsGrow
<1>2. QED
  BY <1>1 DEF FrameInit, PpuInit, DmaInit, DmaInv, DmaTypes, DmaMoves, DmaRests,
              DmaEnd, DmaTail

\* DmaTick, its numbers and its flags.
LEMMA TickNumbers ==
  ASSUME DmaTick
  PROVE  /\ dma_bytes' = dma_bytes + BytesDue
         /\ dma_cycles' = NextCycle - BytesDue * DmaPeriod
         /\ copied' = copied \union dma_bytes..((dma_bytes + BytesDue) - 1)
BY Zenon DEF DmaTick

LEMMA TickFlags ==
  ASSUME DmaTick
  PROVE  /\ dma_active' <=> dma_active /\ dma_bytes' < DmaBytes
         /\ oam_blocked' <=> /\ oam_blocked \/ (dma_active /\ NextCycle > DmaPeriod)
                             /\ dma_active' \/ dma_cycles' <= DmaPeriod
BY Zenon DEF DmaTick

\* A tick of an active transfer that moves no byte.
LEMMA DmaWaits ==
  ASSUME DmaInv, DmaTick, DmaAges, dma_active, dma_cycles < DmaPeriod
  PROVE  DmaInv' /\ dma_active'
<1>1. NextCycle = dma_cycles + 1 /\ dma_cycles + 1 \in 1..DmaPeriod
  BY DEF DmaInv, DmaMoves, NextCycle
<1>2. BytesDue = 0
  BY <1>1 DEF BytesDue
<1>3. /\ dma_bytes' = dma_bytes /\ dma_cycles' = dma_cycles + 1
      /\ dma_active'
      /\ copied' = copied \union dma_bytes..(dma_bytes - 1)
      /\ (oam_blocked' <=> oam_blocked)
  BY <1>1, <1>2, TickNumbers, TickFlags DEF DmaInv, DmaMoves, DmaTypes
<1>4. copied' = copied
  BY <1>3 DEF DmaInv, DmaTypes
<1>5. DmaPeriod * dma_bytes \in Nat /\ DmaPeriod * dma_bytes <= DmaPeriod * DmaBytes
  BY PeriodsGrow DEF DmaInv, DmaTypes
<1>6. DmaPeriod * DmaBytes \in Nat /\ DmaPeriod * (dma_bytes + 1) <= DmaPeriod * DmaBytes
  BY PeriodsGrow DEF DmaInv, DmaTypes, DmaMoves
<1>7. DmaPeriod * (dma_bytes + 1) = DmaPeriod * dma_bytes + DmaPeriod
  BY PeriodOfNext DEF DmaInv, DmaTypes
<1>8. dma_age' = dma_age + 1 /\ dma_age + 1 < DmaTail
  BY <1>1, <1>5, <1>6, <1>7 DEF DmaAges, AtMost, DmaInv, DmaMoves, DmaTypes, DmaTail, DmaEnd
<1>9. (restarted' <=> restarted) /\ ~torn'
  BY <1>8 DEF DmaAges, DmaInv, DmaTypes, DmaMoves
<1>10. DmaTypes'
  BY <1>1, <1>3, <1>5, <1>8 DEF DmaInv, DmaTypes, DmaTail, DmaEnd
<1>11. DmaMoves' /\ DmaRests'
  BY <1>1, <1>3, <1>4, <1>5, <1>8, <1>9 DEF DmaInv, DmaTypes, DmaMoves, DmaRests
<1> QED
  BY <1>3, <1>10, <1>11 DEF DmaInv

\* A tick that moves a byte: the transfer goes on, or that was the last one.
LEMMA DmaCopies ==
  ASSUME DmaInv, DmaTick, DmaAges, dma_active, dma_cycles = DmaPeriod
  PROVE  /\ DmaInv'
         /\ ~dma_active' => copied' = 0..(DmaBytes - 1)
<1>1. NextCycle = DmaPeriod + 1
  BY DEF NextCycle
<1>2. BytesDue = 1
  BY <1>1, OneByteDue DEF BytesDue, AtMost, DmaInv, DmaMoves, DmaTypes
<1>3. /\ dma_bytes' = dma_bytes + 1 /\ dma_cycles' = 1
      /\ (dma_active' <=> dma_bytes + 1 < DmaBytes)
      /\ copied' = copied \union dma_bytes..dma_bytes
      /\ oam_blocked'
  BY <1>1, <1>2, TickNumbers, TickFlags DEF DmaInv, DmaTypes
<1>4. copied' = 0..dma_bytes
  BY <1>3 DEF DmaInv, DmaTypes, DmaMoves
<1>5. DmaPeriod * dma_bytes \in Nat /\ DmaPeriod * DmaBytes \in Nat
  BY PeriodsGrow DEF DmaInv, DmaTypes
<1>6. /\ DmaPeriod * (dma_bytes + 1) <= DmaPeriod * DmaBytes
      /\ DmaPeriod * (dma_bytes + 1) = DmaPeriod * dma_bytes + DmaPeriod
  BY PeriodsGrow, PeriodOfNext DEF DmaInv, DmaTypes, DmaMoves
<1>7. /\ dma_age' = DmaPeriod * (dma_bytes + 1) + 1
      /\ dma_age' = dma_age + 1 /\ dma_age' < DmaTail
  BY <1>5, <1>6 DEF DmaAges, AtMost, DmaInv, DmaMoves, DmaTypes, DmaTail, DmaEnd
<1>8. (restarted' <=> restarted) /\ ~torn'
  BY <1>7 DEF DmaAges, DmaInv, DmaTypes, DmaMoves
<1>9. DmaTypes'
  BY <1>3, <1>5, <1>7 DEF DmaInv, DmaTypes, DmaMoves, DmaTail, DmaEnd
<1>10. CASE dma_bytes + 1 < DmaBytes
  <2>1. DmaMoves'
    BY <1>3, <1>4, <1>7, <1>8, <1>10 DEF DmaInv, DmaTypes, DmaMoves
  <2> QED
    BY <1>3, <1>9, <1>10, <2>1 DEF DmaInv, DmaRests
<1>11. CASE dma_bytes + 1 = DmaBytes
  <2>1. DmaRests'
    BY <1>3, <1>4, <1>5, <1>7, <1>8, <1>11 DEF DmaInv, DmaTypes, DmaRests, DmaEnd
  <2> QED
    BY <1>3, <1>4, <1>9, <1>11, <2>1 DEF DmaInv, DmaMoves, DmaTypes
<1> QED
  BY <1>10, <1>11 DEF DmaInv, DmaTypes, DmaMoves

\* A tick without a transfer.
LEMMA DmaIdles ==
  ASSUME DmaInv, DmaTick, DmaAges, ~dma_active
  PROVE  DmaInv' /\ ~dma_active'
<1>1. BytesDue = 0
  BY DEF BytesDue
<1>2. NextCycle \in (-IntMax - 1)..IntMax
  BY DEF NextCycle, DmaInv, DmaTypes
<1>3. /\ dma_bytes' = dma_bytes /\ dma_cycles' = NextCycle
      /\ ~dma_active'
      /\ copied' = copied \union dma_bytes..(dma_bytes - 1)
      /\ (oam_blocked' <=> oam_blocked /\ NextCycle <= DmaPeriod)
  BY <1>1, <1>2, TickNumbers, TickFlags DEF DmaInv, DmaTypes
<1>4. copied' = copied
  BY <1>3 DEF DmaInv, DmaTypes
<1>5. DmaPeriod * DmaBytes \in Nat
  BY PeriodsGrow
<1>6. CASE dma_age < DmaTail
  <2>1. dma_cycles \in 1..DmaPeriod /\ NextCycle = dma_cycles + 1
    BY <1>5, <1>6 DEF DmaInv, DmaRests, DmaTypes, NextCycle, DmaEnd, DmaTail
  <2>2. dma_age' = dma_age + 1 /\ ~torn'
    BY <1>5, <1>6 DEF DmaAges, AtMost, DmaInv, DmaTypes, DmaRests, DmaTail, DmaEnd
  <2>3. /\ oam_blocked' <=> dma_age' < DmaTail
        /\ restarted' => dma_age' < DmaTail
    BY <1>3, <1>5, <1>6, <2>1, <2>2
       DEF DmaAges, DmaInv, DmaTypes, DmaRests, DmaTail, DmaEnd
  <2>4. DmaTypes'
    BY <1>2, <1>3, <1>5, <1>6, <2>2, <2>3 DEF DmaInv, DmaTypes, DmaTail, DmaEnd
  <2> QED
    BY <1>3, <1>4, <1>5, <1>6, <2>1, <2>2, <2>3, <2>4
       DEF DmaInv, DmaTypes, DmaMoves, DmaRests, DmaTail, DmaEnd
<1>7. CASE dma_age = DmaTail
  <2>1. dma_age' = DmaTail /\ ~restarted'
    BY <1>5, <1>7 DEF DmaAges, AtMost, DmaInv, DmaTypes, DmaRests, DmaTail, DmaEnd
  <2>2. torn' <=> torn /\ NextCycle <= DmaPeriod
    BY <1>3 DEF DmaAges
  <2>3. oam_blocked' <=> torn'
    BY <1>3, <1>7, <2>2 DEF DmaInv, DmaRests, DmaTypes
  <2>4. torn' => NextCycle \in 0..DmaPeriod
    BY <2>2 DEF DmaInv, DmaRests, DmaTypes, NextCycle
  <2>5. DmaTypes'
    BY <1>2, <1>3, <1>5, <2>1, <2>2, <2>3 DEF DmaInv, DmaTypes, DmaTail, DmaEnd
  <2> QED
    BY <1>3, <1>4, <1>5, <2>1, <2>3, <2>4, <2>5
       DEF DmaInv, DmaTypes, DmaMoves, DmaRests, DmaTail, DmaEnd
<1> QED
  BY <1>3, <1>5, <1>6, <1>7 DEF DmaInv, DmaTypes, DmaTail, DmaEnd

LEMMA DmaTickInv ==
  ASSUME DmaInv, DmaTick, DmaAges
  PROVE  DmaInv' /\ (dma_active /\ ~dma_active' => copied' = 0..(DmaBytes - 1))
<1>1. CASE ~dma_active
  BY <1>1, DmaIdles
<1>2. CASE dma_active /\ dma_cycles < DmaPeriod
  BY <1>2, DmaWaits
<1>3. CASE dma_active /\ dma_cycles = DmaPeriod
  BY <1>3, DmaCopies
<1> QED
  BY <1>1, <1>2, <1>3 DEF DmaInv, DmaMoves

LEMMA DmaStartInv ==
  ASSUME DmaInv, StartDma, dma_age' = 0, restarted' <=> dma_active, ~torn'
  PROVE  DmaInv' /\ dma_active'
<1>1. DmaPeriod * DmaBytes \in Nat /\ DmaPeriod * 0 = 0
  BY PeriodsGrow
<1> QED
  BY <1>1 DEF StartDma, DmaInv, DmaTypes, DmaMoves, DmaRests, DmaTail, DmaEnd

LEMMA DmaResetInv ==
  ASSUME DmaInv, ResetDma, dma_age' = DmaTail, ~restarted',
         torn' <=> torn \/ oam_blocked
  PROVE  DmaInv'
<1>1. DmaPeriod * DmaBytes \in Nat
  BY PeriodsGrow
<1>2. DmaTypes'
  BY <1>1 DEF ResetDma, DmaInv, DmaTypes, DmaTail, DmaEnd
<1>3. oam_blocked' <=> torn'
  BY DEF ResetDma, DmaInv, DmaTypes, DmaMoves, DmaRests, DmaTail, DmaEnd
<1> QED
  BY <1>1, <1>2, <1>3 DEF ResetDma, DmaInv, DmaMoves, DmaRests, DmaTail, DmaEnd

\* The CPU's writes find the table open only before the first byte and after
\* the tail.
LEMMA DmaWriteInv ==
  ASSUME DmaInv, NEW i \in 0..(DmaBytes - 1), WriteOam(i), UNCHANGED dmaHistory
  PROVE  DmaInv' /\ (dma_active' <=> dma_active)
<1>1. dma_active => copied' = copied
  BY DEF WriteOam, DmaInv, DmaTypes, DmaMoves
<1> QED
  BY <1>1 DEF WriteOam, dmaHistory, DmaInv, DmaTypes, DmaMoves, DmaRests, DmaEnd, DmaTail

LEMMA DmaStutterInv ==
  ASSUME DmaInv, UNCHANGED dmaVars, UNCHANGED dmaHistory
  PROVE  DmaInv' /\ (dma_active' <=> dma_active)
BY DEF dmaVars, dmaHistory, DmaInv, DmaTypes, DmaMoves, DmaRests, DmaEnd, DmaTail

\* Every step keeps the clock, and ends a transfer only when it is complete.
LEMMA DmaNextInv ==
  ASSUME DmaInv, [FrameNext]_frameSpecVars
  PROVE  /\ DmaInv'
         /\ dma_active /\ ~dma_active' /\ ~Reset => copied' = 0..(DmaBytes - 1)
<1>1. CASE FrameRun
  <2>1. DmaTick /\ DmaAges
    BY <1>1 DEF FrameRun, RunTick, DmaAges
  <2> QED
    BY <2>1, DmaTickInv
<1>2. CASE FrameOff
  <2>1. UNCHANGED dmaVars /\ UNCHANGED dmaHistory
    BY <1>2 DEF FrameOff, OffTick, dmaHistory
  <2> QED
    BY <2>1, DmaStutterInv
<1>3. CASE FrameOn
  <2>1. UNCHANGED dmaVars /\ UNCHANGED dmaHistory
    BY <1>3 DEF FrameOn, OnTick, dmaHistory
  <2> QED
    BY <2>1, DmaStutterInv
<1>4. CASE FrameSwitch
  <2>1. UNCHANGED dmaVars /\ UNCHANGED dmaHistory
    BY <1>4 DEF FrameSwitch, SwitchLcd, dmaHistory, history
  <2> QED
    BY <2>1, DmaStutterInv
<1>5. CASE FrameDma
  BY <1>5, DmaStartInv DEF FrameDma, WriteDma
<1>6. CASE FrameWrite
  <2>1. CASE CpuWriteOam
    <3>1. UNCHANGED dmaHistory
      BY <1>6 DEF FrameWrite, history, dmaHistory
    <3> QED
      BY <2>1, <3>1, DmaWriteInv DEF CpuWriteOam
  <2>2. CASE WriteLyc \/ WriteStat
    <3>1. UNCHANGED dmaVars /\ UNCHANGED dmaHistory
      BY <1>6, <2>2 DEF FrameWrite, WriteLyc, WriteStat, history, dmaHistory
    <3> QED
      BY <3>1, DmaStutterInv
  <2> QED
    BY <1>6, <2>1, <2>2 DEF FrameWrite
<1>7. CASE FrameReset
  BY <1>7, DmaResetInv DEF FrameReset, Reset
<1>8. CASE UNCHANGED frameSpecVars
  <2>1. UNCHANGED dmaVars /\ UNCHANGED dmaHistory
    BY <1>8 DEF frameSpecVars, ppuVars, history, dmaHistory
  <2> QED
    BY <2>1, DmaStutterInv
<1> QED
  BY <1>1, <1>2, <1>3, <1>4, <1>5, <1>6, <1>7, <1>8 DEF FrameNext

LEMMA DmaInvMeaning == DmaInv => DmaOnTime
<1> SUFFICES ASSUME DmaInv PROVE DmaOnTime
  OBVIOUS
<1>1. /\ DmaPeriod * DmaBytes \in Nat /\ DmaPeriod * dma_bytes \in Nat
      /\ DmaPeriod * 1 <= DmaPeriod * DmaBytes
      /\ dma_bytes > 0 => DmaPeriod * 1 <= DmaPeriod * dma_bytes
  BY PeriodsGrow DEF DmaInv, DmaTypes
<1>2. CASE dma_active
  <2>1. /\ DmaPeriod * (dma_bytes + 1) <= DmaPeriod * DmaBytes
        /\ DmaPeriod * (dma_bytes + 1) = DmaPeriod * dma_bytes + DmaPeriod
    BY <1>2, PeriodsGrow, PeriodOfNext DEF DmaInv, DmaTypes, DmaMoves
  <2>2. dma_age < DmaEnd
    BY <1>1, <1>2, <2>1 DEF DmaInv, DmaTypes, DmaMoves, DmaEnd
  <2>3. dma_bytes > 0 <=> dma_age > DmaPeriod
    <3>1. CASE dma_bytes = 0
      BY <1>2, <3>1 DEF DmaInv, DmaTypes, DmaMoves
    <3>2. CASE dma_bytes > 0
      BY <1>1, <1>2, <3>2 DEF DmaInv, DmaTypes, DmaMoves
    <3> QED
      BY <3>1, <3>2 DEF DmaInv, DmaTypes
  <2> QED
    BY <1>2, <2>2, <2>3 DEF DmaInv, DmaTypes, DmaMoves, DmaOnTime, DmaTail, DmaEnd
<1>3. CASE ~dma_active
  BY <1>1, <1>3 DEF DmaInv, DmaTypes, DmaRests, DmaOnTime, DmaTail, DmaEnd
<1> QED
  BY <1>2, <1>3

\* After any number of ticks, writes to FF46, writes to OAM, switches of the
\* LCD and resets, the transfer is where the time since its start says, and
\* OAM is open and closed when it should be (the DMA part of fgb_ppu_tick).
THEOREM DmaOnTimeCorrect == FrameSpec => []DmaOnTime
<1>1. DmaInv /\ [FrameNext]_frameSpecVars => DmaInv'
  BY DmaNextInv
<1> QED
  BY <1>1, DmaInitInv, DmaInvMeaning, PTL DEF FrameSpec

\* A transfer that ends has left its own bytes in all of OAM.
THEOREM TransferIntactCorrect == FrameSpec => TransferIntact
<1>1. DmaInv /\ [FrameNext]_frameSpecVars => DmaInv'
  BY DmaNextInv
<1>2. DmaInv /\ [FrameNext]_frameSpecVars =>
        [dma_active /\ ~dma_active' /\ ~Reset => copied' = 0..(DmaBytes - 1)]_frameSpecVars
  BY DmaNextInv
<1> QED
  BY <1>1, <1>2, DmaInitInv, PTL DEF FrameSpec, TransferIntact

-----------------------------------------------------------------------------
(* The position in the frame. *)

USE PpuAssumption DEF PpuAssumption

\* Where the counters of a running frame are, mode by mode.
LineModes ==
  Running =>
    /\ mode = "VBLANK" <=> ly >= Height
    /\ mode = "OAM_SCAN" => mode_cycles < ScanCycles /\ elapsed = mode_cycles
    /\ mode = "DRAW" => mode_cycles < DrawMax /\ elapsed = ScanCycles + mode_cycles
    /\ mode = "HBLANK" => /\ mode_cycles < hblank_cycles
                          /\ elapsed = LineCycles - hblank_cycles + mode_cycles
    /\ mode = "VBLANK" => mode_cycles < LineCycles /\ elapsed = mode_cycles

\* A tick that has seen the LCD off has left the frame.
LineOff == reset => ly = 0 /\ mode = "HBLANK" /\ mode_cycles = 0

\* The window's lines: at most Height from before the LCD was switched on, and
\* one for each line since.
WindowLines ==
  /\ ~Running => window_line_counter <= Height
  /\ Running => /\ mode \in {"OAM_SCAN", "DRAW"} => window_line_counter <= Height + ly
                /\ mode = "HBLANK" => window_line_counter <= Height + ly + 1
                /\ mode = "VBLANK" => window_line_counter <= Height

LineTypes ==
  /\ mode \in Modes
  /\ ly \in 0..(Lines - 1)
  /\ mode_cycles \in 0..LineCycles
  /\ hblank_cycles \in 0..HblankMax
  /\ scanned \in -1..(Height - 1)
  /\ window_line_counter \in 0..(2 * Height)
  /\ elapsed \in 0..(LineCycles - 1)

LineInv == LineTypes /\ LineModes /\ LineOff /\ WindowLines

\* A tick of the line's clock.
LEMMA NextElapsed ==
  ASSUME LineTypes
  PROVE  (elapsed + 1) % LineCycles =
           IF elapsed + 1 = LineCycles THEN 0 ELSE elapsed + 1
<1>1. CASE elapsed + 1 = LineCycles
  <2>1. LineCycles % LineCycles = 0
    BY SMT
  <2> QED
    BY <1>1, <2>1
<1>2. CASE elapsed + 1 < LineCycles
  <2>1. \A n \in Nat \ {0}, x \in Nat : x < n => x % n = x
    BY SMT
  <2> QED
    BY <1>2, <2>1 DEF LineTypes
<1> QED
  BY <1>1, <1>2 DEF LineTypes

LineElapses ==
  elapsed' = IF mode' = "OAM_SCAN" /\ mode # "OAM_SCAN" THEN 0
             ELSE (elapsed + 1) % LineCycles

LEMMA LineInitInv == FrameInit => LineInv
BY DEF FrameInit, PpuInit, LineInv, LineTypes, LineModes, LineOff, WindowLines,
       Running, Modes, HblankMax

LEMMA LineScanInv ==
  ASSUME LineInv, Running, Running', reset' = reset, ScanTick, LineElapses
  PROVE  LineInv'
<1>1. /\ mode = "OAM_SCAN" /\ mode_cycles \in 0..(ScanCycles - 1)
      /\ elapsed = mode_cycles /\ ly < Height
      /\ window_line_counter <= Height + ly
  BY DEF ScanTick, LineInv, LineTypes, LineModes, WindowLines, Modes
<1>2. elapsed' = elapsed + 1
  BY <1>1, NextElapsed DEF LineElapses, LineInv, ScanTick
<1>3. /\ ly' = ly /\ hblank_cycles' = hblank_cycles
      /\ window_line_counter' = window_line_counter
      /\ scanned' \in -1..(Height - 1)
  BY <1>1 DEF ScanTick, LineInv, LineTypes
<1>4. CASE mode_cycles + 1 < ScanCycles
  <2>1. mode' = "OAM_SCAN" /\ mode_cycles' = mode_cycles + 1
    BY <1>1, <1>4 DEF ScanTick
  <2> QED
    BY <1>1, <1>2, <1>3, <1>4, <2>1
       DEF LineInv, LineTypes, LineModes, LineOff, WindowLines, Modes, Running
<1>5. CASE mode_cycles + 1 = ScanCycles
  <2>1. mode' = "DRAW" /\ mode_cycles' = 0
    BY <1>1, <1>5 DEF ScanTick
  <2> QED
    BY <1>1, <1>2, <1>3, <1>5, <2>1
       DEF LineInv, LineTypes, LineModes, LineOff, WindowLines, Modes, Running
<1> QED
  BY <1>1, <1>4, <1>5

LEMMA LineDrawInv ==
  ASSUME LineInv, Running, Running', reset' = reset, DrawTick, LineElapses
  PROVE  LineInv'
<1>1. /\ mode = "DRAW" /\ mode_cycles \in 0..(DrawMax - 1)
      /\ elapsed = ScanCycles + mode_cycles /\ ly < Height
      /\ window_line_counter <= Height + ly
  BY DEF DrawTick, LineInv, LineTypes, LineModes, WindowLines, Modes
<1>2. elapsed' = elapsed + 1
  BY <1>1, NextElapsed DEF LineElapses, LineInv, DrawTick, HblankMax
<1>3. ly' = ly /\ scanned' = scanned
  BY DEF DrawTick
<1>4. CASE mode_cycles + 1 < DrawMax /\ mode_cycles' = mode_cycles + 1
           /\ UNCHANGED <<mode, hblank_cycles, window_line_counter>>
  BY <1>1, <1>2, <1>3, <1>4
     DEF LineInv, LineTypes, LineModes, LineOff, WindowLines, Modes, Running, HblankMax
<1>5. CASE /\ mode' = "HBLANK"
           /\ hblank_cycles' = IF mode_cycles + 1 >= HblankMax THEN 0
                               ELSE HblankMax - (mode_cycles + 1)
           /\ mode_cycles' = 0
           /\ window_line_counter' = IF reached_window_x' THEN window_line_counter + 1
                                     ELSE window_line_counter
  <2>1. hblank_cycles' = HblankMax - (mode_cycles + 1) /\ hblank_cycles' > 0
    BY <1>1, <1>5 DEF HblankMax
  <2>2. /\ window_line_counter' <= Height + ly + 1
        /\ window_line_counter' \in 0..(2 * Height)
    BY <1>1, <1>5 DEF LineInv, LineTypes
  <2> QED
    BY <1>1, <1>2, <1>3, <1>5, <2>1, <2>2
       DEF LineInv, LineTypes, LineModes, LineOff, WindowLines, Modes, Running, HblankMax
<1> QED
  BY <1>4, <1>5 DEF DrawTick

LEMMA LineHblankInv ==
  ASSUME LineInv, Running, Running', reset' = reset, HblankWaits \/ HblankEnds, LineElapses
  PROVE  LineInv'
<1>1. /\ mode = "HBLANK" /\ mode_cycles < hblank_cycles
      /\ elapsed = LineCycles - hblank_cycles + mode_cycles /\ ly < Height
      /\ window_line_counter <= Height + ly + 1
  BY DEF HblankWaits, HblankEnds, LineInv, LineTypes, LineModes, WindowLines, Modes
<1>2. CASE HblankWaits
  <2>1. elapsed' = elapsed + 1
    BY <1>1, <1>2, NextElapsed DEF LineElapses, LineInv, LineTypes, HblankWaits, HblankMax
  <2> QED
    BY <1>1, <1>2, <2>1 DEF HblankWaits, lineVars, LineInv, LineTypes, LineModes,
       LineOff, WindowLines, Modes, Running, HblankMax
<1>3. CASE HblankEnds
  <2>1. /\ mode_cycles + 1 = hblank_cycles /\ elapsed + 1 = LineCycles
        /\ mode_cycles' = 0 /\ ly' = ly + 1
        /\ hblank_cycles' = hblank_cycles /\ scanned' = scanned
    BY <1>1, <1>3 DEF HblankEnds, LineInv, LineTypes, HblankMax
  <2>2. elapsed' = 0
    BY <1>1, <2>1, NextElapsed DEF LineElapses, LineInv
  <2>3. CASE ly + 1 = Height
    BY <1>1, <1>3, <2>1, <2>2, <2>3 DEF HblankEnds, LineInv, LineTypes, LineModes,
       LineOff, WindowLines, Modes, Running
  <2>4. CASE ly + 1 # Height
    <3>1. ly + 1 < Height
      BY <1>1, <2>4 DEF LineInv, LineTypes
    <3> QED
      BY <1>1, <1>3, <2>1, <2>2, <2>4, <3>1 DEF HblankEnds, LineInv, LineTypes, LineModes,
         LineOff, WindowLines, Modes, Running
  <2> QED
    BY <2>3, <2>4
<1> QED
  BY <1>2, <1>3

LEMMA LineVblankInv ==
  ASSUME LineInv, Running, Running', reset' = reset, VblankTick, LineElapses
  PROVE  LineInv'
<1>1. /\ mode = "VBLANK" /\ mode_cycles \in 0..(LineCycles - 1)
      /\ elapsed = mode_cycles /\ ly >= Height
      /\ window_line_counter <= Height
  BY DEF VblankTick, LineInv, LineTypes, LineModes, WindowLines, Modes
<1>2. /\ hblank_cycles' = hblank_cycles /\ scanned' = scanned
      /\ window_line_counter' = window_line_counter
  BY DEF VblankTick, lineVars
<1>3. CASE mode_cycles + 1 < LineCycles
  <2>1. mode' = mode /\ ly' = ly /\ mode_cycles' = mode_cycles + 1
    BY <1>1, <1>3 DEF VblankTick
  <2>2. elapsed' = elapsed + 1
    BY <1>1, <1>3, <2>1, NextElapsed DEF LineElapses, LineInv
  <2> QED
    BY <1>1, <1>2, <1>3, <2>1, <2>2 DEF LineInv, LineTypes, LineModes,
       LineOff, WindowLines, Modes, Running
<1>4. CASE mode_cycles + 1 = LineCycles /\ ly + 1 < Lines
  <2>1. mode' = mode /\ ly' = ly + 1 /\ mode_cycles' = 0
    BY <1>1, <1>4 DEF VblankTick, LineInv, LineTypes
  <2>2. elapsed' = 0
    BY <1>1, <1>4, <2>1, NextElapsed DEF LineElapses, LineInv
  <2> QED
    BY <1>1, <1>2, <1>4, <2>1, <2>2 DEF LineInv, LineTypes, LineModes,
       LineOff, WindowLines, Modes, Running
<1>5. CASE mode_cycles + 1 = LineCycles /\ ly + 1 = Lines
  <2>1. mode' = "OAM_SCAN" /\ ly' = 0 /\ mode_cycles' = 0
    BY <1>1, <1>5 DEF VblankTick, LineInv, LineTypes
  <2>2. elapsed' = 0
    BY <1>1, <2>1 DEF LineElapses
  <2> QED
    BY <1>1, <1>2, <1>5, <2>1, <2>2 DEF LineInv, LineTypes, LineModes,
       LineOff, WindowLines, Modes, Running
<1> QED
  BY <1>1, <1>3, <1>4, <1>5 DEF LineInv, LineTypes

LEMMA LineNextInv ==
  ASSUME LineInv, [FrameNext]_frameSpecVars
  PROVE  LineInv'
<1>1. CASE FrameRun
  <2>1. Running /\ Running' /\ reset' = reset /\ LineElapses
    BY <1>1 DEF FrameRun, RunTick, Running, LineElapses
  <2>2. ScanTick \/ DrawTick \/ HblankWaits \/ HblankEnds \/ VblankTick
    BY <1>1 DEF FrameRun, RunTick
  <2> QED
    BY <2>1, <2>2, LineScanInv, LineDrawInv, LineHblankInv, LineVblankInv
<1>2. CASE FrameOff
  BY <1>2 DEF FrameOff, OffTick, LineInv, LineTypes, LineModes, LineOff, WindowLines,
     lineVars, Running, Modes, HblankMax
<1>3. CASE FrameOn
  BY <1>3 DEF FrameOn, OnTick, LineInv, LineTypes, LineModes, LineOff, WindowLines,
     lineVars, Running, Modes, HblankMax
<1>4. CASE FrameSwitch
  BY <1>4 DEF FrameSwitch, SwitchLcd, frameVars, history, LineInv, LineTypes, LineModes,
     LineOff, WindowLines, lineVars, Running, Modes
<1>5. CASE UNCHANGED <<lcd_enable, reset, frameVars, elapsed>>
  BY <1>5 DEF frameVars, LineInv, LineTypes, LineModes, LineOff, WindowLines,
     lineVars, Running
<1>6. CASE FrameReset
  BY <1>6 DEF FrameReset, Reset, LineInv, LineTypes, LineModes, LineOff, WindowLines,
     Running, Modes, HblankMax
<1>7. FrameDma \/ FrameWrite => UNCHANGED <<lcd_enable, reset, frameVars, elapsed>>
  BY DEF FrameDma, FrameWrite, WriteDma, WriteLyc, WriteStat, CpuWriteOam, history
<1>8. UNCHANGED frameSpecVars => UNCHANGED <<lcd_enable, reset, frameVars, elapsed>>
  BY DEF frameSpecVars, ppuVars, frameVars, history, lineVars
<1> QED
  BY <1>1, <1>2, <1>3, <1>4, <1>5, <1>6, <1>7, <1>8 DEF FrameNext

LEMMA LineInvMeaning == LineInv => LineOnTime
BY DEF LineInv, LineTypes, LineModes, LineOnTime, Modes, HblankMax

\* A running frame is where its mode and line say, whatever drawing takes and
\* whenever the LCD is switched (the mode switch of fgb_ppu_tick).
THEOREM LineOnTimeCorrect == FrameSpec => []LineOnTime
<1>1. LineInv /\ [FrameNext]_frameSpecVars => LineInv'
  BY LineNextInv
<1> QED
  BY <1>1, LineInitInv, LineInvMeaning, PTL DEF FrameSpec

-----------------------------------------------------------------------------
(* The sprites of the line. *)

\* Whose sprites the buffer holds.  A scan is armed in every mode but OAM
\* scan, and stays armed there for as long as a DMA keeps it off the table.
SpriteInv ==
  /\ excuse \in {"none", "dma", "stale"}
  /\ Running => /\ mode # "OAM_SCAN" => ~oam_scan_done
                /\ mode = "OAM_SCAN" /\ excuse = "dma" => ~oam_scan_done
                /\ mode = "OAM_SCAN" /\ excuse = "none" => oam_scan_done /\ scanned = ly
                /\ mode = "DRAW" /\ excuse = "none" => scanned = ly

Excuses ==
  excuse' = CASE mode # "OAM_SCAN" /\ mode' = "OAM_SCAN" -> "dma"
              [] mode = "OAM_SCAN" /\ excuse = "dma" /\ ~dma_active' -> "none"
              [] OTHER -> excuse

LEMMA ExcusesMeaning ==
  ASSUME Excuses
  PROVE  /\ mode # "OAM_SCAN" /\ mode' = "OAM_SCAN" => excuse' = "dma"
         /\ mode = "OAM_SCAN" /\ excuse = "dma" /\ ~dma_active' => excuse' = "none"
         /\ mode = "OAM_SCAN" /\ ~(excuse = "dma" /\ ~dma_active') => excuse' = excuse
         /\ mode # "OAM_SCAN" /\ mode' # "OAM_SCAN" => excuse' = excuse
<1>1. CASE mode # "OAM_SCAN" /\ mode' = "OAM_SCAN"
  BY <1>1 DEF Excuses
<1>2. CASE mode = "OAM_SCAN" /\ excuse = "dma" /\ ~dma_active'
  BY <1>2 DEF Excuses
<1>3. CASE /\ ~(mode # "OAM_SCAN" /\ mode' = "OAM_SCAN")
           /\ ~(mode = "OAM_SCAN" /\ excuse = "dma" /\ ~dma_active')
  BY <1>3 DEF Excuses
<1> QED
  BY <1>1, <1>2, <1>3

LEMMA SpriteInitInv == FrameInit => SpriteInv
BY DEF FrameInit, PpuInit, SpriteInv, Running

LEMMA SpriteScanInv ==
  ASSUME SpriteInv, Running, ScanTick, Excuses
  PROVE  SpriteInv'
<1>1. /\ mode = "OAM_SCAN" /\ ly' = ly
      /\ mode' = "OAM_SCAN" \/ mode' = "DRAW"
      /\ mode' # "OAM_SCAN" => ~oam_scan_done'
      /\ mode' = "OAM_SCAN" => (oam_scan_done' <=> oam_scan_done \/ Scans)
      /\ Scans => scanned' = ly
      /\ ~Scans => scanned' = scanned
  BY DEF ScanTick
<1>2. Scans <=> ~oam_scan_done /\ ~dma_active'
  BY DEF Scans
<1>3. CASE excuse = "dma" /\ ~dma_active'
  <2>1. excuse' = "none" /\ Scans
    BY <1>1, <1>2, <1>3, ExcusesMeaning DEF SpriteInv
  <2> QED
    BY <1>1, <2>1 DEF SpriteInv
<1>4. CASE ~(excuse = "dma" /\ ~dma_active')
  <2>1. excuse' = excuse
    BY <1>1, <1>4, ExcusesMeaning
  <2>2. excuse \in {"dma", "none"} => ~Scans
    BY <1>1, <1>2, <1>4 DEF SpriteInv
  <2> QED
    BY <1>1, <2>1, <2>2 DEF SpriteInv
<1> QED
  BY <1>3, <1>4

\* Outside OAM scan nothing touches the buffer.
LEMMA SpriteKeepsInv ==
  ASSUME SpriteInv, Running, Excuses, mode # "OAM_SCAN",
         UNCHANGED <<oam_scan_done, scanned>>,
         mode' = "DRAW" => mode = "DRAW" /\ ly' = ly
  PROVE  SpriteInv'
<1>1. CASE mode' = "OAM_SCAN"
  BY <1>1, ExcusesMeaning DEF SpriteInv
<1>2. CASE mode' # "OAM_SCAN"
  BY <1>2, ExcusesMeaning DEF SpriteInv
<1> QED
  BY <1>1, <1>2

LEMMA SpriteNextInv ==
  ASSUME SpriteInv, [FrameNext]_frameSpecVars
  PROVE  SpriteInv'
<1>1. CASE FrameRun
  <2>1. Running /\ Excuses
    BY <1>1 DEF FrameRun, RunTick, Running, Excuses
  <2>2. CASE ScanTick
    BY <2>1, <2>2, SpriteScanInv
  <2>3. CASE DrawTick
    BY <2>1, <2>3, SpriteKeepsInv DEF DrawTick
  <2>4. CASE HblankWaits
    BY <2>1, <2>4, SpriteKeepsInv DEF HblankWaits, lineVars
  <2>5. CASE HblankEnds
    BY <2>1, <2>5, SpriteKeepsInv DEF HblankEnds
  <2>6. CASE VblankTick
    BY <2>1, <2>6, SpriteKeepsInv DEF VblankTick, lineVars
  <2> QED
    BY <1>1, <2>2, <2>3, <2>4, <2>5, <2>6 DEF FrameRun, RunTick
<1>2. CASE FrameOff
  BY <1>2 DEF FrameOff, OffTick, SpriteInv, Running
<1>3. CASE FrameOn
  BY <1>3 DEF FrameOn, OnTick, SpriteInv, Running, lineVars
<1>4. CASE FrameSwitch
  BY <1>4 DEF FrameSwitch, SwitchLcd, SpriteInv, Running, history
<1>5. CASE UNCHANGED <<lcd_enable, reset, frameVars, excuse>>
  BY <1>5 DEF frameVars, lineVars, SpriteInv, Running
<1>6. CASE FrameReset
  BY <1>6 DEF FrameReset, Reset, SpriteInv, Running
<1>7. FrameDma \/ FrameWrite => UNCHANGED <<lcd_enable, reset, frameVars, excuse>>
  BY DEF FrameDma, FrameWrite, WriteDma, WriteLyc, WriteStat, CpuWriteOam, history
<1>8. UNCHANGED frameSpecVars => UNCHANGED <<lcd_enable, reset, frameVars, excuse>>
  BY DEF frameSpecVars, ppuVars, frameVars, history, lineVars
<1> QED
  BY <1>1, <1>2, <1>3, <1>4, <1>5, <1>6, <1>7, <1>8 DEF FrameNext

\* A line is drawn with its own sprites or has the excuse that a DMA or a
\* switch of the LCD gives it (fgb_ppu_do_oam_scan).
THEOREM SpritesCorrect == FrameSpec => []SpritesOfThisLine
<1>1. SpriteInv /\ [FrameNext]_frameSpecVars => SpriteInv'
  BY SpriteNextInv
<1>2. SpriteInv => SpritesOfThisLine
  BY DEF SpriteInv, SpritesOfThisLine
<1> QED
  BY <1>1, <1>2, SpriteInitInv, PTL DEF FrameSpec

-----------------------------------------------------------------------------
(* The STAT line. *)

\* A request that the line still holds has been remembered.
StatInv == answered => last_stat

\* What a tick that evaluates the line leaves.
LEMMA StatRises ==
  ASSUME StatInv, NEW vblank, vblank \in {{}, {"VBLANK"}}, TryStatIrq(vblank),
         answered' <=> ("LCD" \in requests' \/ (answered /\ StatLine'))
  PROVE  /\ StatInv'
         /\ "LCD" \in requests' => ~answered
<1>1. "LCD" \in requests' <=> StatLine' /\ ~last_stat
  BY DEF TryStatIrq
<1>2. last_stat' = StatLine'
  BY DEF TryStatIrq
<1> QED
  BY <1>1, <1>2 DEF StatInv

LEMMA StatNextInv ==
  ASSUME StatInv, [FrameNext]_frameSpecVars
  PROVE  /\ StatInv'
         /\ [ "LCD" \in requests' => ~answered ]_frameSpecVars
<1>1. CASE FrameRun
  <2>1. answered' <=> ("LCD" \in requests' \/ (answered /\ StatLine'))
    BY <1>1 DEF FrameRun
  <2>2. CASE TryStatIrq({}) \/ TryStatIrq({"VBLANK"})
    BY <2>1, <2>2, StatRises
  <2>3. CASE requests' = {} /\ UNCHANGED last_stat
    BY <2>1, <2>3 DEF StatInv
  <2> QED
    BY <1>1, <2>2, <2>3 DEF FrameRun, RunTick, ScanTick, DrawTick, HblankWaits,
       HblankEnds, VblankTick
<1>2. CASE requests' = {} /\ UNCHANGED <<last_stat, answered>>
  BY <1>2 DEF StatInv
<1>3. CASE UNCHANGED frameSpecVars
  BY <1>3 DEF frameSpecVars, ppuVars, history, StatInv
<1> QED
  BY <1>1, <1>2, <1>3 DEF FrameNext, FrameOff, OffTick, FrameOn, OnTick, FrameSwitch,
     SwitchLcd, FrameDma, WriteDma, FrameWrite, WriteLyc, WriteStat, CpuWriteOam,
     FrameReset, Reset, frameVars, history

\* One request for each rise of the STAT line (fgb_ppu_try_stat_irq).
THEOREM OneRequestCorrect == FrameSpec => OneRequestPerRise
<1>1. FrameInit => StatInv
  BY DEF FrameInit, StatInv
<1>2. StatInv /\ [FrameNext]_frameSpecVars => StatInv'
  BY StatNextInv
<1>3. StatInv /\ [FrameNext]_frameSpecVars =>
        [ "LCD" \in requests' => ~answered ]_frameSpecVars
  BY StatNextInv
<1> QED
  BY <1>1, <1>2, <1>3, PTL DEF FrameSpec, OneRequestPerRise

-----------------------------------------------------------------------------
(* Types. *)

PpuFlags ==
  /\ lcd_enable \in BOOLEAN /\ reset \in BOOLEAN
  /\ oam_scan_done \in BOOLEAN
  /\ reached_window_x \in BOOLEAN /\ reached_window_y \in BOOLEAN
  /\ last_stat \in BOOLEAN /\ answered \in BOOLEAN
  /\ requests \in SUBSET {"VBLANK", "LCD"}
  /\ lyc \in LycInputs \union {0}
  /\ stat_int \in StatInputs \union {{}}

FlagInv == DmaFlags /\ PpuFlags

LEMMA FlagInitInv == FrameInit => FlagInv
<1> SUFFICES ASSUME FrameInit PROVE FlagInv
  OBVIOUS
<1>1. DmaFlags
  BY DEF FrameInit, PpuInit, DmaInit, DmaFlags
<1>2. PpuFlags
  BY DEF FrameInit, PpuInit, PpuFlags
<1> QED
  BY <1>1, <1>2 DEF FlagInv

LEMMA StatIrqTypes ==
  ASSUME NEW vblank \in SUBSET {"VBLANK"}, TryStatIrq(vblank)
  PROVE  last_stat' \in BOOLEAN /\ requests' \in SUBSET {"VBLANK", "LCD"}
<1>1. last_stat' \in BOOLEAN
  BY Zenon DEF TryStatIrq, StatLine
<1>2. requests' \in SUBSET {"VBLANK", "LCD"}
  BY DEF TryStatIrq
<1> QED
  BY <1>1, <1>2

LEMMA RunFlags ==
  ASSUME PpuFlags, RunTick
  PROVE  /\ last_stat' \in BOOLEAN /\ requests' \in SUBSET {"VBLANK", "LCD"}
         /\ oam_scan_done' \in BOOLEAN
         /\ reached_window_x' \in BOOLEAN /\ reached_window_y' \in BOOLEAN
<1>1. last_stat' \in BOOLEAN /\ requests' \in SUBSET {"VBLANK", "LCD"}
  <2>1. CASE TryStatIrq({}) \/ TryStatIrq({"VBLANK"})
    BY <2>1, StatIrqTypes
  <2>2. CASE requests' = {} /\ UNCHANGED last_stat
    BY <2>2 DEF PpuFlags
  <2> QED
    BY <2>1, <2>2 DEF RunTick, ScanTick, DrawTick, HblankWaits, HblankEnds, VblankTick
<1>2. CASE ScanTick
  <2>1. oam_scan_done' \in BOOLEAN
    BY <1>2, Zenon DEF ScanTick
  <2>2. reached_window_x' \in BOOLEAN
    BY <1>2, Zenon DEF ScanTick, PpuFlags
  <2>3. reached_window_y' \in BOOLEAN
    BY <1>2, Zenon DEF ScanTick, PpuFlags
  <2> QED
    BY <1>1, <2>1, <2>2, <2>3
<1>3. CASE DrawTick
  <2>1. reached_window_x' \in BOOLEAN
    BY <1>3, Zenon DEF DrawTick, PpuFlags
  <2>2. UNCHANGED <<oam_scan_done, reached_window_y>>
    BY <1>3 DEF DrawTick
  <2> QED
    BY <1>1, <2>1, <2>2 DEF PpuFlags
<1>4. CASE HblankWaits \/ VblankTick
  BY <1>1, <1>4 DEF HblankWaits, VblankTick, lineVars, PpuFlags
<1>5. CASE HblankEnds
  BY <1>1, <1>5 DEF HblankEnds, PpuFlags
<1> QED
  BY <1>2, <1>3, <1>4, <1>5 DEF RunTick

LEMMA FlagNextInv ==
  ASSUME FlagInv, [FrameNext]_frameSpecVars
  PROVE  FlagInv'
<1> USE DEF FlagInv
<1>1. CASE FrameRun
  <2>1. dma_active' \in BOOLEAN /\ oam_blocked' \in BOOLEAN
    BY <1>1, Zenon DEF FrameRun, RunTick, DmaTick
  <2>2. restarted' \in BOOLEAN /\ torn' \in BOOLEAN /\ answered' \in BOOLEAN
    BY <1>1, Zenon DEF FrameRun
  <2>3. DmaFlags'
    BY <2>1, <2>2 DEF DmaFlags
  <2>4. RunTick /\ UNCHANGED <<lcd_enable, reset, statVars>>
    BY <1>1 DEF FrameRun, RunTick
  <2>5. PpuFlags'
    BY <2>2, <2>4, RunFlags DEF PpuFlags, statVars
  <2> QED
    BY <2>3, <2>5
<1>2. CASE FrameOff \/ FrameOn
  <2>1. UNCHANGED <<dma_active, oam_blocked, restarted, torn>>
    BY <1>2 DEF FrameOff, OffTick, FrameOn, OnTick, dmaVars
  <2>2. /\ UNCHANGED <<lcd_enable, oam_scan_done, reached_window_x, reached_window_y,
                       last_stat, answered, lyc, stat_int>>
        /\ reset' \in BOOLEAN /\ requests' = {}
    BY <1>2 DEF FrameOff, OffTick, FrameOn, OnTick, lineVars, statVars
  <2> QED
    BY <2>1, <2>2 DEF DmaFlags, PpuFlags
<1>3. CASE FrameSwitch
  <2>1. lcd_enable' \in BOOLEAN /\ requests' = {}
    BY <1>3 DEF FrameSwitch, SwitchLcd
  <2>2. UNCHANGED <<dma_active, oam_blocked, restarted, torn, reset, oam_scan_done,
                    reached_window_x, reached_window_y, last_stat, answered, lyc, stat_int>>
    BY <1>3 DEF FrameSwitch, SwitchLcd, dmaVars, frameVars, lineVars, statVars, history
  <2> QED
    BY <2>1, <2>2 DEF DmaFlags, PpuFlags
<1>4. CASE FrameDma
  <2>1. UNCHANGED <<lcd_enable, reset, oam_scan_done, reached_window_x, reached_window_y,
                    last_stat, answered, lyc, stat_int>> /\ requests' = {}
    BY <1>4 DEF FrameDma, WriteDma, frameVars, lineVars, statVars
  <2>2. DmaFlags'
    BY <1>4 DEF FrameDma, WriteDma, StartDma, DmaFlags
  <2> QED
    BY <2>1, <2>2 DEF PpuFlags
<1>5. CASE FrameWrite
  <2>1. UNCHANGED <<lcd_enable, reset, oam_scan_done, reached_window_x, reached_window_y,
                    last_stat, answered>> /\ requests' = {}
    BY <1>5 DEF FrameWrite, WriteLyc, WriteStat, CpuWriteOam, frameVars, lineVars, history
  <2>2. UNCHANGED <<dma_active, oam_blocked, restarted, torn>>
    BY <1>5 DEF FrameWrite, WriteLyc, WriteStat, CpuWriteOam, WriteOam, dmaVars, history
  <2>3. lyc' \in LycInputs \union {0} /\ stat_int' \in StatInputs \union {{}}
    <3>1. CASE WriteLyc
      BY <3>1 DEF WriteLyc, PpuFlags
    <3>2. CASE WriteStat
      BY <3>2 DEF WriteStat, PpuFlags
    <3>3. CASE CpuWriteOam
      BY <3>3 DEF CpuWriteOam, statVars, PpuFlags
    <3> QED
      BY <1>5, <3>1, <3>2, <3>3 DEF FrameWrite
  <2> QED
    BY <2>1, <2>2, <2>3 DEF DmaFlags, PpuFlags
<1>6. CASE FrameReset
  <2>1. torn' \in BOOLEAN
    BY <1>6, Zenon DEF FrameReset
  <2>2. DmaFlags'
    BY <1>6, <2>1 DEF FrameReset, Reset, ResetDma, DmaFlags
  <2>3. PpuFlags'
    BY <1>6 DEF FrameReset, Reset, PpuFlags
  <2> QED
    BY <2>2, <2>3
<1>7. CASE UNCHANGED frameSpecVars
  BY <1>7 DEF frameSpecVars, ppuVars, dmaVars, history, DmaFlags, PpuFlags
<1> QED
  BY <1>1, <1>2, <1>3, <1>4, <1>5, <1>6, <1>7 DEF FrameNext

\* The bytes copied so far are bytes of OAM.
LEMMA CopiedInOam == DmaInv => copied \in SUBSET (0..(DmaBytes - 1))
BY DEF DmaInv, DmaTypes, DmaMoves, DmaRests

LEMMA FrameTypes == DmaInv /\ LineInv /\ SpriteInv /\ FlagInv => FrameTypeOK
<1> SUFFICES ASSUME DmaInv, LineInv, SpriteInv, FlagInv
             PROVE  FrameTypeOK
  OBVIOUS
<1>1. DmaTypeOK
  BY CopiedInOam DEF DmaInv, DmaTypes, FlagInv, DmaFlags, DmaTypeOK
<1>2. PpuTypeOK
  BY <1>1 DEF LineInv, LineTypes, FlagInv, PpuFlags, PpuTypeOK
<1>3. {restarted, answered, torn} \subseteq BOOLEAN
  BY DEF FlagInv, DmaFlags, PpuFlags
<1> QED
  BY <1>2, <1>3 DEF FrameTypeOK, LineInv, LineTypes, DmaInv, DmaTypes, SpriteInv

\* Every variable of the PPU and of its record stays in its range: no counter
\* runs past the line, the transfer or the table (fgb_ppu_tick).
THEOREM FrameTypeCorrect == FrameSpec => []FrameTypeOK
<1>1. DmaInv /\ [FrameNext]_frameSpecVars => DmaInv'
  BY DmaNextInv
<1>2. LineInv /\ [FrameNext]_frameSpecVars => LineInv'
  BY LineNextInv
<1>3. SpriteInv /\ [FrameNext]_frameSpecVars => SpriteInv'
  BY SpriteNextInv
<1>4. FlagInv /\ [FrameNext]_frameSpecVars => FlagInv'
  BY FlagNextInv
<1> QED
  BY <1>1, <1>2, <1>3, <1>4, DmaInitInv, LineInitInv, SpriteInitInv, FlagInitInv,
     FrameTypes, PTL DEF FrameSpec

=============================================================================
