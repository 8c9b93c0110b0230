------------------------------- MODULE OamDma -------------------------------
(***************************************************************************)
(* OAM DMA (lib/ppu.c): the transfer of DmaBytes bytes into the sprite      *)
(* table, one every DmaPeriod ticks of a running LCD, during which the CPU *)
(* cannot reach the table.                                                 *)
(*                                                                         *)
(* What a byte holds is left out: `copied' is the set of bytes of OAM whose*)
(* last writer is the current transfer, which is what a finished transfer  *)
(* is judged by.  dma_cycles is a C int that counts on when no transfer    *)
(* runs (512 seconds reach 2^31): it wraps, as the builds' two's           *)
(* complement does.                                                        *)
(***************************************************************************)
EXTENDS Integers

CONSTANTS
  DmaBytes,  \* PPU_DMA_BYTES: 160
  DmaPeriod, \* ticks a byte takes: 4
  IntMax     \* the largest value of dma_cycles: 2^31 - 1

ASSUME DmaAssumption ==
  /\ DmaBytes \in Nat \ {0}
  /\ DmaPeriod \in Nat \ {0, 1}
  /\ IntMax \in Nat /\ IntMax > DmaPeriod

VARIABLES
  dma_active,
  oam_blocked, \* the CPU reads FF from OAM and its writes are lost
  dma_cycles,
  dma_bytes,   \* bytes transferred so far
  copied       \* the bytes of OAM that hold what this transfer copied

dmaVars == <<dma_active, oam_blocked, dma_cycles, dma_bytes, copied>>

DmaTypeOK ==
  /\ dma_active \in BOOLEAN
  /\ oam_blocked \in BOOLEAN
  /\ dma_cycles \in (-IntMax - 1)..IntMax
  /\ dma_bytes \in 0..DmaBytes
  /\ copied \in SUBSET (0..(DmaBytes - 1))

-----------------------------------------------------------------------------

AtMost(a, b) == IF a <= b THEN a ELSE b

\* dma_cycles++ on an int.
NextCycle == IF dma_cycles = IntMax THEN -IntMax - 1 ELSE dma_cycles + 1

\* Mutant of BytesDue: the period is not waited for.
BytesDueAtOnce == IF dma_active /\ NextCycle > 1 THEN 1 ELSE 0

\* The bytes that this tick transfers.
BytesDue ==
  IF dma_active /\ NextCycle > DmaPeriod
  THEN AtMost(NextCycle \div DmaPeriod, DmaBytes - dma_bytes)
  ELSE 0

DmaInit ==
  /\ dma_active = FALSE
  /\ oam_blocked = FALSE
  /\ dma_cycles = 0
  /\ dma_bytes = 0
  /\ copied = {}

\* Mutant of DmaTick: the table stays open until the first byte of a second
\* transfer.
DmaTickOpen ==
  LET moved == BytesDue
      bytes == dma_bytes + moved
      cycles == NextCycle - moved * DmaPeriod
      active == dma_active /\ bytes < DmaBytes
  IN
  /\ dma_bytes' = bytes
  /\ dma_cycles' = cycles
  /\ copied' = copied \union dma_bytes..(bytes - 1)
  /\ dma_active' = active
  /\ oam_blocked' = (oam_blocked /\ (active \/ cycles <= DmaPeriod))

\* The DMA part of fgb_ppu_tick.
DmaTick ==
  LET moved == BytesDue
      bytes == dma_bytes + moved
      cycles == NextCycle - moved * DmaPeriod
      active == dma_active /\ bytes < DmaBytes
      moving == dma_active /\ NextCycle > DmaPeriod
  IN
  /\ dma_bytes' = bytes
  /\ dma_cycles' = cycles
  /\ copied' = copied \union dma_bytes..(bytes - 1)
  /\ dma_active' = active
  /\ oam_blocked' = /\ oam_blocked \/ moving
                    /\ active \/ cycles <= DmaPeriod

\* A write to FF46 starts a transfer, or starts the current one again.
StartDma ==
  /\ oam_blocked' = dma_active
  /\ dma_active' = TRUE
  /\ dma_cycles' = 0
  /\ dma_bytes' = 0
  /\ copied' = {}

\* A write of the CPU to OAM, when the PPU's mode permits it.
WriteOam(i) ==
  /\ ~oam_blocked
  /\ copied' = copied \ {i}
  /\ UNCHANGED <<dma_active, oam_blocked, dma_cycles, dma_bytes>>

\* fgb_ppu_reset, which clears OAM and forgets the transfer, but has no line
\* for oam_blocked.
ResetDma ==
  /\ dma_active' = FALSE
  /\ dma_cycles' = 0
  /\ dma_bytes' = 0
  /\ copied' = {}
  /\ UNCHANGED oam_blocked

=============================================================================
