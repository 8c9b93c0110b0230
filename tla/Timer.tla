------------------------------- MODULE Timer -------------------------------
(***************************************************************************)
(* The timer of lib/timer.c: the free-running divider (DIV), the counter   *)
(* it clocks (TIMA), the reload value (TMA) and the control register       *)
(* (TAC), with the delay between an overflow of TIMA, the interrupt        *)
(* request and the reload.                                                 *)
(*                                                                         *)
(* One action per entry point: the T-cycle tick, the write of each         *)
(* register and the reset.  `requested' is the IRQ_TIMER bit of            *)
(* cpu->interrupt.flags, which the tick sets; only the CPU takes it back.  *)
(*                                                                         *)
(* TIMA is incremented by three different pieces of code (a tick, a DIV    *)
(* write and a TAC write), all of which must agree on one rule: TIMA       *)
(* counts the falling edges of the watched divider bit gated by enable.    *)
(***************************************************************************)
EXTENDS Integers

CONSTANTS
  DivSize,   \* values of the divider: 2^16 in the code
  TimaSize,  \* values of TIMA and TMA: 2^8 in the code
  ResetDiv,  \* the divider after a reset: 0xAB00 in the code
  DivBit,    \* div_bit_table: the mask of the watched bit per clk_sel
  TimaInputs \* the values software writes to TIMA and TMA

ClkSel == 0..3

ASSUME SizeAssumption ==
  /\ DivSize \in Nat \ {0}
  /\ TimaSize \in Nat \ {0}
  /\ ResetDiv \in 0..(DivSize - 1)
  /\ DivBit \in [ClkSel -> Nat \ {0}]
  /\ TimaInputs \subseteq 0..(TimaSize - 1)

VARIABLES
  divider,   \* DIV, all its bits
  counter,   \* TIMA
  modulo,    \* TMA
  clk_sel,   \* TAC, bits 0 and 1
  enable,    \* TAC, bit 2
  overflow,  \* an overflow is being processed
  ticks,     \* ticks_since_overflow
  requested  \* IRQ_TIMER in cpu->interrupt.flags

vars == <<divider, counter, modulo, clk_sel, enable, overflow, ticks, requested>>

Delays == [irq |-> 4, reload |-> 5, done |-> 6]

TypeOK ==
  /\ divider \in 0..(DivSize - 1)
  /\ counter \in 0..(TimaSize - 1)
  /\ modulo \in 0..(TimaSize - 1)
  /\ clk_sel \in ClkSel
  /\ enable \in BOOLEAN
  /\ overflow \in BOOLEAN
  /\ ticks \in 0..(Delays.done - 1)
  /\ requested \in BOOLEAN

-----------------------------------------------------------------------------

\* The divider bit that clk_sel selects.
Watched(div, sel) == (div \div DivBit[sel]) % 2 = 1

\* TIMA's clock: it counts the falling edges of this signal.
Signal(div, sel, on) == on /\ Watched(div, sel)

\* fgb_timer_increment when `pulse', nothing otherwise: the counter, the
\* overflow flag and the delay it leaves.
Increment(pulse) ==
  LET wraps == pulse /\ counter = TimaSize - 1 IN
  [ counter  |-> IF pulse THEN (counter + 1) % TimaSize ELSE counter,
    overflow |-> overflow \/ wraps,
    ticks    |-> IF wraps THEN 0 ELSE ticks ]

\* TIMA, the overflow flag and the delay after an increment outside a tick.
Count(pulse) ==
  LET inc == Increment(pulse) IN
  /\ counter' = inc.counter
  /\ overflow' = inc.overflow
  /\ ticks' = inc.ticks

Init ==
  /\ divider = ResetDiv
  /\ counter = 0
  /\ modulo = 0
  /\ clk_sel = 0
  /\ enable = FALSE
  /\ overflow = FALSE
  /\ ticks = 0
  /\ requested = FALSE

\* Mutant of Delayed: an overflow made by this tick waits for the next one.
DelayedNextTick(inc) == IF overflow THEN inc.ticks + 1 ELSE inc.ticks

\* ticks_since_overflow after the increment of a tick.
Delayed(inc) == IF inc.overflow THEN inc.ticks + 1 ELSE inc.ticks

\* The tick requests IRQ_TIMER.
Requests(inc) == inc.overflow /\ Delayed(inc) = Delays.irq

\* fgb_timer_tick: one T-cycle.
Tick ==
  LET next == (divider + 1) % DivSize
      inc  == Increment(/\ Signal(divider, clk_sel, enable)
                        /\ ~Watched(next, clk_sel))
      done == Delayed(inc) = Delays.done
  IN
  /\ divider' = next
  /\ counter' = IF inc.overflow /\ Delayed(inc) = Delays.reload
                THEN modulo ELSE inc.counter
  /\ overflow' = (inc.overflow /\ ~done)
  /\ ticks' = IF done THEN 0 ELSE Delayed(inc)
  /\ requested' = (requested \/ Requests(inc))
  /\ UNCHANGED <<modulo, clk_sel, enable>>

\* Any write to DIV clears the whole divider.
WriteDIV ==
  /\ Count(Signal(divider, clk_sel, enable))
  /\ divider' = 0
  /\ UNCHANGED <<modulo, clk_sel, enable, requested>>

\* A write to TIMA cancels an overflow, except on the tick TMA was loaded.
WriteTIMA(value) ==
  /\ ticks # Delays.reload
  /\ counter' = value
  /\ overflow' = FALSE
  /\ ticks' = 0
  /\ UNCHANGED <<divider, modulo, clk_sel, enable, requested>>

\* A write to TMA reaches TIMA as well on the tick TMA is loaded.
WriteTMA(value) ==
  /\ modulo' = value
  /\ counter' = IF ticks = Delays.reload THEN value ELSE counter
  /\ UNCHANGED <<divider, clk_sel, enable, overflow, ticks, requested>>

\* Mutant of WriteTAC: a timer that was off counts as well.
WriteTACAnyEdge(sel, on) ==
  /\ clk_sel' = sel
  /\ enable' = on
  /\ Count(/\ Watched(divider, clk_sel)
           /\ ~on \/ ~Watched(divider, sel))
  /\ UNCHANGED <<divider, modulo, requested>>

\* Switching the clock, or the timer off, may make the signal fall.
WriteTAC(sel, on) ==
  /\ clk_sel' = sel
  /\ enable' = on
  /\ Count(/\ enable
           /\ Watched(divider, clk_sel)
           /\ ~on \/ ~Watched(divider, sel))
  /\ UNCHANGED <<divider, modulo, requested>>

\* fgb_timer_reset, as fgb_cpu_reset calls it: interrupt.flags becomes 0xE1,
\* and overflow and ticks_since_overflow are left as they are.
Reset ==
  /\ divider' = ResetDiv
  /\ counter' = 0
  /\ modulo' = 0
  /\ clk_sel' = 0
  /\ enable' = FALSE
  /\ requested' = FALSE
  /\ UNCHANGED <<overflow, ticks>>

\* The CPU dispatches the interrupt, or software writes the bit in IF.
WriteIF(bit) ==
  /\ requested' = bit
  /\ UNCHANGED <<divider, counter, modulo, clk_sel, enable, overflow, ticks>>

Write ==
  \/ WriteDIV
  \/ \E v \in TimaInputs : WriteTIMA(v) \/ WriteTMA(v)
  \/ \E sel \in ClkSel, on \in BOOLEAN : WriteTAC(sel, on)
  \/ \E bit \in BOOLEAN : WriteIF(bit)

Next == Tick \/ Write \/ Reset

Spec == Init /\ [][Next]_vars

-----------------------------------------------------------------------------

\* The delay counter runs only while an overflow is being processed: whatever
\* the order of ticks, writes and resets, an idle timer has ticks = 0, so the
\* next overflow starts its four ticks from the beginning and a write to TIMA
\* is not ignored outside the reload tick.
DelayOnlyAfterOverflow == ~overflow => ticks = 0

\* TIMA counts the falling edges of Signal, no more and no less, although
\* three entry points increment it: a tick, a DIV write and a TAC write each
\* add one exactly when they make the signal fall.  TIMA changes otherwise
\* only by a write to TIMA or TMA, a reset, or the reload from TMA, which
\* overrides an increment of the same tick.
TimaCountsEdges ==
  [][ \/ Reset
      \/ \E v \in TimaInputs : WriteTIMA(v) \/ WriteTMA(v)
      \/ Tick /\ ticks' = Delays.reload /\ counter' = modulo
      \/ LET fell == /\ Signal(divider, clk_sel, enable)
                     /\ ~Signal(divider', clk_sel', enable')
         IN counter' = IF fell THEN (counter + 1) % TimaSize ELSE counter
    ]_vars

=============================================================================
