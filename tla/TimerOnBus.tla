----------------------------- MODULE TimerOnBus -----------------------------
(***************************************************************************)
(* The timer as the CPU drives it, with a record of the overflow it is     *)
(* processing.                                                             *)
(*                                                                         *)
(* The CPU reaches a register through fgb_cpu_write_u8 (lib/cpu.c): three  *)
(* ticks, the write, one tick.  So at least four ticks lie between two     *)
(* writes, and a write can fall between any two ticks of the delay that    *)
(* follows an overflow.  `gap' counts the ticks since the last write.      *)
(*                                                                         *)
(* `age' is a history variable: the ticks since TIMA last wrapped from its *)
(* largest value to 0 by counting.  It is computed from what can be seen   *)
(* on TIMA and on its clock, never from overflow and ticks_since_overflow, *)
(* so the properties compare the timer's own bookkeeping with the facts.   *)
(***************************************************************************)
EXTENDS Timer

VARIABLES age, gap

busVars == <<vars, age, gap>>

WriteSpacing == 4

Settled == Delays.done  \* no overflow is being processed

\* This step makes TIMA wrap.
Wraps ==
  /\ counter = TimaSize - 1
  /\ Signal(divider, clk_sel, enable)
  /\ ~Signal(divider', clk_sel', enable')

BusTypeOK ==
  /\ TypeOK
  /\ age \in 0..Settled
  /\ gap \in 0..WriteSpacing

BusInit == Init /\ age = Settled /\ gap = WriteSpacing

BusTick ==
  /\ Tick
  /\ age' = IF Wraps THEN 1 ELSE IF age = Settled THEN Settled ELSE age + 1
  /\ gap' = IF gap = WriteSpacing THEN WriteSpacing ELSE gap + 1

\* A write that may clock TIMA.
BusClockWrite ==
  /\ gap = WriteSpacing
  /\ WriteDIV \/ \E sel \in ClkSel, on \in BOOLEAN : WriteTAC(sel, on)
  /\ age' = IF Wraps THEN 0 ELSE age
  /\ gap' = 0

\* A write to TIMA calls the overflow off, unless TMA has just been loaded.
BusWriteTIMA(value) ==
  /\ gap = WriteSpacing
  /\ WriteTIMA(value)
  /\ age' = Settled
  /\ gap' = 0

BusWriteOther ==
  /\ gap = WriteSpacing
  /\ (\E v \in TimaInputs : WriteTMA(v)) \/ (\E bit \in BOOLEAN : WriteIF(bit))
  /\ gap' = 0
  /\ UNCHANGED age

\* The front end resets the console between two instructions.
BusReset ==
  /\ Reset
  /\ UNCHANGED <<age, gap>>

BusNext ==
  \/ BusTick
  \/ BusClockWrite
  \/ \E v \in TimaInputs : BusWriteTIMA(v)
  \/ BusWriteOther
  \/ BusReset

BusSpec == BusInit /\ [][BusNext]_busVars

-----------------------------------------------------------------------------

\* The timer's own bookkeeping is right about the facts: an overflow is being
\* processed exactly when TIMA wrapped less than six ticks ago and was not
\* called off, and ticks_since_overflow is the time since then, whatever
\* writes to DIV, TAC, TMA and TIMA and whatever resets fell in between.
DelayMatchesAge ==
  /\ overflow <=> age # Settled
  /\ ticks = IF overflow THEN age ELSE 0

\* A tick requests the timer interrupt exactly when it is the fourth since
\* TIMA wrapped and no write to TIMA called that overflow off (timer.h:
\* "After 4 ticks following an overflow, the timer interrupt is requested"):
\* no request is lost, early, repeated or made for a cancelled overflow.
InterruptOnTime ==
  [][BusTick => (requested' <=> requested \/ age' = Delays.irq)]_busVars

\* The fifth tick after the wrap leaves TMA in TIMA, and until the next tick
\* a write to TMA goes through to TIMA while one to TIMA is lost (timer.h:
\* "After 5 ticks, TIMA is reloaded with TMA").  Only a write to DIV or TAC
\* or a reset may separate the two registers before that next tick.
ReloadWindow ==
  [][ /\ BusTick /\ age' = Delays.reload => counter' = modulo
      /\ (BusWriteOther \/ \E v \in TimaInputs : BusWriteTIMA(v)) =>
           (age = Delays.reload /\ counter = modulo => counter' = modulo')
    ]_busVars

=============================================================================
