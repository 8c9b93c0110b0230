------------------------------ MODULE Mbc3Rtc ------------------------------
(***************************************************************************)
(* The real-time clock of an MBC3 cartridge (lib/cart.c): the running      *)
(* registers, the latched copy that software reads, and the bus writes     *)
(* that select, latch and set them.                                        *)
(*                                                                         *)
(* A register holds more values than the calendar uses (6 bits for 60      *)
(* seconds), and software may store any of them.  The two day registers    *)
(* are one counter `d' here, with the halt and the carry bit beside it.    *)
(* The ROM bank register and the RAM behind the same addresses are not in  *)
(* this module.                                                            *)
(***************************************************************************)
EXTENDS Integers

CONSTANTS
  ClockSpeed,        \* FGB_CPU_CLOCK_SPEED: ticks in a second
  SecMod, SecSize,   \* 60 of 64 in the code
  MinMod, MinSize,   \* 60 of 64
  HourMod, HourSize, \* 24 of 32
  DayLowSize,        \* values of RTC_DL: 256; RTC_DH adds one bit
  SecInputs, MinInputs, HourInputs, DayLowInputs \* what software stores

DaySize == 2 * DayLowSize

ASSUME RtcAssumption ==
  /\ ClockSpeed \in Nat \ {0}
  /\ DayLowSize \in Nat \ {0}
  /\ SecMod \in Nat \ {0} /\ SecSize \in Nat /\ SecMod < SecSize
  /\ MinMod \in Nat \ {0} /\ MinSize \in Nat /\ MinMod < MinSize
  /\ HourMod \in Nat \ {0} /\ HourSize \in Nat /\ HourMod < HourSize
  /\ SecInputs \subseteq 0..(SecSize - 1)
  /\ MinInputs \subseteq 0..(MinSize - 1)
  /\ HourInputs \subseteq 0..(HourSize - 1)
  /\ DayLowInputs \subseteq 0..(DayLowSize - 1)

VARIABLES
  now,         \* rtc.regs
  latch,       \* rtc.latch
  cycles,      \* rtc.cycles
  last_latch,  \* rtc.last_latch: 0, 1, or 2 for every other value
  ram_bank,    \* the RTC register selected, or "RAM"
  ram_enabled

rtcVars == <<now, latch, cycles, last_latch, ram_bank, ram_enabled>>

Clock == [ s : 0..(SecSize - 1), m : 0..(MinSize - 1), h : 0..(HourSize - 1),
           d : 0..(DaySize - 1), halt : BOOLEAN, carry : BOOLEAN ]

Registers == {"S", "M", "H", "DL", "DH"}

RtcTypeOK ==
  /\ now \in Clock
  /\ latch \in Clock
  /\ cycles \in 0..(ClockSpeed - 1)
  /\ last_latch \in 0..2
  /\ ram_bank \in Registers \union {"RAM"}
  /\ ram_enabled \in BOOLEAN

-----------------------------------------------------------------------------

\* Mutant of NextDay: the wrap of the day counter is not recorded.
NextDayNoCarry(c) == [c EXCEPT !.d = (c.d + 1) % DaySize]

\* The cascade of fgb_cart_tick_mbc3, from its innermost part outwards.
NextDay(c) ==
  [c EXCEPT !.d = (c.d + 1) % DaySize,
            !.carry = c.carry \/ c.d + 1 = DaySize]

NextHour(c) ==
  LET h == (c.h + 1) % HourSize IN
  IF h # HourMod THEN [c EXCEPT !.h = h] ELSE NextDay([c EXCEPT !.h = 0])

NextMinute(c) ==
  LET m == (c.m + 1) % MinSize IN
  IF m # MinMod THEN [c EXCEPT !.m = m] ELSE NextHour([c EXCEPT !.m = 0])

\* Mutant of NextSecond: the register does not wrap at its six bits.
NextSecondSticks(c) ==
  IF c.s + 1 = SecSize THEN c
  ELSE IF c.s + 1 # SecMod THEN [c EXCEPT !.s = c.s + 1]
  ELSE NextMinute([c EXCEPT !.s = 0])

NextSecond(c) ==
  LET s == (c.s + 1) % SecSize IN
  IF s # SecMod THEN [c EXCEPT !.s = s] ELSE NextMinute([c EXCEPT !.s = 0])

Zero == [s |-> 0, m |-> 0, h |-> 0, d |-> 0, halt |-> FALSE, carry |-> FALSE]

RtcInit ==
  /\ now = Zero
  /\ latch = Zero
  /\ cycles = 0
  /\ last_latch = 0
  /\ ram_bank = "RAM"
  /\ ram_enabled = FALSE

\* This tick ends a second.
SecondEnds == ~now.halt /\ cycles + 1 >= ClockSpeed

\* fgb_cart_tick_mbc3
RtcTick ==
  /\ ~now.halt
  /\ cycles' = IF SecondEnds THEN 0 ELSE cycles + 1
  /\ now' = IF SecondEnds THEN NextSecond(now) ELSE now
  /\ UNCHANGED <<latch, last_latch, ram_bank, ram_enabled>>

\* A write below 2000.
EnableRam(on) ==
  /\ ram_enabled' = on
  /\ UNCHANGED <<now, latch, cycles, last_latch, ram_bank>>

\* A write to 4000..5FFF with a valid selection; others change nothing.
SelectBank(bank) ==
  /\ ram_bank' = bank
  /\ UNCHANGED <<now, latch, cycles, last_latch, ram_enabled>>

\* Mutant of Latch: the days are left as they were.
LatchNoDays(value) ==
  /\ latch' = IF value = 1 /\ last_latch = 0
              THEN [now EXCEPT !.d = latch.d] ELSE latch
  /\ last_latch' = value
  /\ UNCHANGED <<now, cycles, ram_bank, ram_enabled>>

\* A write to 6000..7FFF: a 1 after a 0 copies the clock.
Latch(value) ==
  /\ latch' = IF value = 1 /\ last_latch = 0 THEN now ELSE latch
  /\ last_latch' = value
  /\ UNCHANGED <<now, cycles, ram_bank, ram_enabled>>

\* A write to A000..BFFF with an RTC register selected goes to the clock and
\* to the latched copy; storing the seconds starts the second anew.
Store(reg, value) ==
  LET Put(c) == CASE reg = "S" -> [c EXCEPT !.s = value]
                  [] reg = "M" -> [c EXCEPT !.m = value]
                  [] reg = "H" -> [c EXCEPT !.h = value]
                  [] reg = "DL" -> [c EXCEPT !.d = @ - (@ % DayLowSize) + value]
  IN
  /\ ram_enabled /\ ram_bank = reg
  /\ now' = Put(now)
  /\ latch' = Put(latch)
  /\ cycles' = IF reg = "S" THEN 0 ELSE cycles
  /\ UNCHANGED <<last_latch, ram_bank, ram_enabled>>

\* The same for RTC_DH: the ninth bit of the days, halt and carry.
StoreDH(high, halts, carries) ==
  LET Put(c) == [c EXCEPT !.d = (c.d % DayLowSize) + high * DayLowSize,
                          !.halt = halts, !.carry = carries]
  IN
  /\ ram_enabled /\ ram_bank = "DH"
  /\ now' = Put(now)
  /\ latch' = Put(latch)
  /\ UNCHANGED <<cycles, last_latch, ram_bank, ram_enabled>>

StoreAny ==
  \/ \E v \in SecInputs : Store("S", v)
  \/ \E v \in MinInputs : Store("M", v)
  \/ \E v \in HourInputs : Store("H", v)
  \/ \E v \in DayLowInputs : Store("DL", v)
  \/ \E high \in 0..1, halts, carries \in BOOLEAN : StoreDH(high, halts, carries)

Choose ==
  \/ \E on \in BOOLEAN : EnableRam(on)
  \/ \E bank \in Registers \union {"RAM"} : SelectBank(bank)

LatchAny == \E value \in 0..2 : Latch(value)

RtcNext == RtcTick \/ Choose \/ LatchAny \/ StoreAny

RtcSpec == RtcInit /\ [][RtcNext]_rtcVars

=============================================================================
