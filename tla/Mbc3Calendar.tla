---------------------------- MODULE Mbc3Calendar ----------------------------
(***************************************************************************)
(* The clock of the MBC3 read as a calendar: what the cascade of counters  *)
(* must add up to, and what software may conclude from a latched copy.     *)
(*                                                                         *)
(* `stored' (a register was stored since the last latch) and `wrapped'     *)
(* (the day counter wrapped since) are history variables.  `stores'        *)
(* counts the stores, of which a behaviour makes at most MaxStores.        *)
(***************************************************************************)
EXTENDS Mbc3Rtc

CONSTANT MaxStores

ASSUME StoresAssumption == MaxStores \in Nat

VARIABLES stored, wrapped, stores

calVars == <<rtcVars, stored, wrapped, stores>>

\* The register values a calendar has.
InRange(c) == c.s < SecMod /\ c.m < MinMod /\ c.h < HourMod

\* The seconds that an in-range clock shows.
Total(c) == c.s + SecMod * (c.m + MinMod * (c.h + HourMod * c.d))

Cycle == SecMod * (MinMod * (HourMod * DaySize))

CalTypeOK ==
  /\ RtcTypeOK
  /\ stored \in BOOLEAN
  /\ wrapped \in BOOLEAN
  /\ stores \in 0..MaxStores

CalInit == RtcInit /\ stored = FALSE /\ wrapped = FALSE /\ stores = 0

CalTick ==
  /\ RtcTick
  /\ wrapped' = (wrapped \/ now'.d < now.d)
  /\ UNCHANGED <<stored, stores>>

CalLatch ==
  /\ LatchAny
  /\ LET copied == last_latch = 0 /\ last_latch' = 1 IN
       /\ stored' = (stored /\ ~copied)
       /\ wrapped' = (wrapped /\ ~copied)
  /\ stores' = stores

CalStore ==
  /\ stores < MaxStores
  /\ StoreAny
  /\ stored' = TRUE
  /\ stores' = stores + 1
  /\ wrapped' = wrapped

CalChoose == Choose /\ UNCHANGED <<stored, wrapped, stores>>

CalNext == CalTick \/ CalLatch \/ CalStore \/ CalChoose

\* The CPU ticks the cartridge on every T-cycle, so the clock is ticked as
\* long as the emulator runs and the halt bit is clear.
CalSpec == CalInit /\ [][CalNext]_calVars /\ WF_calVars(CalTick)

-----------------------------------------------------------------------------

\* The cascade is a calendar: when every register is in range, the end of a
\* second adds one to the total, whatever rolls over, wraps to 0 after the
\* last day, sets the carry bit exactly then, and stays in range.  A register
\* that software set beyond its range "continues incrementing" (comment of
\* fgb_cart_tick_mbc3): the next one moves only when it reaches its modulus.
CalendarStep ==
  [][ RtcTick =>
        /\ SecondEnds /\ InRange(now) =>
             /\ InRange(now')
             /\ Total(now') = (Total(now) + 1) % Cycle
             /\ now'.carry = (now.carry \/ Total(now') = 0)
        /\ now'.m # now.m => now.s + 1 = SecMod
        /\ now'.h # now.h => now.s + 1 = SecMod /\ now.m + 1 = MinMod
        /\ now'.d # now.d => /\ now.s + 1 = SecMod /\ now.m + 1 = MinMod
                             /\ now.h + 1 = HourMod ]_calVars

\* A copy latched and read back is never ahead of the clock: however long
\* ago it was latched, as long as nothing was stored since and the days have
\* not wrapped, an in-range copy shows at most the total the clock shows.
LatchNeverAhead ==
  ~stored /\ ~wrapped /\ InRange(latch) =>
    InRange(now) /\ Total(latch) <= Total(now)

\* Whatever software stored, once it stops storing, a clock that is not
\* halted shows a calendar time again.
Heals == (stores = MaxStores /\ ~now.halt) ~> InRange(now)

=============================================================================
