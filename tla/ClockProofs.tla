----------------------------- MODULE ClockProofs -----------------------------
(***************************************************************************)
(* What the two clocks of the console guarantee: the clock of the MBC3 for *)
(* every modulus and width of its registers and whatever software stores,  *)
(* and the timer for every divider and TIMA width, every table of watched  *)
(* bits and every set of written values.                                   *)
(***************************************************************************)
EXTENDS Mbc3Calendar, TimerOnBus, TLAPS

-----------------------------------------------------------------------------
(***************************************************************************)
(* The clock of the MBC3.  The total that it shows is a number in mixed    *)
(* radix.  The lemmas on one digit (Carried, DigitBound) carry it through  *)
(* the four registers; the type invariant is the only strengthening that   *)
(* is needed.                                                              *)
(***************************************************************************)

-----------------------------------------------------------------------------
(* One digit. *)

LEMMA Carried ==
  ASSUME NEW M \in Nat, NEW y \in Nat
  PROVE  M * (y + 1) = M * y + M /\ M * y \in Nat /\ M * 0 = 0
BY SMT

LEMMA Product ==
  ASSUME NEW M \in Nat \ {0}, NEW N \in Nat \ {0}
  PROVE  M * N \in Nat \ {0}
BY SMT

LEMMA DigitBound ==
  ASSUME NEW M \in Nat \ {0}, NEW N \in Nat \ {0}, NEW x \in 0..(M - 1), NEW y \in 0..(N - 1)
  PROVE  /\ x + M * y \in 0..(M * N - 1)
         /\ x = M - 1 /\ y = N - 1 => x + M * y + 1 = M * N
<1>1. PICK k \in Nat : N = y + 1 + k
  <2>1. N - 1 - y \in Nat /\ N = y + 1 + (N - 1 - y)
    OBVIOUS
  <2> QED
    BY <2>1
<1>2. M * N = M * y + M + M * k
  BY <1>1, SMT
<1>3. M * y \in Nat /\ M * k \in Nat
  BY Carried
<1>4. x + M * y \in 0..(M * N - 1)
  <2>1. M * N - 1 \in Int /\ x + M * y <= M * N - 1 /\ x + M * y >= 0
    BY <1>2, <1>3
  <2> QED
    BY <2>1, <1>3
<1>5. ASSUME x = M - 1, y = N - 1 PROVE x + M * y + 1 = M * N
  <2>1. k = 0
    BY <1>1, <1>5
  <2>2. M * k = 0
    BY <2>1, Carried
  <2> QED
    BY <1>2, <1>3, <1>5, <2>2
<1> QED
  BY <1>4, <1>5

\* The next value of a register that holds `size' values.
LEMMA NextValue ==
  ASSUME NEW size \in Nat \ {0}, NEW x \in 0..(size - 1)
  PROVE  (x + 1) % size = IF x + 1 = size THEN 0 ELSE x + 1
<1>1. CASE x + 1 = size
  BY <1>1, SMT
<1>2. CASE x + 1 # size
  <2>1. \A n \in Nat \ {0}, y \in Nat : y < n => y % n = y
    BY SMT
  <2> QED
    BY <1>2, <2>1
<1> QED
  BY <1>1, <1>2

LEMMA Sizes ==
  /\ SecMod \in Nat \ {0} /\ SecSize \in Nat \ {0} /\ SecMod < SecSize
  /\ MinMod \in Nat \ {0} /\ MinSize \in Nat \ {0} /\ MinMod < MinSize
  /\ HourMod \in Nat \ {0} /\ HourSize \in Nat \ {0} /\ HourMod < HourSize
  /\ DayLowSize \in Nat \ {0} /\ DaySize \in Nat \ {0, 1} /\ DaySize = 2 * DayLowSize
BY RtcAssumption DEF RtcAssumption, DaySize

-----------------------------------------------------------------------------
(* The cascade, register by register. *)

LEMMA ClockFields ==
  ASSUME NEW c \in Clock
  PROVE  /\ c.s \in 0..(SecSize - 1) /\ c.m \in 0..(MinSize - 1) /\ c.h \in 0..(HourSize - 1)
         /\ c.d \in 0..(DaySize - 1) /\ c.halt \in BOOLEAN /\ c.carry \in BOOLEAN
BY Zenon DEF Clock

\* A register of the clock set to something else.
LEMMA SetSeconds ==
  ASSUME NEW c \in Clock, NEW v \in 0..(SecSize - 1)
  PROVE  LET n == [c EXCEPT !.s = v] IN
         /\ n \in Clock /\ n.s = v /\ n.m = c.m /\ n.h = c.h /\ n.d = c.d
         /\ n.halt = c.halt /\ n.carry = c.carry
BY DEF Clock

LEMMA SetMinutes ==
  ASSUME NEW c \in Clock, NEW v \in 0..(MinSize - 1)
  PROVE  LET n == [c EXCEPT !.m = v] IN
         /\ n \in Clock /\ n.s = c.s /\ n.m = v /\ n.h = c.h /\ n.d = c.d
         /\ n.halt = c.halt /\ n.carry = c.carry
BY DEF Clock

LEMMA SetHours ==
  ASSUME NEW c \in Clock, NEW v \in 0..(HourSize - 1)
  PROVE  LET n == [c EXCEPT !.h = v] IN
         /\ n \in Clock /\ n.s = c.s /\ n.m = c.m /\ n.h = v /\ n.d = c.d
         /\ n.halt = c.halt /\ n.carry = c.carry
BY DEF Clock

LEMMA SetDays ==
  ASSUME NEW c \in Clock, NEW v \in 0..(DaySize - 1), NEW halt \in BOOLEAN, NEW carry \in BOOLEAN
  PROVE  [c EXCEPT !.d = v, !.halt = halt, !.carry = carry] \in Clock
BY DEF Clock

LEMMA SetDayField ==
  ASSUME NEW c \in Clock, NEW v \in 0..(DaySize - 1)
  PROVE  [c EXCEPT !.d = v] \in Clock
BY DEF Clock

WithDay(c, v, carry) == [c EXCEPT !.d = v, !.carry = carry]

LEMMA SetDayAndCarry ==
  \A c \in Clock, v \in 0..(DaySize - 1), carry \in BOOLEAN :
    LET n == WithDay(c, v, carry) IN
    n \in Clock /\ n.s = c.s /\ n.m = c.m /\ n.h = c.h /\ n.d = v /\ n.carry = carry
BY DEF Clock, WithDay

LEMMA NextDayFields ==
  ASSUME NEW c \in Clock
  PROVE  LET n == NextDay(c) IN
         /\ n \in Clock /\ n.s = c.s /\ n.m = c.m /\ n.h = c.h
         /\ n.d = (IF c.d + 1 = DaySize THEN 0 ELSE c.d + 1)
         /\ c.d + 1 = DaySize => n.carry = TRUE
         /\ c.d + 1 # DaySize => n.carry = c.carry
<1>1. c.d \in 0..(DaySize - 1)
  BY ClockFields
<1>2. (c.d + 1) % DaySize = (IF c.d + 1 = DaySize THEN 0 ELSE c.d + 1)
  BY <1>1, Sizes, NextValue
<1>3. (c.d + 1) % DaySize \in 0..(DaySize - 1)
  BY <1>1, <1>2, Sizes
<1>4. PICK carry \in BOOLEAN : carry <=> (c.carry \/ c.d + 1 = DaySize)
  BY Zenon
<1>5. NextDay(c) = [c EXCEPT !.d = (c.d + 1) % DaySize, !.carry = carry]
  <2>1. (c.carry \/ c.d + 1 = DaySize) = carry
    BY <1>4, Zenon
  <2> QED
    BY <2>1, Zenon DEF NextDay
<1>6. c.carry \in BOOLEAN
  BY ClockFields
<1>7. /\ c.d + 1 = DaySize => carry = TRUE
      /\ c.d + 1 # DaySize => carry = c.carry
  BY <1>4, <1>6, Zenon
<1> DEFINE v == (c.d + 1) % DaySize
<1> HIDE DEF v
<1> DEFINE n == WithDay(c, v, carry)
<1>8. n \in Clock /\ n.s = c.s /\ n.m = c.m /\ n.h = c.h /\ n.d = v /\ n.carry = carry
  <2>1. v \in 0..(DaySize - 1)
    BY <1>3 DEF v
  <2>2. carry \in BOOLEAN
    BY <1>4, Zenon
  <2> QED
    BY <2>1, <2>2, SetDayAndCarry, Zenon
<1>9. NextDay(c) = n
  BY <1>5 DEF v, WithDay
<1> HIDE DEF n
<1> QED
  BY <1>2, <1>7, <1>8, <1>9, Zenon DEF v

\* The hours and days of a clock as one number, and the minutes with them.
Hours(c) == c.h + HourMod * c.d
Minutes(c) == c.m + MinMod * Hours(c)

LEMMA TotalParts ==
  ASSUME NEW c
  PROVE  Total(c) = c.s + SecMod * Minutes(c)
BY DEF Total, Minutes, Hours

\* A count that goes on by one, or comes round with the days.
GoesOn(c, n, before, after) == after = before + 1 /\ c.d <= n.d /\ n.carry = c.carry
ComesRound(c, n, before, after, cycle) ==
  before + 1 = cycle /\ after = 0 /\ n.d < c.d /\ n.carry = TRUE

\* The digit below a count rolls over when the count moves.
LEMMA RollsOver ==
  ASSUME NEW M \in Nat \ {0}, NEW c, NEW n, NEW u \in Nat, NEW w, NEW cycle
  PROVE  /\ GoesOn(c, n, u, w) => GoesOn(c, n, (M - 1) + M * u, 0 + M * w)
         /\ ComesRound(c, n, u, w, cycle) =>
              ComesRound(c, n, (M - 1) + M * u, 0 + M * w, M * cycle)
<1>1. M * (u + 1) = M * u + M /\ M * u \in Nat /\ M * 0 = 0
  BY Carried
<1>2. w = u + 1 => 0 + M * w = (M - 1) + M * u + 1
  BY <1>1
<1>3. u + 1 = cycle => (M - 1) + M * u + 1 = M * cycle
  BY <1>1
<1>4. w = 0 => 0 + M * w = 0
  BY <1>1
<1> QED
  BY <1>2, <1>3, <1>4, Zenon DEF GoesOn, ComesRound

LEMMA HourStep ==
  ASSUME NEW c \in Clock
  PROVE  LET n == NextHour(c) IN
         /\ n \in Clock /\ n.s = c.s /\ n.m = c.m
         /\ n.d # c.d => c.h + 1 = HourMod
         /\ c.h < HourMod =>
              /\ n.h < HourMod
              /\ \/ GoesOn(c, n, Hours(c), Hours(n))
                 \/ ComesRound(c, n, Hours(c), Hours(n), HourMod * DaySize)
<1> DEFINE n == NextHour(c)
           h == (c.h + 1) % HourSize
<1>1. c.h \in 0..(HourSize - 1) /\ c.d \in 0..(DaySize - 1)
  BY ClockFields
<1>2. h = (IF c.h + 1 = HourSize THEN 0 ELSE c.h + 1)
  BY <1>1, Sizes, NextValue
<1>3. HourMod * c.d \in Nat /\ 0 \in 0..(HourSize - 1) /\ h \in 0..(HourSize - 1)
  BY <1>1, <1>2, Sizes, Carried
<1>4. CASE h # HourMod
  <2>1. n = [c EXCEPT !.h = h]
    BY <1>4 DEF NextHour
  <2>2. n \in Clock /\ n.s = c.s /\ n.m = c.m /\ n.h = h /\ n.d = c.d /\ n.carry = c.carry
    BY <1>3, <2>1, SetHours
  <2>3. c.h < HourMod => h = c.h + 1 /\ h < HourMod
    BY <1>1, <1>2, <1>4, Sizes
  <2>4. c.h < HourMod => Hours(n) = Hours(c) + 1 /\ c.d <= n.d
    BY <1>1, <1>3, <2>2, <2>3 DEF Hours
  <2> QED
    BY <2>2, <2>3, <2>4, Zenon DEF GoesOn
<1>5. CASE h = HourMod
  <2> DEFINE z == [c EXCEPT !.h = 0]
  <2>1. n = NextDay(z)
    BY <1>5 DEF NextHour
  <2>2. z \in Clock /\ z.s = c.s /\ z.m = c.m /\ z.h = 0 /\ z.d = c.d /\ z.carry = c.carry
    BY <1>3, SetHours
  <2> HIDE DEF z, n
  <2>3. /\ n \in Clock /\ n.s = z.s /\ n.m = z.m /\ n.h = z.h
        /\ n.d = (IF z.d + 1 = DaySize THEN 0 ELSE z.d + 1)
        /\ z.d + 1 = DaySize => n.carry = TRUE
        /\ z.d + 1 # DaySize => n.carry = z.carry
    BY <2>1, <2>2, NextDayFields
  <2>4. c.h + 1 = HourMod
    BY <1>1, <1>2, <1>5, Sizes
  <2>5. n.h < HourMod
    BY <2>2, <2>3, Sizes
  <2>6. ASSUME c.d + 1 = DaySize
        PROVE  ComesRound(c, n, Hours(c), Hours(n), HourMod * DaySize)
    <3>1. n.d = 0 /\ n.d < c.d
      BY <1>1, <2>2, <2>3, <2>6, Sizes
    <3>2. Hours(n) = 0 /\ Hours(c) + 1 = HourMod * DaySize
      <4>1. c.h = HourMod - 1 /\ c.d = DaySize - 1 /\ c.h \in 0..(HourMod - 1)
        BY <1>1, <2>4, <2>6, Sizes
      <4>2. c.h + HourMod * c.d + 1 = HourMod * DaySize
        BY <1>1, <4>1, Sizes, DigitBound
      <4>3. HourMod * 0 = 0
        BY Sizes, Carried
      <4> QED
        BY <2>2, <2>3, <3>1, <4>2, <4>3 DEF Hours
    <3>3. n.carry = TRUE
      BY <2>2, <2>3, <2>6, Zenon
    <3> QED
      BY <3>1, <3>2, <3>3, Zenon DEF ComesRound
  <2>7. ASSUME c.d + 1 # DaySize
        PROVE  GoesOn(c, n, Hours(c), Hours(n))
    <3>1. n.d = c.d + 1 /\ c.d <= n.d
      BY <1>1, <2>2, <2>3, <2>7, Sizes
    <3>2. Hours(n) = Hours(c) + 1
      <4>1. HourMod * (c.d + 1) = HourMod * c.d + HourMod
        BY <1>1, Sizes, Carried
      <4> QED
        BY <1>1, <1>3, <2>2, <2>3, <2>4, <3>1, <4>1, Sizes DEF Hours
    <3>3. n.carry = c.carry
      BY <2>2, <2>3, <2>7, Zenon
    <3> QED
      BY <3>1, <3>2, <3>3, Zenon DEF GoesOn
  <2>8. n.s = c.s /\ n.m = c.m
    BY <2>2, <2>3
  <2> QED
    BY <2>3, <2>4, <2>5, <2>6, <2>7, <2>8, Zenon DEF n
<1> QED
  BY <1>4, <1>5

LEMMA MinuteStep ==
  ASSUME NEW c \in Clock
  PROVE  LET n == NextMinute(c) IN
         /\ n \in Clock /\ n.s = c.s
         /\ n.h # c.h => c.m + 1 = MinMod
         /\ n.d # c.d => c.m + 1 = MinMod /\ c.h + 1 = HourMod
         /\ c.m < MinMod /\ c.h < HourMod =>
              /\ n.m < MinMod /\ n.h < HourMod
              /\ \/ GoesOn(c, n, Minutes(c), Minutes(n))
                 \/ ComesRound(c, n, Minutes(c), Minutes(n), MinMod * (HourMod * DaySize))
<1> DEFINE n == NextMinute(c)
           m == (c.m + 1) % MinSize
<1>1. c.m \in 0..(MinSize - 1) /\ c.h \in 0..(HourSize - 1) /\ c.d \in 0..(DaySize - 1)
  BY ClockFields
<1>2. m = (IF c.m + 1 = MinSize THEN 0 ELSE c.m + 1)
  BY <1>1, Sizes, NextValue
<1>3. 0 \in 0..(MinSize - 1) /\ m \in 0..(MinSize - 1)
  BY <1>1, <1>2, Sizes
<1>4. Hours(c) \in Nat /\ MinMod * Hours(c) \in Nat
  <2>1. Hours(c) \in Nat
    BY <1>1, Sizes, Carried DEF Hours
  <2> QED
    BY <2>1, Sizes, Carried
<1>5. CASE m # MinMod
  <2>1. n = [c EXCEPT !.m = m]
    BY <1>5 DEF NextMinute
  <2>2. n \in Clock /\ n.s = c.s /\ n.m = m /\ n.h = c.h /\ n.d = c.d /\ n.carry = c.carry
    BY <1>3, <2>1, SetMinutes
  <2>3. c.m < MinMod => m = c.m + 1 /\ m < MinMod
    BY <1>1, <1>2, <1>5, Sizes
  <2>4. c.m < MinMod => Minutes(n) = Minutes(c) + 1 /\ c.d <= n.d
    <3>1. Hours(n) = Hours(c)
      BY <2>2 DEF Hours
    <3> HIDE DEF n, m
    <3> QED
      BY <1>1, <1>4, <2>2, <2>3, <3>1 DEF Minutes
  <2> QED
    BY <2>2, <2>3, <2>4, Zenon DEF GoesOn
<1>6. CASE m = MinMod
  <2> DEFINE z == [c EXCEPT !.m = 0]
  <2>1. n = NextHour(z)
    BY <1>6 DEF NextMinute
  <2>2. z \in Clock /\ z.s = c.s /\ z.m = 0 /\ z.h = c.h /\ z.d = c.d /\ z.carry = c.carry
    BY <1>3, SetMinutes
  <2> HIDE DEF z, n
  <2>3. /\ n \in Clock /\ n.s = z.s /\ n.m = z.m
        /\ n.d # z.d => z.h + 1 = HourMod
        /\ z.h < HourMod =>
             /\ n.h < HourMod
             /\ \/ GoesOn(z, n, Hours(z), Hours(n))
                \/ ComesRound(z, n, Hours(z), Hours(n), HourMod * DaySize)
    BY <2>1, <2>2, HourStep, Zenon
  <2>4. c.m + 1 = MinMod /\ c.m = MinMod - 1
    BY <1>1, <1>2, <1>6, Sizes
  <2>5. n.m = 0 /\ n.m < MinMod
    BY <2>2, <2>3, Sizes
  <2>6. Hours(z) = Hours(c)
    BY <2>2 DEF Hours
  <2>7. Minutes(c) = (MinMod - 1) + MinMod * Hours(c) /\ Minutes(n) = 0 + MinMod * Hours(n)
    BY <2>4, <2>5 DEF Minutes
  <2>8. c.h < HourMod =>
          \/ GoesOn(c, n, Hours(c), Hours(n))
          \/ ComesRound(c, n, Hours(c), Hours(n), HourMod * DaySize)
    BY <2>2, <2>3, <2>6, Zenon DEF GoesOn, ComesRound
  <2>9. c.h < HourMod =>
          \/ GoesOn(c, n, Minutes(c), Minutes(n))
          \/ ComesRound(c, n, Minutes(c), Minutes(n), MinMod * (HourMod * DaySize))
    BY <1>4, <2>7, <2>8, Sizes, RollsOver, Zenon
  <2>10. n.s = c.s /\ (n.d # c.d => c.h + 1 = HourMod) /\ (c.h < HourMod => n.h < HourMod)
    BY <2>2, <2>3, Zenon
  <2> QED
    BY <2>3, <2>4, <2>5, <2>9, <2>10, Zenon DEF n
<1> QED
  BY <1>5, <1>6

LEMMA SecondStep ==
  ASSUME NEW c \in Clock
  PROVE  LET n == NextSecond(c) IN
         /\ n \in Clock
         /\ n.m # c.m => c.s + 1 = SecMod
         /\ n.h # c.h => c.s + 1 = SecMod /\ c.m + 1 = MinMod
         /\ n.d # c.d => c.s + 1 = SecMod /\ c.m + 1 = MinMod /\ c.h + 1 = HourMod
         /\ InRange(c) =>
              /\ InRange(n)
              /\ \/ GoesOn(c, n, Total(c), Total(n))
                 \/ ComesRound(c, n, Total(c), Total(n), Cycle)
<1> DEFINE n == NextSecond(c)
           t == (c.s + 1) % SecSize
<1>1. /\ c.s \in 0..(SecSize - 1) /\ c.m \in 0..(MinSize - 1) /\ c.h \in 0..(HourSize - 1)
      /\ c.d \in 0..(DaySize - 1)
  BY ClockFields
<1>2. t = (IF c.s + 1 = SecSize THEN 0 ELSE c.s + 1)
  BY <1>1, Sizes, NextValue
<1>3. 0 \in 0..(SecSize - 1) /\ t \in 0..(SecSize - 1)
  BY <1>1, <1>2, Sizes
<1>4. Minutes(c) \in Nat /\ SecMod * Minutes(c) \in Nat
  <2>1. Hours(c) \in Nat
    BY <1>1, Sizes, Carried DEF Hours
  <2>2. Minutes(c) \in Nat
    BY <1>1, <2>1, Sizes, Carried DEF Minutes
  <2> QED
    BY <2>2, Sizes, Carried
<1>5. CASE t # SecMod
  <2>1. n = [c EXCEPT !.s = t]
    BY <1>5 DEF NextSecond
  <2>2. n \in Clock /\ n.s = t /\ n.m = c.m /\ n.h = c.h /\ n.d = c.d /\ n.carry = c.carry
    BY <1>3, <2>1, SetSeconds
  <2>3. c.s < SecMod => t = c.s + 1 /\ t < SecMod
    BY <1>1, <1>2, <1>5, Sizes
  <2>4. c.s < SecMod => Total(n) = Total(c) + 1 /\ c.d <= n.d
    <3>1. Minutes(n) = Minutes(c)
      BY <2>2 DEF Minutes, Hours
    <3> HIDE DEF n, t
    <3> QED
      BY <1>1, <1>4, <2>2, <2>3, <3>1, TotalParts
  <2> QED
    BY <2>2, <2>3, <2>4, Zenon DEF GoesOn, InRange
<1>6. CASE t = SecMod
  <2> DEFINE z == [c EXCEPT !.s = 0]
  <2>1. n = NextMinute(z)
    BY <1>6 DEF NextSecond
  <2>2. z \in Clock /\ z.s = 0 /\ z.m = c.m /\ z.h = c.h /\ z.d = c.d /\ z.carry = c.carry
    BY <1>3, SetSeconds
  <2> HIDE DEF z, n
  <2>3. /\ n \in Clock /\ n.s = z.s
        /\ n.h # z.h => z.m + 1 = MinMod
        /\ n.d # z.d => z.m + 1 = MinMod /\ z.h + 1 = HourMod
        /\ z.m < MinMod /\ z.h < HourMod =>
             /\ n.m < MinMod /\ n.h < HourMod
             /\ \/ GoesOn(z, n, Minutes(z), Minutes(n))
                \/ ComesRound(z, n, Minutes(z), Minutes(n), MinMod * (HourMod * DaySize))
    BY <2>1, <2>2, MinuteStep, Zenon
  <2>4. c.s + 1 = SecMod /\ c.s = SecMod - 1
    BY <1>1, <1>2, <1>6, Sizes
  <2>5. n.s = 0 /\ n.s < SecMod
    BY <2>2, <2>3, Sizes
  <2>6. Minutes(z) = Minutes(c)
    BY <2>2 DEF Minutes, Hours
  <2>7. Total(c) = (SecMod - 1) + SecMod * Minutes(c) /\ Total(n) = 0 + SecMod * Minutes(n)
    BY <2>4, <2>5, TotalParts
  <2>8. c.m < MinMod /\ c.h < HourMod =>
          \/ GoesOn(c, n, Minutes(c), Minutes(n))
          \/ ComesRound(c, n, Minutes(c), Minutes(n), MinMod * (HourMod * DaySize))
    BY <2>2, <2>3, <2>6, Zenon DEF GoesOn, ComesRound
  <2>9. c.m < MinMod /\ c.h < HourMod =>
          \/ GoesOn(c, n, Total(c), Total(n))
          \/ ComesRound(c, n, Total(c), Total(n), SecMod * (MinMod * (HourMod * DaySize)))
    BY <1>4, <2>7, <2>8, Sizes, RollsOver, Zenon
  <2>10. /\ n.h # c.h => c.m + 1 = MinMod
         /\ n.d # c.d => c.m + 1 = MinMod /\ c.h + 1 = HourMod
         /\ c.m < MinMod /\ c.h < HourMod => n.m < MinMod /\ n.h < HourMod
    BY <2>2, <2>3, Zenon
  <2> QED
    BY <2>3, <2>4, <2>5, <2>9, <2>10, Zenon DEF n, InRange, Cycle
<1> QED
  BY <1>5, <1>6

-----------------------------------------------------------------------------
(* The type. *)

\* The days after a store of their lower part or of their ninth bit.
LEMMA DaysStored ==
  ASSUME NEW d \in 0..(DaySize - 1), NEW low \in 0..(DayLowSize - 1), NEW high \in 0..1
  PROVE  /\ d - (d % DayLowSize) + low \in 0..(DaySize - 1)
         /\ (d % DayLowSize) + high * DayLowSize \in 0..(DaySize - 1)
<1>1. d % DayLowSize = IF d < DayLowSize THEN d ELSE d - DayLowSize
  <2>1. \A n \in Nat \ {0}, x \in Nat : x < n => x % n = x
    BY SMT
  <2>2. CASE d < DayLowSize
    BY <2>1, <2>2, Sizes
  <2>3. CASE ~(d < DayLowSize)
    <3>1. d - DayLowSize \in Nat /\ d - DayLowSize < DayLowSize
      BY <2>3, Sizes
    <3>2. \A n \in Nat \ {0}, x \in Nat : x < n => (x + n) % n = x
      BY SMT
    <3>3. (d - DayLowSize) + DayLowSize = d
      BY Sizes
    <3> QED
      BY <2>3, <3>1, <3>2, <3>3, Sizes
  <2> QED
    BY <2>2, <2>3
<1> DEFINE part == d % DayLowSize
<1>2. part \in 0..(DayLowSize - 1) /\ (part = d \/ part = d - DayLowSize)
  BY <1>1, Sizes
<1> HIDE DEF part
<1>3. high * DayLowSize = 0 \/ high * DayLowSize = DayLowSize
  <2>1. high = 0 \/ high = 1
    OBVIOUS
  <2>2. 0 * DayLowSize = 0 /\ 1 * DayLowSize = DayLowSize
    BY Sizes
  <2> QED
    BY <2>1, <2>2
<1>4. d - part + low \in 0..(DaySize - 1) /\ part + high * DayLowSize \in 0..(DaySize - 1)
  BY <1>2, <1>3, Sizes
<1> QED
  BY <1>4 DEF part

LEMMA SetLowDays ==
  ASSUME NEW c \in Clock, NEW v \in 0..(DayLowSize - 1)
  PROVE  [c EXCEPT !.d = @ - (@ % DayLowSize) + v] \in Clock
<1>1. c.d \in 0..(DaySize - 1)
  BY ClockFields
<1>2. 0 \in 0..1
  OBVIOUS
<1>3. c.d - (c.d % DayLowSize) + v \in 0..(DaySize - 1)
  BY <1>1, <1>2, DaysStored
<1> QED
  BY <1>3, SetDayField

LEMMA SetHighDays ==
  ASSUME NEW c \in Clock, NEW high \in 0..1, NEW halts \in BOOLEAN, NEW carries \in BOOLEAN
  PROVE  [c EXCEPT !.d = (c.d % DayLowSize) + high * DayLowSize,
                   !.halt = halts, !.carry = carries] \in Clock
<1>1. c.d \in 0..(DaySize - 1)
  BY ClockFields
<1>2. 0 \in 0..(DayLowSize - 1)
  BY Sizes
<1>3. (c.d % DayLowSize) + high * DayLowSize \in 0..(DaySize - 1)
  BY <1>1, <1>2, DaysStored
<1> QED
  BY <1>3, SetDays, Zenon

\* What a store does to the clock and to its copy.
LEMMA StoreTypes ==
  ASSUME RtcTypeOK, StoreAny
  PROVE  /\ now' \in Clock /\ latch' \in Clock /\ cycles' \in 0..(ClockSpeed - 1)
         /\ UNCHANGED <<last_latch, ram_bank, ram_enabled>>
<1>1. now \in Clock /\ latch \in Clock /\ cycles \in 0..(ClockSpeed - 1)
  BY DEF RtcTypeOK
<1>2. 0 \in 0..(ClockSpeed - 1)
  BY RtcAssumption DEF RtcAssumption
<1>3. ASSUME NEW v \in SecInputs, Store("S", v)
      PROVE  /\ now' = [now EXCEPT !.s = v] /\ latch' = [latch EXCEPT !.s = v] /\ cycles' = 0
             /\ UNCHANGED <<last_latch, ram_bank, ram_enabled>>
  BY <1>3, Zenon DEF Store
<1>4. ASSUME NEW v \in MinInputs, Store("M", v)
      PROVE  /\ now' = [now EXCEPT !.m = v] /\ latch' = [latch EXCEPT !.m = v] /\ cycles' = cycles
             /\ UNCHANGED <<last_latch, ram_bank, ram_enabled>>
  BY <1>4 DEF Store
<1>5. ASSUME NEW v \in HourInputs, Store("H", v)
      PROVE  /\ now' = [now EXCEPT !.h = v] /\ latch' = [latch EXCEPT !.h = v] /\ cycles' = cycles
             /\ UNCHANGED <<last_latch, ram_bank, ram_enabled>>
  BY <1>5 DEF Store
<1>6. ASSUME NEW v \in DayLowInputs, Store("DL", v)
      PROVE  /\ now' = [now EXCEPT !.d = @ - (@ % DayLowSize) + v]
             /\ latch' = [latch EXCEPT !.d = @ - (@ % DayLowSize) + v] /\ cycles' = cycles
             /\ UNCHANGED <<last_latch, ram_bank, ram_enabled>>
  BY <1>6 DEF Store
<1>7. ASSUME NEW high \in 0..1, NEW halts \in BOOLEAN, NEW carries \in BOOLEAN,
             StoreDH(high, halts, carries)
      PROVE  /\ now' \in Clock /\ latch' \in Clock /\ cycles' = cycles
             /\ UNCHANGED <<last_latch, ram_bank, ram_enabled>>
  BY <1>1, <1>7, SetHighDays, Zenon DEF StoreDH
<1>8. /\ SecInputs \subseteq 0..(SecSize - 1) /\ MinInputs \subseteq 0..(MinSize - 1)
      /\ HourInputs \subseteq 0..(HourSize - 1) /\ DayLowInputs \subseteq 0..(DayLowSize - 1)
  BY RtcAssumption, Zenon DEF RtcAssumption
<1>9. ASSUME NEW v \in SecInputs, Store("S", v)
      PROVE  now' \in Clock /\ latch' \in Clock
  BY <1>1, <1>3, <1>8, <1>9, SetSeconds, Zenon
<1>10. ASSUME NEW v \in MinInputs, Store("M", v)
       PROVE  now' \in Clock /\ latch' \in Clock
  BY <1>1, <1>4, <1>8, <1>10, SetMinutes, Zenon
<1>11. ASSUME NEW v \in HourInputs, Store("H", v)
       PROVE  now' \in Clock /\ latch' \in Clock
  BY <1>1, <1>5, <1>8, <1>11, SetHours, Zenon
<1>12. ASSUME NEW v \in DayLowInputs, Store("DL", v)
       PROVE  now' \in Clock /\ latch' \in Clock
  BY <1>1, <1>6, <1>8, <1>12, SetLowDays, Zenon
<1> QED
  BY <1>1, <1>2, <1>3, <1>4, <1>5, <1>6, <1>7, <1>9, <1>10, <1>11, <1>12, Zenon DEF StoreAny

LEMMA CalInitTyped == CalInit => CalTypeOK
<1> SUFFICES ASSUME CalInit PROVE CalTypeOK
  OBVIOUS
<1>1. Zero \in Clock
  BY Sizes DEF Zero, Clock
<1>2. 0 \in 0..(ClockSpeed - 1) /\ 0 \in 0..MaxStores /\ 0 \in 0..2
  BY RtcAssumption, StoresAssumption DEF RtcAssumption, StoresAssumption
<1> QED
  BY <1>1, <1>2, Zenon DEF CalInit, RtcInit, CalTypeOK, RtcTypeOK

LEMMA CalStepTyped == CalTypeOK /\ [CalNext]_calVars => CalTypeOK'
<1> SUFFICES ASSUME CalTypeOK, [CalNext]_calVars PROVE CalTypeOK'
  OBVIOUS
<1>1. RtcTypeOK /\ stored \in BOOLEAN /\ wrapped \in BOOLEAN /\ stores \in 0..MaxStores
  BY DEF CalTypeOK
<1>2. CASE CalTick
  <2>1. now' \in Clock
    BY <1>1, <1>2, SecondStep, Zenon DEF CalTick, RtcTick, RtcTypeOK
  <2>2. cycles' \in 0..(ClockSpeed - 1)
    <3>1. CASE cycles + 1 >= ClockSpeed
      <4>1. cycles' = 0
        BY <1>2, <3>1, Zenon DEF CalTick, RtcTick, SecondEnds
      <4> QED
        BY <4>1, RtcAssumption DEF RtcAssumption
    <3>2. CASE ~(cycles + 1 >= ClockSpeed)
      <4>1. cycles' = cycles + 1
        BY <1>2, <3>2, Zenon DEF CalTick, RtcTick, SecondEnds
      <4>2. cycles \in 0..(ClockSpeed - 1)
        BY <1>1 DEF RtcTypeOK
      <4> QED
        BY <3>2, <4>1, <4>2, RtcAssumption DEF RtcAssumption
    <3> QED
      BY <3>1, <3>2
  <2>3. wrapped' \in BOOLEAN
    BY <1>1, <1>2, Zenon DEF CalTick
  <2> QED
    BY <1>1, <1>2, <2>1, <2>2, <2>3, Zenon DEF CalTick, RtcTick, CalTypeOK, RtcTypeOK
<1>3. CASE CalLatch
  <2>1. PICK value \in 0..2 : Latch(value)
    BY <1>3 DEF CalLatch, LatchAny
  <2>2. stored' \in BOOLEAN /\ wrapped' \in BOOLEAN
    BY <1>1, <1>3, Zenon DEF CalLatch
  <2> QED
    BY <1>1, <1>3, <2>1, <2>2, Zenon DEF CalLatch, Latch, CalTypeOK, RtcTypeOK
<1>4. CASE CalStore
  <2>1. /\ now' \in Clock /\ latch' \in Clock /\ cycles' \in 0..(ClockSpeed - 1)
        /\ UNCHANGED <<last_latch, ram_bank, ram_enabled>>
    BY <1>1, <1>4, StoreTypes DEF CalStore
  <2>2. stores' \in 0..MaxStores
    BY <1>1, <1>4, StoresAssumption DEF CalStore, StoresAssumption
  <2>3. stored' \in BOOLEAN /\ wrapped' \in BOOLEAN
    BY <1>1, <1>4, Zenon DEF CalStore
  <2> QED
    BY <1>1, <2>1, <2>2, <2>3, Zenon DEF CalTypeOK, RtcTypeOK
<1>5. CASE CalChoose
  BY <1>1, <1>5, Zenon DEF CalChoose, Choose, EnableRam, SelectBank, CalTypeOK, RtcTypeOK
<1>6. CASE UNCHANGED calVars
  BY <1>1, <1>6, Zenon DEF calVars, rtcVars, CalTypeOK, RtcTypeOK
<1> QED
  BY <1>2, <1>3, <1>4, <1>5, <1>6 DEF CalNext

\* Every register keeps to its width, whatever software stores: the cascade
\* and the stores of fgb_cart_tick_mbc3 and fgb_cart_write_ram_mbc3.
THEOREM CalTypeCorrect == CalSpec => []CalTypeOK
  BY CalInitTyped, CalStepTyped, PTL DEF CalSpec

-----------------------------------------------------------------------------
(* The calendar. *)

LEMMA TotalBound ==
  ASSUME NEW c \in Clock, InRange(c)
  PROVE  Total(c) \in Nat /\ Total(c) + 1 <= Cycle /\ Cycle \in Nat \ {0}
<1>1. /\ c.s \in 0..(SecMod - 1) /\ c.m \in 0..(MinMod - 1) /\ c.h \in 0..(HourMod - 1)
      /\ c.d \in 0..(DaySize - 1)
  BY ClockFields, Sizes DEF InRange
<1>2. Hours(c) \in 0..(HourMod * DaySize - 1)
  BY <1>1, Sizes, DigitBound DEF Hours
<1>3. HourMod * DaySize \in Nat \ {0}
  BY <1>1, <1>2, Sizes, Product
<1>4. Minutes(c) \in 0..(MinMod * (HourMod * DaySize) - 1)
  BY <1>1, <1>2, <1>3, Sizes, DigitBound DEF Minutes
<1>5. MinMod * (HourMod * DaySize) \in Nat \ {0}
  BY <1>3, Sizes, Product
<1>6. c.s + SecMod * Minutes(c) \in 0..(SecMod * (MinMod * (HourMod * DaySize)) - 1)
  BY <1>1, <1>4, <1>5, Sizes, DigitBound
<1>7. SecMod * (MinMod * (HourMod * DaySize)) \in Nat \ {0}
  BY <1>5, Sizes, Product
<1> QED
  BY <1>6, <1>7, TotalParts DEF Cycle

LEMMA CalendarOfTick ==
  ASSUME CalTypeOK, RtcTick
  PROVE  /\ SecondEnds /\ InRange(now) =>
             /\ InRange(now')
             /\ Total(now') = (Total(now) + 1) % Cycle
             /\ now'.carry = (now.carry \/ Total(now') = 0)
         /\ now'.m # now.m => now.s + 1 = SecMod
         /\ now'.h # now.h => now.s + 1 = SecMod /\ now.m + 1 = MinMod
         /\ now'.d # now.d => /\ now.s + 1 = SecMod /\ now.m + 1 = MinMod
                              /\ now.h + 1 = HourMod
<1>1. now \in Clock
  BY DEF CalTypeOK, RtcTypeOK
<1>2. CASE ~SecondEnds
  <2>1. now' = now
    BY <1>2 DEF RtcTick
  <2> QED
    BY <1>2, <2>1
<1>3. CASE SecondEnds
  <2> DEFINE n == NextSecond(now)
  <2>1. now' = n
    BY <1>3 DEF RtcTick
  <2>2. /\ n \in Clock
        /\ n.m # now.m => now.s + 1 = SecMod
        /\ n.h # now.h => now.s + 1 = SecMod /\ now.m + 1 = MinMod
        /\ n.d # now.d => now.s + 1 = SecMod /\ now.m + 1 = MinMod /\ now.h + 1 = HourMod
        /\ InRange(now) =>
             /\ InRange(n)
             /\ \/ GoesOn(now, n, Total(now), Total(n))
                \/ ComesRound(now, n, Total(now), Total(n), Cycle)
    BY <1>1, SecondStep, Zenon
  <2> HIDE DEF n
  <2>3. ASSUME InRange(now)
        PROVE  Total(n) = (Total(now) + 1) % Cycle /\ n.carry = (now.carry \/ Total(n) = 0)
    <3>1. Total(now) \in Nat /\ Total(now) + 1 <= Cycle /\ Cycle \in Nat \ {0}
      BY <1>1, <2>3, TotalBound
    <3>2. Total(n) \in Nat /\ Total(n) + 1 <= Cycle
      BY <2>2, <2>3, TotalBound
    <3>3. n.carry \in BOOLEAN /\ now.carry \in BOOLEAN
      BY <1>1, <2>2, ClockFields, Zenon
    <3>4. CASE GoesOn(now, n, Total(now), Total(n))
      <4>1. Total(n) = Total(now) + 1 /\ n.carry = now.carry
        BY <3>4, Zenon DEF GoesOn
      <4>2. \A k \in Nat \ {0}, y \in Nat : y < k => y % k = y
        BY SMT
      <4>3. Total(n) < Cycle /\ Total(n) # 0
        BY <3>1, <3>2, <4>1
      <4>4. Total(n) = (Total(now) + 1) % Cycle
        BY <3>1, <3>2, <4>1, <4>2, <4>3
      <4> QED
        BY <3>3, <4>1, <4>3, <4>4, Zenon
    <3>5. CASE ComesRound(now, n, Total(now), Total(n), Cycle)
      <4>1. Total(now) + 1 = Cycle /\ Total(n) = 0 /\ n.carry = TRUE
        BY <3>5, Zenon DEF ComesRound
      <4>2. Cycle % Cycle = 0
        BY <3>1, SMT
      <4> QED
        BY <3>3, <4>1, <4>2, Zenon
    <3> QED
      BY <2>2, <2>3, <3>4, <3>5
  <2> QED
    BY <2>1, <2>2, <2>3, Zenon
<1> QED
  BY <1>2, <1>3

\* The cascade of fgb_cart_tick_mbc3 is a calendar for every modulus: the end
\* of a second adds one to the total of the registers, modulo all the days,
\* sets the carry bit exactly when the days come round, and a register moves
\* only when the one below it reaches its modulus.
THEOREM CalendarCorrect == CalSpec => CalendarStep
<1>1. CalTypeOK /\ [CalNext]_calVars =>
        [ RtcTick =>
            /\ SecondEnds /\ InRange(now) =>
                 /\ InRange(now')
                 /\ Total(now') = (Total(now) + 1) % Cycle
                 /\ now'.carry = (now.carry \/ Total(now') = 0)
            /\ now'.m # now.m => now.s + 1 = SecMod
            /\ now'.h # now.h => now.s + 1 = SecMod /\ now.m + 1 = MinMod
            /\ now'.d # now.d => /\ now.s + 1 = SecMod /\ now.m + 1 = MinMod
                                 /\ now.h + 1 = HourMod ]_calVars
  BY CalendarOfTick, Zenon
<1> QED
  BY <1>1, CalTypeCorrect, PTL DEF CalSpec, CalendarStep

-----------------------------------------------------------------------------
(* The latched copy. *)

LEMMA LatchStep ==
  ASSUME CalTypeOK, LatchNeverAhead, [CalNext]_calVars
  PROVE  LatchNeverAhead'
<1>1. now \in Clock /\ latch \in Clock /\ last_latch \in 0..2
  BY DEF CalTypeOK, RtcTypeOK
<1>2. ASSUME CalTick, ~stored', ~wrapped', InRange(latch')
      PROVE  InRange(now') /\ Total(latch') <= Total(now')
  <2>1. ~stored /\ ~wrapped /\ latch' = latch /\ ~(now'.d < now.d)
    BY <1>2, Zenon DEF CalTick, RtcTick
  <2>2. InRange(now) /\ Total(latch) <= Total(now)
    BY <1>2, <2>1 DEF LatchNeverAhead
  <2>3. CASE ~SecondEnds
    <3>1. now' = now
      BY <1>2, <2>3 DEF CalTick, RtcTick
    <3> QED
      BY <2>1, <2>2, <3>1
  <2>4. CASE SecondEnds
    <3> DEFINE n == NextSecond(now)
    <3>1. now' = n
      BY <1>2, <2>4 DEF CalTick, RtcTick
    <3>2. /\ InRange(n)
          /\ \/ GoesOn(now, n, Total(now), Total(n))
             \/ ComesRound(now, n, Total(now), Total(n), Cycle)
      BY <1>1, <2>2, SecondStep, Zenon
    <3> HIDE DEF n
    <3>3. Total(n) = Total(now) + 1
      BY <2>1, <3>1, <3>2, Zenon DEF GoesOn, ComesRound
    <3>4. Total(now) \in Nat /\ Total(latch) \in Nat
      BY <1>1, <1>2, <2>1, <2>2, TotalBound
    <3>5. Total(latch) <= Total(n)
      BY <2>2, <3>3, <3>4
    <3> QED
      BY <2>1, <3>1, <3>2, <3>5, Zenon
  <2> QED
    BY <2>3, <2>4
<1>3. ASSUME CalLatch, ~stored', ~wrapped', InRange(latch')
      PROVE  InRange(now') /\ Total(latch') <= Total(now')
  <2>1. PICK value \in 0..2 : Latch(value)
    BY <1>3 DEF CalLatch, LatchAny
  <2>2. CASE last_latch = 0 /\ last_latch' = 1
    <3>1. now' = now /\ latch' = now
      BY <2>1, <2>2, Zenon DEF Latch
    <3>2. Total(now) \in Nat
      BY <1>1, <1>3, <3>1, TotalBound
    <3> QED
      BY <1>3, <3>1, <3>2
  <2>3. CASE ~(last_latch = 0 /\ last_latch' = 1)
    <3>1. now' = now /\ latch' = latch
      BY <2>1, <2>3, Zenon DEF Latch
    <3>2. ~stored /\ ~wrapped
      BY <1>3, <2>3, Zenon DEF CalLatch
    <3> QED
      BY <1>3, <3>1, <3>2, Zenon DEF LatchNeverAhead
  <2> QED
    BY <2>2, <2>3
<1>4. ASSUME CalStore PROVE stored'
  BY <1>4, Zenon DEF CalStore
<1>5. ASSUME CalChoose PROVE LatchNeverAhead'
  <2>1. now' = now /\ latch' = latch /\ stored' = stored /\ wrapped' = wrapped
    BY <1>5, Zenon DEF CalChoose, Choose, EnableRam, SelectBank
  <2> QED
    BY <2>1 DEF LatchNeverAhead, InRange, Total
<1>6. ASSUME UNCHANGED calVars PROVE LatchNeverAhead'
  BY <1>6 DEF LatchNeverAhead, InRange, Total, calVars, rtcVars
<1>7. ASSUME ~stored', ~wrapped', InRange(latch'), CalTick \/ CalLatch
      PROVE  InRange(now') /\ Total(latch') <= Total(now')
  BY <1>2, <1>3, <1>7
<1> QED
  BY <1>4, <1>5, <1>6, <1>7, Zenon DEF CalNext, LatchNeverAhead

\* A latched copy never shows a later time than the clock, until software
\* stores a register or the days come round.
THEOREM LatchCorrect == CalSpec => []LatchNeverAhead
<1>1. CalInit => LatchNeverAhead
  <2> SUFFICES ASSUME CalInit PROVE LatchNeverAhead
    OBVIOUS
  <2>1. now = Zero /\ latch = Zero /\ now \in Clock
    BY CalInitTyped DEF CalInit, RtcInit, CalTypeOK, RtcTypeOK
  <2>2. InRange(now) => Total(now) \in Nat
    BY <2>1, TotalBound
  <2> QED
    BY <2>1, <2>2 DEF LatchNeverAhead
<1> QED
  BY <1>1, LatchStep, CalTypeCorrect, PTL DEF CalSpec

-----------------------------------------------------------------------------
(***************************************************************************)
(* The timer.  TypeOK and DelayOnlyAfterOverflow together are inductive    *)
(* for Timer.  The edge rule follows from the actions alone.  The          *)
(* interrupt's time needs DelayMatchesAge: the timer's own delay equals    *)
(* the time that has really passed since TIMA wrapped.                     *)
(***************************************************************************)

USE SizeAssumption DEF SizeAssumption, Delays

-----------------------------------------------------------------------------

\* A remainder is below its modulus: the divider and TIMA stay in range.
LEMMA RemainderInRange ==
  ASSUME NEW n \in Nat \ {0}, NEW x \in Nat
  PROVE  x % n \in 0..(n - 1)
BY SMT

\* What fgb_timer_increment leaves in the three fields it may change.
LEMMA IncrementType ==
  ASSUME TypeOK, NEW pulse \in BOOLEAN
  PROVE  /\ Increment(pulse).counter \in 0..(TimaSize - 1)
         /\ Increment(pulse).overflow \in BOOLEAN
         /\ Increment(pulse).ticks \in 0..5
<1>1. (counter + 1) % TimaSize \in 0..(TimaSize - 1)
  BY RemainderInRange DEF TypeOK
<1>2. QED
  BY <1>1 DEF Increment, TypeOK

\* An increment keeps an idle timer's delay at 0.
LEMMA IncrementKeepsDelay ==
  ASSUME DelayOnlyAfterOverflow, NEW pulse \in BOOLEAN
  PROVE  ~Increment(pulse).overflow => Increment(pulse).ticks = 0
BY DEF Increment, DelayOnlyAfterOverflow

\* The conjuncts of the induction hypothesis, flags apart from numbers.
Numbers ==
  /\ divider \in 0..(DivSize - 1)
  /\ counter \in 0..(TimaSize - 1)
  /\ modulo \in 0..(TimaSize - 1)
  /\ clk_sel \in ClkSel
  /\ ticks \in 0..5

Flags ==
  /\ enable \in BOOLEAN
  /\ overflow \in BOOLEAN
  /\ requested \in BOOLEAN

IInv == Numbers /\ Flags /\ DelayOnlyAfterOverflow

LEMMA IInvMeaning == IInv <=> TypeOK /\ DelayOnlyAfterOverflow
BY DEF IInv, Numbers, Flags, TypeOK

\* A divider of 0 drives every watched bit low.
LEMMA WatchedZero == IInv => ~Watched(0, clk_sel)
<1> SUFFICES ASSUME IInv
             PROVE  ~Watched(0, clk_sel)
  OBVIOUS
<1>1. DivBit[clk_sel] \in Nat \ {0}
  BY SizeAssumption DEF IInv, Numbers
<1>2. 0 \div DivBit[clk_sel] = 0
  BY <1>1
<1>3. QED
  BY <1>2 DEF Watched

LEMMA IInvInit == Init => IInv
<1> SUFFICES ASSUME Init PROVE IInv
  OBVIOUS
<1>1. Numbers
  BY DEF Init, Numbers, ClkSel
<1>2. Flags
  BY DEF Init, Flags
<1>3. DelayOnlyAfterOverflow
  BY DEF Init, DelayOnlyAfterOverflow
<1>4. QED
  BY <1>1, <1>2, <1>3 DEF IInv

\* The inductive step, shared by the timer on its own and on the bus.
LEMMA IInvStep == IInv /\ [Next]_vars => IInv'
<1> SUFFICES ASSUME IInv, [Next]_vars
             PROVE  IInv'
  OBVIOUS
<1> USE DEF IInv
<1>1. CASE Tick
  <2> DEFINE pulse == /\ Signal(divider, clk_sel, enable)
                      /\ ~Watched((divider + 1) % DivSize, clk_sel)
             inc == Increment(pulse)
  <2>1. /\ inc.counter \in 0..(TimaSize - 1)
        /\ inc.overflow \in BOOLEAN
        /\ inc.ticks \in 0..5
        /\ ~inc.overflow => inc.ticks = 0
    BY IncrementType, IncrementKeepsDelay, IInvMeaning
  <2>2. (divider + 1) % DivSize \in 0..(DivSize - 1)
    BY RemainderInRange DEF Numbers
  <2>3. /\ divider' = (divider + 1) % DivSize
        /\ counter' \in {modulo, inc.counter}
        /\ overflow' = (inc.overflow /\ Delayed(inc) # 6)
        /\ ticks' = IF Delayed(inc) = 6 THEN 0 ELSE Delayed(inc)
        /\ requested' = (requested \/ Requests(inc))
        /\ UNCHANGED <<modulo, clk_sel, enable>>
    BY <1>1 DEF Tick
  <2>4. Requests(inc) \in BOOLEAN
    BY <2>1 DEF Requests
  <2> HIDE DEF inc
  <2>5. Delayed(inc) \in 0..6 /\ (~inc.overflow => Delayed(inc) = 0)
    BY <2>1 DEF Delayed
  <2>6. Numbers'
    BY <2>1, <2>2, <2>3, <2>5 DEF Numbers
  <2>7. Flags'
    BY <2>1, <2>3, <2>4 DEF Flags
  <2>8. DelayOnlyAfterOverflow'
    BY <2>3, <2>5 DEF DelayOnlyAfterOverflow
  <2>9. QED
    BY <2>6, <2>7, <2>8
<1>2. ASSUME NEW pulse \in BOOLEAN, Count(pulse)
      PROVE  /\ counter' \in 0..(TimaSize - 1)
             /\ overflow' \in BOOLEAN
             /\ ticks' \in 0..5
             /\ DelayOnlyAfterOverflow'
  BY <1>2, IncrementType, IncrementKeepsDelay, IInvMeaning
     DEF Count, DelayOnlyAfterOverflow
<1>3. CASE WriteDIV
  <2>1. Signal(divider, clk_sel, enable) \in BOOLEAN
    BY DEF Signal, Flags, Watched
  <2>2. /\ counter' \in 0..(TimaSize - 1)
        /\ overflow' \in BOOLEAN
        /\ ticks' \in 0..5
        /\ DelayOnlyAfterOverflow'
    BY <1>2, <1>3, <2>1 DEF WriteDIV
  <2>3. divider' = 0 /\ UNCHANGED <<modulo, clk_sel, enable, requested>>
    BY <1>3 DEF WriteDIV
  <2>4. Numbers'
    <3>1. 0 \in 0..(DivSize - 1)
      OBVIOUS
    <3>2. QED
      BY <2>2, <2>3, <3>1 DEF Numbers
  <2>5. Flags'
    BY <2>2, <2>3 DEF Flags
  <2>6. QED
    BY <2>2, <2>4, <2>5
<1>4. ASSUME NEW v \in TimaInputs, WriteTIMA(v)
      PROVE  IInv'
  <2>1. v \in 0..(TimaSize - 1)
    OBVIOUS
  <2>2. Numbers'
    BY <1>4, <2>1 DEF WriteTIMA, Numbers
  <2>3. Flags'
    BY <1>4 DEF WriteTIMA, Flags
  <2>4. DelayOnlyAfterOverflow'
    BY <1>4 DEF WriteTIMA, DelayOnlyAfterOverflow
  <2>5. QED
    BY <2>2, <2>3, <2>4
<1>5. ASSUME NEW v \in TimaInputs, WriteTMA(v)
      PROVE  IInv'
  BY <1>5 DEF WriteTMA, Numbers, Flags, DelayOnlyAfterOverflow
<1>6. ASSUME NEW sel \in ClkSel, NEW on \in BOOLEAN, WriteTAC(sel, on)
      PROVE  IInv'
  <2> DEFINE pulse == /\ enable
                      /\ Watched(divider, clk_sel)
                      /\ ~on \/ ~Watched(divider, sel)
  <2>1. pulse \in BOOLEAN
    BY DEF Flags, Watched
  <2>2. Count(pulse)
    BY <1>6 DEF WriteTAC
  <2> HIDE DEF pulse
  <2>3. /\ counter' \in 0..(TimaSize - 1)
        /\ overflow' \in BOOLEAN
        /\ ticks' \in 0..5
        /\ DelayOnlyAfterOverflow'
    BY <1>2, <2>1, <2>2
  <2>4. clk_sel' = sel /\ enable' = on /\ UNCHANGED <<divider, modulo, requested>>
    BY <1>6 DEF WriteTAC
  <2>5. Numbers'
    BY <2>3, <2>4 DEF Numbers
  <2>6. Flags'
    BY <2>3, <2>4 DEF Flags
  <2>7. QED
    BY <2>3, <2>5, <2>6
<1>7. ASSUME NEW bit \in BOOLEAN, WriteIF(bit)
      PROVE  IInv'
  BY <1>7 DEF WriteIF, Numbers, Flags, DelayOnlyAfterOverflow
<1>8. CASE Reset
  <2>1. Numbers'
    BY <1>8 DEF Reset, Numbers, ClkSel
  <2>2. Flags'
    BY <1>8 DEF Reset, Flags
  <2>3. DelayOnlyAfterOverflow'
    BY <1>8 DEF Reset, DelayOnlyAfterOverflow
  <2>4. QED
    BY <2>1, <2>2, <2>3
<1>9. CASE UNCHANGED vars
  BY <1>9 DEF vars, Numbers, Flags, DelayOnlyAfterOverflow
<1>10. QED
  BY <1>1, <1>3, <1>4, <1>5, <1>6, <1>7, <1>8, <1>9 DEF Next, Write

-----------------------------------------------------------------------------

\* Every variable of lib/timer.c's timer keeps its type, and its delay is 0
\* whenever no overflow is being processed.
THEOREM TimerTypeCorrect == Spec => [](TypeOK /\ DelayOnlyAfterOverflow)
<1>1. QED
  BY IInvInit, IInvStep, IInvMeaning, PTL DEF Spec

\* TIMA counts exactly the falling edges of its clock signal, whichever of
\* the three entry points produces them.
THEOREM TimerCountsEdges == Spec => TimaCountsEdges
<1> DEFINE Rule ==
      \/ Reset
      \/ \E v \in TimaInputs : WriteTIMA(v) \/ WriteTMA(v)
      \/ Tick /\ ticks' = Delays.reload /\ counter' = modulo
      \/ LET fell == /\ Signal(divider, clk_sel, enable)
                     /\ ~Signal(divider', clk_sel', enable')
         IN counter' = IF fell THEN (counter + 1) % TimaSize ELSE counter
<1>1. IInv /\ [Next]_vars => [Rule]_vars
  <2> SUFFICES ASSUME IInv, Next
               PROVE  Rule
    OBVIOUS
  <2>1. CASE Tick
    <3> DEFINE inc == Increment(/\ Signal(divider, clk_sel, enable)
                                /\ ~Watched((divider + 1) % DivSize, clk_sel))
    <3>1. /\ divider' = (divider + 1) % DivSize
          /\ clk_sel' = clk_sel /\ enable' = enable
      BY <2>1 DEF Tick
    <3>2. /\ Signal(divider, clk_sel, enable)
          /\ ~Watched(divider', clk_sel)
          <=>
          /\ Signal(divider, clk_sel, enable)
          /\ ~Signal(divider', clk_sel', enable')
      BY <3>1 DEF Signal
    <3>3. CASE inc.overflow /\ Delayed(inc) = 5
      <4>1. counter' = modulo
        BY <2>1, <3>3 DEF Tick
      <4>2. ticks' = 5
        <5>1. ticks' = IF Delayed(inc) = 6 THEN 0 ELSE Delayed(inc)
          BY <2>1 DEF Tick
        <5>2. Delayed(inc) = 5
          BY <3>3
        <5> HIDE DEF inc
        <5>3. QED
          BY <5>1, <5>2
      <4>3. QED
        BY <2>1, <4>1, <4>2
    <3>4. CASE ~(inc.overflow /\ Delayed(inc) = 5)
      <4>1. counter' = inc.counter
        BY <2>1, <3>4 DEF Tick
      <4>2. QED
        BY <4>1, <3>1, <3>2 DEF Increment
    <3>5. QED
      BY <3>3, <3>4
  <2>2. CASE WriteDIV
    <3>1. ~Watched(0, clk_sel)
      BY WatchedZero
    <3>2. QED
      BY <2>2, <3>1 DEF WriteDIV, Count, Increment, Signal
  <2>3. ASSUME NEW sel \in ClkSel, NEW on \in BOOLEAN, WriteTAC(sel, on)
        PROVE  Rule
    BY <2>3 DEF WriteTAC, Count, Increment, Signal
  <2>4. ASSUME NEW bit \in BOOLEAN, WriteIF(bit)
        PROVE  Rule
    BY <2>4 DEF WriteIF, Signal
  <2>5. QED
    BY <2>1, <2>2, <2>3, <2>4 DEF Next, Write
<1>2. QED
  BY <1>1, IInvInit, IInvStep, PTL DEF Spec, TimaCountsEdges

-----------------------------------------------------------------------------

BusIInv == IInv /\ age \in 0..Settled /\ DelayMatchesAge

\* The bus only restricts the timer: each of its steps is a step of the timer.
LEMMA BusStepIsTimerStep == [BusNext]_busVars => [Next]_vars
BY DEF BusNext, busVars, BusTick, BusClockWrite, BusWriteTIMA, BusWriteOther,
       BusReset, Next, Write

\* What the increment of a tick leaves, and the whole tick in terms of it.
TickPulse == /\ Signal(divider, clk_sel, enable)
             /\ ~Watched((divider + 1) % DivSize, clk_sel)

TickInc == Increment(TickPulse)

LEMMA TickMeaning ==
  ASSUME Tick
  PROVE  /\ divider' = (divider + 1) % DivSize
         /\ counter' = IF TickInc.overflow /\ Delayed(TickInc) = 5
                       THEN modulo ELSE TickInc.counter
         /\ overflow' = (TickInc.overflow /\ Delayed(TickInc) # 6)
         /\ ticks' = IF Delayed(TickInc) = 6 THEN 0 ELSE Delayed(TickInc)
         /\ requested' = (requested \/ Requests(TickInc))
         /\ UNCHANGED <<modulo, clk_sel, enable>>
BY DEF Tick, TickPulse, TickInc

\* A tick moves the age as it moves the timer's own delay.
LEMMA TickAge ==
  ASSUME BusIInv, BusTick
  PROVE  /\ TickInc.overflow \in BOOLEAN
         /\ TickInc.overflow => age' = Delayed(TickInc) /\ age' \in 1..6
         /\ ~TickInc.overflow => age' = 6 /\ Delayed(TickInc) = 0
<1>1. /\ divider' = (divider + 1) % DivSize
      /\ clk_sel' = clk_sel
      /\ enable' = enable
      /\ age' = IF Wraps THEN 1 ELSE IF age = 6 THEN 6 ELSE age + 1
  BY TickMeaning DEF BusTick, Settled
<1>2. Wraps <=> TickPulse /\ counter = TimaSize - 1
  BY <1>1 DEF Wraps, Signal, TickPulse
<1>3. /\ overflow \in BOOLEAN
      /\ overflow => age \in 0..5 /\ ticks = age
      /\ ~overflow => age = 6 /\ ticks = 0
  BY DEF BusIInv, IInv, Flags, DelayMatchesAge, Settled
<1>4. /\ TickInc.overflow = (overflow \/ (TickPulse /\ counter = TimaSize - 1))
      /\ TickInc.ticks = IF TickPulse /\ counter = TimaSize - 1 THEN 0 ELSE ticks
  BY DEF Increment, TickInc
<1>5. TickInc.overflow \in BOOLEAN
  BY <1>4, <1>3
<1>6. Delayed(TickInc) = IF TickInc.overflow THEN TickInc.ticks + 1
                                             ELSE TickInc.ticks
  BY DEF Delayed
<1>7. CASE Wraps
  <2>1. TickInc.overflow /\ TickInc.ticks = 0 /\ age' = 1
    BY <1>7, <1>1, <1>2, <1>4
  <2>2. QED
    BY <2>1, <1>5, <1>6
<1>8. CASE ~Wraps
  <2>1. /\ TickInc.overflow <=> overflow
        /\ TickInc.ticks = ticks
        /\ age' = IF age = 6 THEN 6 ELSE age + 1
    BY <1>8, <1>1, <1>2, <1>3, <1>4
  <2>2. QED
    BY <2>1, <1>3, <1>5, <1>6
<1>9. QED
  BY <1>7, <1>8

LEMMA BusIInvInit == BusInit => BusIInv
<1> SUFFICES ASSUME BusInit PROVE BusIInv
  OBVIOUS
<1>1. IInv
  BY IInvInit DEF BusInit
<1>2. age = 6 /\ overflow = FALSE /\ ticks = 0
  BY DEF BusInit, Init, Settled
<1>3. QED
  BY <1>1, <1>2 DEF BusIInv, DelayMatchesAge, Settled

LEMMA BusIInvStep == BusIInv /\ [BusNext]_busVars => BusIInv'
<1> SUFFICES ASSUME BusIInv, [BusNext]_busVars
             PROVE  BusIInv'
  OBVIOUS
<1>1. IInv'
  BY IInvStep, BusStepIsTimerStep DEF BusIInv
<1>2. /\ age \in 0..6
      /\ overflow \in BOOLEAN
      /\ ticks \in 0..5
      /\ overflow => age # 6 /\ ticks = age
      /\ ~overflow => age = 6 /\ ticks = 0
  BY DEF BusIInv, IInv, Numbers, Flags, DelayMatchesAge, Settled
<1> DEFINE Goal == age' \in 0..6 /\ DelayMatchesAge'
<1> HIDE DEF Goal
<1>3. ASSUME BusTick
      PROVE  Goal
  <2>1. /\ TickInc.overflow \in BOOLEAN
        /\ TickInc.overflow => age' = Delayed(TickInc) /\ age' \in 1..6
        /\ ~TickInc.overflow => age' = 6 /\ Delayed(TickInc) = 0
    BY <1>3, TickAge
  <2>2. /\ overflow' = (TickInc.overflow /\ Delayed(TickInc) # 6)
        /\ ticks' = IF Delayed(TickInc) = 6 THEN 0 ELSE Delayed(TickInc)
    BY <1>3, TickMeaning DEF BusTick
  <2>3. overflow' <=> age' # 6
    BY <2>1, <2>2
  <2>4. ticks' = IF age' # 6 THEN age' ELSE 0
    BY <2>1, <2>2
  <2>5. QED
    BY <2>1, <2>3, <2>4 DEF Goal, DelayMatchesAge, Settled
<1>4. ASSUME NEW pulse \in BOOLEAN, Count(pulse),
             Wraps <=> pulse /\ counter = TimaSize - 1,
             age' = IF Wraps THEN 0 ELSE age
      PROVE  Goal
  <2>1. /\ overflow' = (overflow \/ (pulse /\ counter = TimaSize - 1))
        /\ ticks' = IF pulse /\ counter = TimaSize - 1 THEN 0 ELSE ticks
    BY <1>4 DEF Count, Increment
  <2>2. CASE Wraps
    <3>1. overflow' /\ ticks' = 0 /\ age' = 0
      BY <1>4, <2>1, <2>2
    <3>2. QED
      BY <3>1 DEF Goal, DelayMatchesAge, Settled
  <2>3. CASE ~Wraps
    <3>1. (overflow' <=> overflow) /\ ticks' = ticks /\ age' = age
      BY <1>2, <1>4, <2>1, <2>3
    <3>2. QED
      BY <3>1, <1>2 DEF Goal, DelayMatchesAge, Settled
  <2>4. QED
    BY <2>2, <2>3
<1>5. ASSUME BusClockWrite
      PROVE  Goal
  <2>1. ASSUME WriteDIV
        PROVE  Goal
    <3>1. ~Watched(0, clk_sel)
      BY WatchedZero DEF BusIInv
    <3>2. Wraps <=> Signal(divider, clk_sel, enable) /\ counter = TimaSize - 1
      BY <2>1, <3>1 DEF WriteDIV, Wraps, Signal
    <3>3. Signal(divider, clk_sel, enable) \in BOOLEAN
      BY DEF Signal, BusIInv, IInv, Flags, Watched
    <3>4. Count(Signal(divider, clk_sel, enable))
      BY <2>1 DEF WriteDIV
    <3>5. age' = IF Wraps THEN 0 ELSE age
      BY <1>5 DEF BusClockWrite
    <3>6. QED
      BY <1>4, <3>2, <3>3, <3>4, <3>5
  <2>2. ASSUME NEW sel \in ClkSel, NEW on \in BOOLEAN, WriteTAC(sel, on)
        PROVE  Goal
    <3> DEFINE pulse == /\ enable
                        /\ Watched(divider, clk_sel)
                        /\ ~on \/ ~Watched(divider, sel)
    <3>1. pulse \in BOOLEAN
      BY DEF BusIInv, IInv, Flags, Watched
    <3>2. Wraps <=> pulse /\ counter = TimaSize - 1
      BY <2>2 DEF WriteTAC, Wraps, Signal
    <3>3. Count(pulse)
      BY <2>2 DEF WriteTAC
    <3>4. age' = IF Wraps THEN 0 ELSE age
      BY <1>5 DEF BusClockWrite
    <3> HIDE DEF pulse
    <3>5. QED
      BY <1>4, <3>1, <3>2, <3>3, <3>4
  <2>3. QED
    BY <1>5, <2>1, <2>2 DEF BusClockWrite
<1>6. ASSUME NEW v \in TimaInputs, BusWriteTIMA(v)
      PROVE  Goal
  <2>1. overflow' = FALSE /\ ticks' = 0 /\ age' = 6
    BY <1>6 DEF BusWriteTIMA, WriteTIMA, Settled
  <2>2. QED
    BY <2>1 DEF Goal, DelayMatchesAge, Settled
<1>7. ASSUME BusWriteOther \/ BusReset \/ UNCHANGED busVars
      PROVE  Goal
  <2>1. UNCHANGED <<overflow, ticks, age>>
    BY <1>7 DEF BusWriteOther, BusReset, WriteTMA, WriteIF, Reset, busVars, vars
  <2>2. QED
    BY <2>1, <1>2 DEF Goal, DelayMatchesAge, Settled
<1>8. Goal
  BY <1>3, <1>5, <1>6, <1>7 DEF BusNext
<1>9. QED
  BY <1>1, <1>8 DEF BusIInv, Settled, Goal

-----------------------------------------------------------------------------

\* On the bus, overflow and ticks_since_overflow always tell the time since
\* TIMA really wrapped.
THEOREM DelayIsTrue == BusSpec => [](TypeOK /\ DelayMatchesAge)
<1>1. BusIInv => TypeOK /\ DelayMatchesAge
  BY IInvMeaning DEF BusIInv
<1>2. QED
  BY <1>1, BusIInvInit, BusIInvStep, PTL DEF BusSpec

\* The bus keeps its type: in particular the age of an overflow and the gap
\* between two writes stay in their ranges.
THEOREM BusTypeCorrect == BusSpec => []BusTypeOK
<1> DEFINE GapOK == gap \in 0..WriteSpacing
<1>1. BusInit => GapOK
  BY DEF BusInit, WriteSpacing
<1>2. GapOK /\ [BusNext]_busVars => GapOK'
  BY DEF BusNext, BusTick, BusClockWrite, BusWriteTIMA, BusWriteOther, BusReset,
         busVars, WriteSpacing
<1>3. BusIInv /\ GapOK => BusTypeOK
  BY IInvMeaning DEF BusIInv, BusTypeOK, Settled
<1>4. QED
  BY <1>1, <1>2, <1>3, BusIInvInit, BusIInvStep, PTL DEF BusSpec

\* The timer interrupt is requested on the fourth tick after a wrap that was
\* not called off, and on no other tick.
THEOREM InterruptIsOnTime == BusSpec => InterruptOnTime
<1> DEFINE Rule == BusTick => (requested' <=> requested \/ age' = Delays.irq)
<1>1. BusIInv /\ [BusNext]_busVars => [Rule]_busVars
  <2> SUFFICES ASSUME BusIInv, BusTick
               PROVE  requested' <=> requested \/ age' = 4
    OBVIOUS
  <2>1. requested' = (requested \/ Requests(TickInc))
    BY TickMeaning DEF BusTick
  <2>2. Requests(TickInc) <=> TickInc.overflow /\ Delayed(TickInc) = 4
    BY DEF Requests
  <2>3. Requests(TickInc) <=> age' = 4
    BY <2>2, TickAge
  <2>4. QED
    BY <2>1, <2>3
<1>2. QED
  BY <1>1, BusIInvInit, BusIInvStep, PTL DEF BusSpec, InterruptOnTime

\* TMA reaches TIMA on the fifth tick, and stays equal to it through every
\* write to TMA, TIMA or IF before the next tick.
THEOREM ReloadIsVisible == BusSpec => ReloadWindow
<1> DEFINE Rule ==
      /\ BusTick /\ age' = Delays.reload => counter' = modulo
      /\ (BusWriteOther \/ \E v \in TimaInputs : BusWriteTIMA(v)) =>
           (age = Delays.reload /\ counter = modulo => counter' = modulo')
<1>1. BusIInv /\ [BusNext]_busVars => [Rule]_busVars
  <2> SUFFICES ASSUME BusIInv
               PROVE  Rule
    OBVIOUS
  <2>1. ASSUME BusTick, age' = 5
        PROVE  counter' = modulo
    <3>1. TickInc.overflow /\ Delayed(TickInc) = 5
      BY <2>1, TickAge
    <3>2. QED
      BY <3>1, <2>1, TickMeaning DEF BusTick
  <2>2. age = 5 => ticks = 5
    BY DEF BusIInv, DelayMatchesAge, Settled
  <2>3. ASSUME BusWriteOther, age = 5, counter = modulo
        PROVE  counter' = modulo'
    BY <2>2, <2>3 DEF BusWriteOther, WriteTMA, WriteIF
  <2>4. ASSUME NEW v \in TimaInputs, BusWriteTIMA(v), age = 5
        PROVE  FALSE
    BY <2>2, <2>4 DEF BusWriteTIMA, WriteTIMA
  <2>5. QED
    BY <2>1, <2>3, <2>4
<1>2. QED
  BY <1>1, BusIInvInit, BusIInvStep, PTL DEF BusSpec, ReloadWindow

\* The edge rule holds on the bus as well.
THEOREM BusCountsEdges == BusSpec => TimaCountsEdges
<1>1. BusInit => Init
  BY DEF BusInit
<1>2. BusSpec => Spec
  BY <1>1, BusStepIsTimerStep, PTL DEF BusSpec, Spec
<1>3. QED
  BY <1>2, TimerCountsEdges
==============================================================================
