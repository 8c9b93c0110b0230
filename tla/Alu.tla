-------------------------------- MODULE Alu --------------------------------
(***************************************************************************)
(* The arithmetic of the instruction set (lib/cpu.c, the static inline     *)
(* helpers): what each operation makes of its operands and of the flags.   *)
(*                                                                         *)
(* An operation gives a record: v, the byte or word it returns, and f, the *)
(* four flags it leaves in the upper half of F.  The lower half of F is 0  *)
(* throughout (fgb_cpu_reset and fgb_pop_af see to it) and left out.       *)
(***************************************************************************)
EXTENDS Integers

Byte == 0..255
Word == 0..65535
Bit == 0..1

Flags == [z: Bit, n: Bit, h: Bit, c: Bit]

If(cond) == IF cond THEN 1 ELSE 0

Zero(v) == If(v = 0)

Lo(w) == w % 256
Hi(w) == w \div 256
Nibble(v) == v % 16
Pair(hi, lo) == 256 * hi + lo

\* (int8_t): the signed value of a byte.
Signed(b) == IF b < 128 THEN b ELSE b - 256

Power == [i \in 0..7 |-> <<1, 2, 4, 8, 16, 32, 64, 128>>[i + 1]]
BitOf(v, i) == (v \div Power[i]) % 2

FromBits(b) ==
  b[0] + 2 * b[1] + 4 * b[2] + 8 * b[3] + 16 * b[4] + 32 * b[5] + 64 * b[6] + 128 * b[7]

-----------------------------------------------------------------------------

Inc8(f, v) ==
  LET w == (v + 1) % 256 IN
  [v |-> w, f |-> [f EXCEPT !.z = Zero(w), !.n = 0, !.h = If(Nibble(v) = 15)]]

Dec8(f, v) ==
  LET w == (v - 1) % 256 IN
  [v |-> w, f |-> [f EXCEPT !.z = Zero(w), !.n = 1, !.h = If(Nibble(v) = 0)]]

Sum(a, b, carry) ==
  LET w == (a + b + carry) % 256 IN
  [v |-> w,
   f |-> [z |-> Zero(w), n |-> 0,
          h |-> If(Nibble(a) + Nibble(b) + carry > 15), c |-> If(a + b + carry > 255)]]

Difference(a, b, carry) ==
  LET w == (a - b - carry) % 256 IN
  [v |-> w,
   f |-> [z |-> Zero(w), n |-> 1,
          h |-> If(Nibble(b) + carry > Nibble(a)), c |-> If(b + carry > a)]]

Add(f, a, b) == Sum(a, b, 0)
Adc(f, a, b) == Sum(a, b, f.c)
Sub(f, a, b) == Difference(a, b, 0)

Sbc(f, a, b) == Difference(a, b, f.c)

Logic(w, h) == [v |-> w, f |-> [z |-> Zero(w), n |-> 0, h |-> h, c |-> 0]]

And8(f, a, b) == Logic(FromBits([i \in 0..7 |-> BitOf(a, i) * BitOf(b, i)]), 1)
Xor8(f, a, b) == Logic(FromBits([i \in 0..7 |-> (BitOf(a, i) + BitOf(b, i)) % 2]), 0)
Or8(f, a, b) ==
  Logic(FromBits([i \in 0..7 |-> BitOf(a, i) + BitOf(b, i) - BitOf(a, i) * BitOf(b, i)]), 0)

\* Mutant of Add16: the half carry comes from bit 7.
Add16LowHalf(f, a, b) ==
  [v |-> (a + b) % 65536,
   f |-> [f EXCEPT !.n = 0, !.h = If(Lo(a) + Lo(b) > 255), !.c = If(a + b > 65535)]]

\* ADD HL,rr: Z is left alone, H is the carry out of bit 11.
Add16(f, a, b) ==
  [v |-> (a + b) % 65536,
   f |-> [f EXCEPT !.n = 0, !.h = If((a % 4096) + (b % 4096) > 4095), !.c = If(a + b > 65535)]]

\* ADD SP,e and LD HL,SP+e: a signed sum with the carries of an unsigned one.
AddSigned(w, e) ==
  [v |-> (w + Signed(e)) % 65536,
   f |-> [z |-> 0, n |-> 0, h |-> If(Nibble(w) + Nibble(e) > 15), c |-> If(Lo(w) + e > 255)]]

-----------------------------------------------------------------------------

\* What the rotations and shifts leave: the bit shifted out is the carry.
Shifted(w, out) == [v |-> w, f |-> [z |-> Zero(w), n |-> 0, h |-> 0, c |-> out]]

Rlc(f, v) == Shifted(((2 * v) % 256) + v \div 128, v \div 128)
Rrc(f, v) == Shifted(v \div 2 + 128 * (v % 2), v % 2)
Rl(f, v) == Shifted(((2 * v) % 256) + f.c, v \div 128)
Rr(f, v) == Shifted(v \div 2 + 128 * f.c, v % 2)
Sla(f, v) == Shifted((2 * v) % 256, v \div 128)
Sra(f, v) == Shifted(v \div 2 + 128 * (v \div 128), v % 2)
Swap(f, v) == Shifted(16 * Nibble(v) + v \div 16, 0)
Srl(f, v) == Shifted(v \div 2, v % 2)

\* RLCA, RRCA, RLA and RRA clear Z whatever the result.
ZCleared(x) == [x EXCEPT !.f.z = 0]

TestBit(f, i, v) == [f EXCEPT !.z = If(BitOf(v, i) = 0), !.n = 0, !.h = 1]
ResetBit(v, i) == v - Power[i] * BitOf(v, i)
SetBit(v, i) == v + Power[i] * (1 - BitOf(v, i))

\* Mutant of Daa: the high digit is tested after the low one was corrected.
DaaTestsLate(f, a) ==
  LET low == IF f.h = 1 \/ (f.n = 0 /\ Nibble(a) > 9) THEN 6 ELSE 0
      high == IF f.c = 1 \/ (f.n = 0 /\ (a + low) % 256 > 153) THEN 96 ELSE 0
      w == (IF f.n = 1 THEN a - low - high ELSE a + low + high) % 256
  IN [v |-> w, f |-> [f EXCEPT !.z = Zero(w), !.h = 0, !.c = If(high = 96)]]

\* DAA: corrects a sum or a difference of decimal digits; only a sum sets C.
Daa(f, a) ==
  LET low == IF f.h = 1 \/ (f.n = 0 /\ Nibble(a) > 9) THEN 6 ELSE 0
      high == IF f.c = 1 \/ (f.n = 0 /\ a > 153) THEN 96 ELSE 0
      w == (IF f.n = 1 THEN a - low - high ELSE a + low + high) % 256
  IN [v |-> w, f |-> [f EXCEPT !.z = Zero(w), !.h = 0, !.c = If(high = 96)]]

Cpl(f, a) == [v |-> 255 - a, f |-> [f EXCEPT !.n = 1, !.h = 1]]
Scf(f, a) == [v |-> a, f |-> [f EXCEPT !.n = 0, !.h = 0, !.c = 1]]
Ccf(f, a) == [v |-> a, f |-> [f EXCEPT !.n = 0, !.h = 0, !.c = 1 - @]]
=============================================================================
