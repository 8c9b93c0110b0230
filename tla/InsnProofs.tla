----------------------------- MODULE InsnProofs -----------------------------
(***************************************************************************)
(* What the instructions guarantee for every register, flag, operand and   *)
(* memory byte.                                                            *)
(*                                                                         *)
(* The first part states what each operation of Alu returns: a byte or a   *)
(* word, and four flags of one bit.  With it every instruction keeps the   *)
(* registers in their widths.  The decimal sums need more, that A and the  *)
(* flags are still those of the last sum or difference (SumHeld).  In the  *)
(* last part the bytes of a tidy program's stack are a stack of words.     *)
(***************************************************************************)
EXTENDS Instructions, SequenceTheorems, TLAPS

-----------------------------------------------------------------------------
(* The operations. *)

LEMMA Powers ==
  /\ Power[0] = 1 /\ Power[1] = 2 /\ Power[2] = 4 /\ Power[3] = 8
  /\ Power[4] = 16 /\ Power[5] = 32 /\ Power[6] = 64 /\ Power[7] = 128
BY DEF Power

LEMMA Halved ==
  ASSUME NEW d \in Nat
  PROVE  d = 2 * (d \div 2) + (d % 2) /\ d \div 2 \in Nat /\ d % 2 \in Bit
BY DEF Bit

LEMMA BitsOfByte ==
  ASSUME NEW v \in Byte, NEW p \in {1, 2, 4, 8, 16, 32, 64, 128}
  PROVE  LET bit == (v \div p) % 2 IN
         bit \in Bit /\ p * bit <= v /\ v + p * (1 - bit) \in Byte
<1>1. CASE p = 1
  <2>1. v = 1 * (v \div 1) + (v % 1) /\ v \div 1 \in Nat /\ v % 1 \in 0..0
    BY DEF Byte
  <2>2. v \div 1 = 2 * ((v \div 1) \div 2) + ((v \div 1) % 2)
        /\ (v \div 1) \div 2 \in Nat /\ (v \div 1) % 2 \in Bit
    BY <2>1, Halved
  <2> QED
    BY <1>1, <2>1, <2>2 DEF Byte, Bit
<1>2. CASE p = 2
  <2>1. v = 2 * (v \div 2) + (v % 2) /\ v \div 2 \in Nat /\ v % 2 \in 0..1
    BY DEF Byte
  <2>2. v \div 2 = 2 * ((v \div 2) \div 2) + ((v \div 2) % 2)
        /\ (v \div 2) \div 2 \in Nat /\ (v \div 2) % 2 \in Bit
    BY <2>1, Halved
  <2> QED
    BY <1>2, <2>1, <2>2 DEF Byte, Bit
<1>3. CASE p = 4
  <2>1. v = 4 * (v \div 4) + (v % 4) /\ v \div 4 \in Nat /\ v % 4 \in 0..3
    BY DEF Byte
  <2>2. v \div 4 = 2 * ((v \div 4) \div 2) + ((v \div 4) % 2)
        /\ (v \div 4) \div 2 \in Nat /\ (v \div 4) % 2 \in Bit
    BY <2>1, Halved
  <2> QED
    BY <1>3, <2>1, <2>2 DEF Byte, Bit
<1>4. CASE p = 8
  <2>1. v = 8 * (v \div 8) + (v % 8) /\ v \div 8 \in Nat /\ v % 8 \in 0..7
    BY DEF Byte
  <2>2. v \div 8 = 2 * ((v \div 8) \div 2) + ((v \div 8) % 2)
        /\ (v \div 8) \div 2 \in Nat /\ (v \div 8) % 2 \in Bit
    BY <2>1, Halved
  <2> QED
    BY <1>4, <2>1, <2>2 DEF Byte, Bit
<1>5. CASE p = 16
  <2>1. v = 16 * (v \div 16) + (v % 16) /\ v \div 16 \in Nat /\ v % 16 \in 0..15
    BY DEF Byte
  <2>2. v \div 16 = 2 * ((v \div 16) \div 2) + ((v \div 16) % 2)
        /\ (v \div 16) \div 2 \in Nat /\ (v \div 16) % 2 \in Bit
    BY <2>1, Halved
  <2> QED
    BY <1>5, <2>1, <2>2 DEF Byte, Bit
<1>6. CASE p = 32
  <2>1. v = 32 * (v \div 32) + (v % 32) /\ v \div 32 \in Nat /\ v % 32 \in 0..31
    BY DEF Byte
  <2>2. v \div 32 = 2 * ((v \div 32) \div 2) + ((v \div 32) % 2)
        /\ (v \div 32) \div 2 \in Nat /\ (v \div 32) % 2 \in Bit
    BY <2>1, Halved
  <2> QED
    BY <1>6, <2>1, <2>2 DEF Byte, Bit
<1>7. CASE p = 64
  <2>1. v = 64 * (v \div 64) + (v % 64) /\ v \div 64 \in Nat /\ v % 64 \in 0..63
    BY DEF Byte
  <2>2. v \div 64 = 2 * ((v \div 64) \div 2) + ((v \div 64) % 2)
        /\ (v \div 64) \div 2 \in Nat /\ (v \div 64) % 2 \in Bit
    BY <2>1, Halved
  <2> QED
    BY <1>7, <2>1, <2>2 DEF Byte, Bit
<1>8. CASE p = 128
  <2>1. v = 128 * (v \div 128) + (v % 128) /\ v \div 128 \in Nat /\ v % 128 \in 0..127
    BY DEF Byte
  <2>2. v \div 128 = 2 * ((v \div 128) \div 2) + ((v \div 128) % 2)
        /\ (v \div 128) \div 2 \in Nat /\ (v \div 128) % 2 \in Bit
    BY <2>1, Halved
  <2> QED
    BY <1>8, <2>1, <2>2 DEF Byte, Bit
<1> QED
  BY <1>1, <1>2, <1>3, <1>4, <1>5, <1>6, <1>7, <1>8

LEMMA BitFacts ==
  ASSUME NEW v \in Byte, NEW i \in 0..7
  PROVE  /\ BitOf(v, i) \in Bit
         /\ Power[i] * BitOf(v, i) <= v
         /\ v + Power[i] * (1 - BitOf(v, i)) \in Byte
<1>1. Power[i] \in {1, 2, 4, 8, 16, 32, 64, 128}
  BY Powers
<1> QED
  BY <1>1, BitsOfByte DEF BitOf

LEMMA FromBitsRange ==
  ASSUME NEW b \in [0..7 -> Bit]
  PROVE  FromBits(b) \in Byte
BY DEF FromBits, Bit, Byte

LEMMA IfBit ==
  ASSUME NEW cond
  PROVE  If(cond) \in Bit
BY DEF If, Bit

LEMMA FlagFields ==
  ASSUME NEW g \in Flags
  PROVE  g.z \in Bit /\ g.n \in Bit /\ g.h \in Bit /\ g.c \in Bit
BY DEF Flags

LEMMA FlagsMade ==
  ASSUME NEW z \in Bit, NEW n \in Bit, NEW h \in Bit, NEW c \in Bit
  PROVE  [z |-> z, n |-> n, h |-> h, c |-> c] \in Flags
BY DEF Flags

\* Some of the flags changed.
LEMMA FlagsZNH ==
  ASSUME NEW g \in Flags, NEW z \in Bit, NEW n \in Bit, NEW h \in Bit
  PROVE  [g EXCEPT !.z = z, !.n = n, !.h = h] \in Flags
BY DEF Flags

LEMMA FlagsNHC ==
  ASSUME NEW g \in Flags, NEW n \in Bit, NEW h \in Bit, NEW c \in Bit
  PROVE  [g EXCEPT !.n = n, !.h = h, !.c = c] \in Flags
BY DEF Flags

LEMMA FlagsZHC ==
  ASSUME NEW g \in Flags, NEW z \in Bit, NEW h \in Bit, NEW c \in Bit
  PROVE  [g EXCEPT !.z = z, !.h = h, !.c = c] \in Flags
BY DEF Flags

LEMMA FlagsNH ==
  ASSUME NEW g \in Flags, NEW n \in Bit, NEW h \in Bit
  PROVE  [g EXCEPT !.n = n, !.h = h] \in Flags
BY DEF Flags

LEMMA Bits == 0 \in Bit /\ 1 \in Bit
BY DEF Bit

\* A result: a byte and its flags.
Good(x) == x.v \in Byte /\ x.f \in Flags

LEMMA SumGood ==
  ASSUME NEW a \in Byte, NEW b \in Byte, NEW carry \in Bit
  PROVE  Good(Sum(a, b, carry)) /\ Good(Difference(a, b, carry))
<1>1. (a + b + carry) % 256 \in Byte /\ (a - b - carry) % 256 \in Byte
  BY DEF Byte, Bit
<1> QED
  BY <1>1 DEF Good, Sum, Difference, Flags, Zero, If, Bit

LEMMA IncDecGood ==
  ASSUME NEW g \in Flags, NEW v \in Byte
  PROVE  Good(Inc8(g, v)) /\ Good(Dec8(g, v))
<1>1. (v + 1) % 256 \in Byte /\ (v - 1) % 256 \in Byte
  BY DEF Byte
<1>2. [g EXCEPT !.z = Zero((v + 1) % 256), !.n = 0, !.h = If(Nibble(v) = 15)] \in Flags
  BY FlagsZNH, IfBit, Bits DEF Zero
<1>3. [g EXCEPT !.z = Zero((v - 1) % 256), !.n = 1, !.h = If(Nibble(v) = 0)] \in Flags
  BY FlagsZNH, IfBit, Bits DEF Zero
<1> QED
  BY <1>1, <1>2, <1>3 DEF Good, Inc8, Dec8

LEMMA LogicGood ==
  ASSUME NEW g \in Flags, NEW a \in Byte, NEW b \in Byte
  PROVE  Good(And8(g, a, b)) /\ Good(Xor8(g, a, b)) /\ Good(Or8(g, a, b))
<1>1. \A i \in 0..7 : BitOf(a, i) \in Bit /\ BitOf(b, i) \in Bit
  BY BitFacts
<1>2. \A w \in Byte, h \in Bit : Good(Logic(w, h))
  BY DEF Good, Logic, Flags, Zero, If, Bit
<1>3. [i \in 0..7 |-> BitOf(a, i) * BitOf(b, i)] \in [0..7 -> Bit]
  BY <1>1 DEF Bit
<1>4. [i \in 0..7 |-> (BitOf(a, i) + BitOf(b, i)) % 2] \in [0..7 -> Bit]
  BY <1>1 DEF Bit
<1>5. [i \in 0..7 |-> BitOf(a, i) + BitOf(b, i) - BitOf(a, i) * BitOf(b, i)] \in [0..7 -> Bit]
  BY <1>1 DEF Bit
<1>6. 0 \in Bit /\ 1 \in Bit
  BY DEF Bit
<1> QED
  BY <1>2, <1>3, <1>4, <1>5, <1>6, FromBitsRange DEF And8, Xor8, Or8

LEMMA ShiftGood ==
  ASSUME NEW g \in Flags, NEW v \in Byte
  PROVE  /\ Good(Rlc(g, v)) /\ Good(Rrc(g, v)) /\ Good(Rl(g, v)) /\ Good(Rr(g, v))
         /\ Good(Sla(g, v)) /\ Good(Sra(g, v)) /\ Good(Swap(g, v)) /\ Good(Srl(g, v))
<1>1. \A w \in Byte, out \in Bit : Good(Shifted(w, out))
  BY DEF Good, Shifted, Flags, Zero, If, Bit
<1>2. g.c \in Bit
  BY FlagFields
<1>3. v \div 128 \in Bit /\ v % 2 \in Bit /\ 0 \in Bit
  BY DEF Byte, Bit
<1>4. /\ ((2 * v) % 256) + v \div 128 \in Byte
      /\ v \div 2 + 128 * (v % 2) \in Byte
      /\ ((2 * v) % 256) + g.c \in Byte
      /\ v \div 2 + 128 * g.c \in Byte
      /\ (2 * v) % 256 \in Byte
      /\ v \div 2 + 128 * (v \div 128) \in Byte
      /\ 16 * Nibble(v) + v \div 16 \in Byte
      /\ v \div 2 \in Byte
  BY <1>2 DEF Byte, Bit, Nibble
<1> QED
  BY <1>1, <1>3, <1>4 DEF Rlc, Rrc, Rl, Rr, Sla, Sra, Swap, Srl

LEMMA OnAGood ==
  ASSUME NEW g \in Flags, NEW a \in Byte
  PROVE  Good(Daa(g, a)) /\ Good(Cpl(g, a)) /\ Good(Scf(g, a)) /\ Good(Ccf(g, a))
<1>1. Good(Cpl(g, a))
  <2>1. 255 - a \in Byte
    BY DEF Byte
  <2> QED
    BY <2>1, FlagsNH, Bits DEF Good, Cpl
<1>2. Good(Scf(g, a))
  BY FlagsNHC, Bits DEF Good, Scf
<1>3. Good(Ccf(g, a))
  <2>1. 1 - g.c \in Bit
    BY FlagFields DEF Bit
  <2>2. Ccf(g, a) = [v |-> a, f |-> [g EXCEPT !.n = 0, !.h = 0, !.c = 1 - g.c]]
    BY DEF Ccf, Flags
  <2>3. [g EXCEPT !.n = 0, !.h = 0, !.c = 1 - g.c] \in Flags
    BY <2>1, FlagsNHC, Bits
  <2> QED
    BY <2>2, <2>3 DEF Good
<1>4. Good(Daa(g, a))
  <2>1. \A x \in Int : x % 256 \in Byte
    BY DEF Byte
  <2> DEFINE low == IF g.h = 1 \/ (g.n = 0 /\ Nibble(a) > 9) THEN 6 ELSE 0
             high == IF g.c = 1 \/ (g.n = 0 /\ a > 153) THEN 96 ELSE 0
             w == IF g.n = 1 THEN a - low - high ELSE a + low + high
  <2>2. w \in Int /\ high \in Int
    BY DEF Byte
  <2> HIDE DEF w, high
  <2>3. Daa(g, a) = [v |-> w % 256,
                     f |-> [g EXCEPT !.z = Zero(w % 256), !.h = 0, !.c = If(high = 96)]]
    BY DEF Daa, w, high
  <2>4. [g EXCEPT !.z = Zero(w % 256), !.h = 0, !.c = If(high = 96)] \in Flags
    BY FlagsZHC, IfBit, Bits DEF Zero
  <2> QED
    BY <2>1, <2>2, <2>3, <2>4 DEF Good
<1> QED
  BY <1>1, <1>2, <1>3, <1>4

LEMMA WideGood ==
  ASSUME NEW g \in Flags, NEW a \in Word, NEW b \in Word, NEW e \in Byte
  PROVE  /\ Add16(g, a, b).v \in Word /\ Add16(g, a, b).f \in Flags
         /\ AddSigned(a, e).v \in Word /\ AddSigned(a, e).f \in Flags
<1>1. \A x \in Int : x % 65536 \in Word
  BY DEF Word
<1>2. a + b \in Int /\ a + Signed(e) \in Int
  BY DEF Word, Signed, Byte
<1>3. Add16(g, a, b).v \in Word
  BY <1>1, <1>2 DEF Add16
<1>4. Add16(g, a, b).f \in Flags
  <2>1. If((a % 4096) + (b % 4096) > 4095) \in Bit /\ If(a + b > 65535) \in Bit
    BY DEF If, Bit
  <2> DEFINE h == If((a % 4096) + (b % 4096) > 4095)
             c == If(a + b > 65535)
  <2>2. Add16(g, a, b).f = [g EXCEPT !.n = 0, !.h = h, !.c = c]
    BY DEF Add16
  <2> HIDE DEF h, c
  <2>3. h \in Bit /\ c \in Bit
    BY <2>1 DEF h, c
  <2>4. \A x \in Bit, y \in Bit : [g EXCEPT !.n = 0, !.h = x, !.c = y] \in Flags
    BY FlagsNHC, Bits
  <2> QED
    BY <2>2, <2>3, <2>4
<1>5. AddSigned(a, e).v \in Word
  BY <1>1, <1>2 DEF AddSigned
<1>6. AddSigned(a, e).f \in Flags
  BY FlagsMade, IfBit, Bits DEF AddSigned
<1> QED
  BY <1>3, <1>4, <1>5, <1>6

LEMMA HalvesOfWord ==
  ASSUME NEW w \in Word
  PROVE  Lo(w) \in Byte /\ Hi(w) \in Byte /\ Pair(Hi(w), Lo(w)) = w
BY DEF Word, Byte, Lo, Hi, Pair

LEMMA PairRange ==
  ASSUME NEW hi \in Byte, NEW lo \in Byte
  PROVE  Pair(hi, lo) \in Word /\ Hi(Pair(hi, lo)) = hi /\ Lo(Pair(hi, lo)) = lo
BY DEF Word, Byte, Lo, Hi, Pair

LEMMA WordRange ==
  ASSUME NEW x \in Int
  PROVE  W(x) \in Word
BY DEF W, Word

-----------------------------------------------------------------------------
(* The state, and what the helpers of the instructions do to it. *)

MemoryType ==
  /\ sp \in Word
  /\ DOMAIN mem \subseteq Word
  /\ mem \in [DOMAIN mem -> Byte]
  /\ tidy \in BOOLEAN

RegistersType == r \in [Reg -> Byte] /\ f \in Flags

ControlType ==
  /\ pc \in Word
  /\ ime \in BOOLEAN
  /\ mode \in Modes
  /\ insn \in Insn
  /\ cycles \in 0..6
  /\ steps \in 0..MaxSteps

RecordType == depth \in Nat /\ arith \in Ariths

LEMMA TypeParts == InsnTypeOK <=> MemoryType /\ RegistersType /\ ControlType /\ RecordType
BY DEF InsnTypeOK, MemoryType, RegistersType, ControlType, RecordType

LEMMA InitTypes == Init => InsnTypeOK
<1> SUFFICES ASSUME Init PROVE InsnTypeOK
  OBVIOUS
<1> USE InsnAssumption DEF InsnAssumption
<1>1. MemoryType
  BY DEF Init, MemoryType
<1>2. RegistersType
  BY DEF Init, RegistersType
<1>3. ControlType
  <2>1. /\ pc = Entry /\ ime = FALSE /\ mode = "NORMAL" /\ insn = 0
        /\ cycles = 0 /\ steps = 0
    BY DEF Init
  <2>2. insn \in Insn /\ mode \in Modes
    BY <2>1 DEF Insn, Modes
  <2>3. ime \in BOOLEAN
    BY <2>1
  <2>4. pc \in Word /\ cycles \in 0..6 /\ steps \in 0..MaxSteps
    BY <2>1
  <2> QED
    BY <2>2, <2>3, <2>4 DEF ControlType
<1>4. arith \in Ariths
  BY DEF Init, NoArith, Ariths, Byte, Bit
<1>5. RecordType
  BY <1>4 DEF Init, RecordType
<1> QED
  BY <1>1, <1>2, <1>3, <1>5, TypeParts

\* What memory gives is a byte.
LEMMA LoadedType ==
  ASSUME MemoryType, NEW a
  PROVE  Loaded(a) \subseteq Byte
BY InsnAssumption DEF InsnAssumption, MemoryType, Loaded

LEMMA StartWord ==
  ASSUME ControlType
  PROVE  Start \in Word
<1>1. pc \in Int
  BY DEF ControlType, Word
<1> QED
  BY <1>1, WordRange DEF Start

LEMMA OperandTypes ==
  ASSUME MemoryType
  PROVE  Imm8 \subseteq Byte /\ Imm16 \subseteq Word /\ Popped \subseteq Word
<1>1. Imm8 \subseteq Byte
  BY LoadedType DEF Imm8
<1>2. Imm16 \subseteq Word
  BY LoadedType, PairRange DEF Imm16
<1>3. Popped \subseteq Word
  BY LoadedType, PairRange DEF Popped
<1> QED
  BY <1>1, <1>2, <1>3

LEMMA StoredType ==
  ASSUME NEW m, DOMAIN m \subseteq Word, m \in [DOMAIN m -> Byte],
         NEW a \in Word, NEW v \in Byte
  PROVE  /\ DOMAIN Stored(m, a, v) \subseteq Word
         /\ Stored(m, a, v) \in [DOMAIN Stored(m, a, v) -> Byte]
BY DEF Stored

LEMMA WriteType ==
  ASSUME MemoryType, NEW a \in Word, NEW v \in Byte, Write(a, v)
  PROVE  MemoryType'
<1>1. tidy' \in BOOLEAN
  BY Zenon DEF Write
<1> QED
  BY <1>1, StoredType DEF Write, MemoryType

LEMMA WriteWordType ==
  ASSUME MemoryType, NEW a \in Word, NEW w \in Word, WriteWord(a, w)
  PROVE  MemoryType'
<1>1. tidy' \in BOOLEAN
  BY Zenon DEF WriteWord
<1>2. W(a + 1) \in Word
  <2>1. a + 1 \in Int
    BY DEF Word
  <2> QED
    BY <2>1, WordRange
<1>3. Lo(w) \in Byte /\ Hi(w) \in Byte
  BY HalvesOfWord
<1> DEFINE m == Stored(mem, a, Lo(w))
<1>4. DOMAIN m \subseteq Word /\ m \in [DOMAIN m -> Byte]
  BY <1>3, StoredType DEF MemoryType
<1> HIDE DEF m
<1>5. DOMAIN Stored(m, W(a + 1), Hi(w)) \subseteq Word
      /\ Stored(m, W(a + 1), Hi(w)) \in [DOMAIN Stored(m, W(a + 1), Hi(w)) -> Byte]
  BY <1>2, <1>3, <1>4, StoredType
<1>6. mem' = Stored(m, W(a + 1), Hi(w)) /\ sp' = sp
  BY DEF WriteWord, m
<1> QED
  BY <1>1, <1>5, <1>6 DEF MemoryType

LEMMA PushType ==
  ASSUME MemoryType, NEW w \in Word, Push(w)
  PROVE  MemoryType'
<1>1. tidy' \in BOOLEAN
  BY Zenon DEF Push
<1>2. W(sp - 1) \in Word /\ W(sp - 2) \in Word
  <2>1. sp \in Word
    BY DEF MemoryType
  <2>2. sp - 1 \in Int /\ sp - 2 \in Int
    BY <2>1 DEF Word
  <2> QED
    BY <2>2, WordRange
<1>3. Lo(w) \in Byte /\ Hi(w) \in Byte
  BY HalvesOfWord
<1> DEFINE m == Stored(mem, W(sp - 1), Hi(w))
<1>4. DOMAIN m \subseteq Word /\ m \in [DOMAIN m -> Byte]
  BY <1>2, <1>3, StoredType DEF MemoryType
<1> HIDE DEF m
<1>5. DOMAIN Stored(m, W(sp - 2), Lo(w)) \subseteq Word
      /\ Stored(m, W(sp - 2), Lo(w)) \in [DOMAIN Stored(m, W(sp - 2), Lo(w)) -> Byte]
  BY <1>2, <1>3, <1>4, StoredType
<1>6. mem' = Stored(m, W(sp - 2), Lo(w)) /\ sp' = W(sp - 2)
  BY DEF Push, m
<1> QED
  BY <1>1, <1>2, <1>5, <1>6 DEF MemoryType

LEMMA PopType ==
  ASSUME MemoryType, Pop
  PROVE  MemoryType'
<1>1. tidy' \in BOOLEAN
  BY Zenon DEF Pop
<1>2. W(sp + 2) \in Word
  <2>1. sp \in Word
    BY DEF MemoryType
  <2>2. sp + 2 \in Int
    BY <2>1 DEF Word
  <2> QED
    BY <2>2, WordRange
<1> QED
  BY <1>1, <1>2 DEF Pop, MemoryType

LEMMA SetSpType ==
  ASSUME MemoryType, NEW w \in Word, SetSp(w)
  PROVE  MemoryType'
<1>1. tidy' \in BOOLEAN
  BY Zenon DEF SetSp
<1> QED
  BY <1>1 DEF SetSp, MemoryType

LEMMA MemoryKept ==
  ASSUME MemoryType, UNCHANGED memory
  PROVE  MemoryType'
BY DEF MemoryType, memory

\* The fields of an opcode.
LEMMA OpFields ==
  ASSUME NEW op \in Byte
  PROVE  X(op) \in 0..3 /\ Y(op) \in 0..7 /\ Z(op) \in 0..7 /\ P(op) \in 0..3 /\ op \in Insn
BY DEF Byte, X, Y, Z, P, Insn

LEMMA RegNames ==
  /\ \A i \in 0..7 : i # 6 => Reg8[i + 1] \in Reg
  /\ \A p \in 0..3 : p # 3 => HighOf[p + 1] \in Reg /\ LowOf[p + 1] \in Reg
  /\ "a" \in Reg /\ "c" \in Reg
<1>1. \A i \in 0..7 : i # 6 => Reg8[i + 1] \in Reg
  BY DEF Reg8, Reg
<1>2. \A p \in 0..3 : p # 3 => HighOf[p + 1] \in Reg /\ LowOf[p + 1] \in Reg
  BY DEF HighOf, LowOf, Reg
<1> QED
  BY <1>1, <1>2 DEF Reg

LEMMA PairOfType ==
  ASSUME MemoryType, RegistersType, NEW p \in 0..3
  PROVE  PairOf(p) \in Word
<1>1. CASE p = 3
  BY <1>1 DEF PairOf, MemoryType
<1>2. CASE p # 3
  <2>1. r[HighOf[p + 1]] \in Byte /\ r[LowOf[p + 1]] \in Byte
    BY <1>2, RegNames DEF RegistersType
  <2> QED
    BY <1>2, <2>1, PairRange DEF PairOf
<1> QED
  BY <1>1, <1>2

LEMMA HLType ==
  ASSUME MemoryType, RegistersType
  PROVE  HL \in Word
BY PairOfType DEF HL

LEMMA WithPairType ==
  ASSUME RegistersType, NEW p \in 0..3, p # 3, NEW w \in Word
  PROVE  WithPair(p, w) \in [Reg -> Byte]
<1>1. Lo(w) \in Byte /\ Hi(w) \in Byte
  BY HalvesOfWord
<1> QED
  BY <1>1, RegNames DEF RegistersType, WithPair

LEMMA SetPairType ==
  ASSUME MemoryType, RegistersType, NEW p \in 0..3, NEW w \in Word, SetPair(p, w)
  PROVE  MemoryType' /\ r' \in [Reg -> Byte]
<1>1. CASE p = 3 /\ SetSp(w) /\ r' = r
  BY <1>1, SetSpType DEF RegistersType
<1>2. CASE p # 3 /\ r' = WithPair(p, w) /\ UNCHANGED memory
  BY <1>2, WithPairType, MemoryKept
<1> QED
  BY <1>1, <1>2 DEF SetPair

LEMMA SourceType ==
  ASSUME MemoryType, RegistersType, NEW i \in 0..7
  PROVE  Source(i) \subseteq Byte
<1>1. CASE i = 6
  BY <1>1, LoadedType DEF Source
<1>2. CASE i # 6
  BY <1>2, RegNames DEF Source, RegistersType
<1> QED
  BY <1>1, <1>2

LEMMA PutType ==
  ASSUME MemoryType, RegistersType, NEW i \in 0..7, NEW v \in Byte, Put(i, v)
  PROVE  MemoryType' /\ r' \in [Reg -> Byte]
<1>1. CASE i = 6 /\ Write(HL, v) /\ r' = r
  BY <1>1, HLType, WriteType DEF RegistersType
<1>2. CASE i # 6 /\ r' = [r EXCEPT ![Reg8[i + 1]] = v] /\ UNCHANGED memory
  BY <1>2, RegNames, MemoryKept DEF RegistersType
<1> QED
  BY <1>1, <1>2 DEF Put

LEMMA SetAType ==
  ASSUME MemoryType, RegistersType, NEW v \in Byte, SetA(v)
  PROVE  MemoryType' /\ r' \in [Reg -> Byte]
BY RegNames, MemoryKept DEF SetA, RegistersType

LEMMA AccessBit ==
  ASSUME NEW i
  PROVE  Access(i) \in 0..1
BY DEF Access, If

\* How an instruction ends.
LEMMA EndsType ==
  ASSUME ControlType, steps < MaxSteps, NEW op \in Insn, NEW target \in Word, NEW m \in 0..6,
         NEW i \in BOOLEAN, NEW newmode \in Modes, Ends(op, target, m, i, newmode)
  PROVE  ControlType'
<1>1. ime' \in BOOLEAN
  BY Zenon DEF Ends
<1>2. mode' \in Modes
  BY DEF Ends, Modes
<1>3. steps' \in 0..MaxSteps
  BY InsnAssumption DEF InsnAssumption, Ends, ControlType
<1>4. pc' \in Word /\ insn' \in Insn /\ cycles' \in 0..6
  BY DEF Ends
<1> QED
  BY <1>1, <1>2, <1>3, <1>4 DEF ControlType

LEMMA ImeType ==
  ASSUME ControlType
  PROVE  Ime \in BOOLEAN /\ TRUE \in BOOLEAN /\ FALSE \in BOOLEAN
BY Zenon DEF Ime

LEMMA ModeNames ==
  /\ "NORMAL" \in Modes /\ "STOP" \in Modes /\ "HALT" \in Modes
  /\ "HALT_BUG" \in Modes /\ "HALT_DI" \in Modes /\ "EI" \in Modes
BY DEF Modes

LEMMA NoArithType == NoArith \in Ariths
BY DEF NoArith, Ariths, Byte, Bit

LEMMA GoesType ==
  ASSUME ControlType, RecordType, steps < MaxSteps, NEW op \in Insn, NEW target \in Word,
         NEW m \in 0..6, Goes(op, target, m)
  PROVE  ControlType' /\ RecordType'
<1>1. ControlType'
  BY EndsType, ImeType, ModeNames DEF Goes
<1>2. RecordType'
  BY NoArithType DEF Goes, RecordType
<1> QED
  BY <1>1, <1>2

LEMMA RunsType ==
  ASSUME ControlType, RecordType, steps < MaxSteps, NEW op \in Insn, NEW n \in 0..2,
         NEW m \in 0..6, Runs(op, n, m)
  PROVE  ControlType' /\ RecordType'
<1>1. Start + n \in Int
  <2>1. Start \in Word
    BY StartWord
  <2> QED
    BY <2>1 DEF Word
<1>2. W(Start + n) \in Word
  BY <1>1, WordRange
<1> QED
  BY <1>2, GoesType DEF Runs

TypeInv == MemoryType /\ RegistersType /\ ControlType /\ RecordType

LEMMA ControlsType ==
  ASSUME TypeInv, steps < MaxSteps, NEW op \in Insn, NEW n \in 0..2, NEW m \in 0..6,
         NEW i \in BOOLEAN, NEW newmode \in Modes, Controls(op, n, m, i, newmode)
  PROVE  TypeInv'
<1>1. Start + n \in Int
  <2>1. Start \in Word
    BY StartWord DEF TypeInv
  <2> QED
    BY <2>1 DEF Word
<1>2. W(Start + n) \in Word
  BY <1>1, WordRange
<1>3. ControlType'
  BY <1>2, EndsType DEF Controls, TypeInv
<1>4. RecordType'
  BY NoArithType DEF Controls, TypeInv, RecordType
<1> QED
  BY <1>3, <1>4, MemoryKept DEF Controls, TypeInv, RegistersType

LEMMA ControlInv ==
  ASSUME TypeInv, steps < MaxSteps, NEW op \in Byte, Control(op)
  PROVE  TypeInv'
<1>1. op \in Insn /\ Ime \in BOOLEAN
  BY OpFields, ImeType DEF TypeInv
<1>2. CASE Nop(op)
  BY <1>1, <1>2, ControlsType, ModeNames DEF Nop
<1>3. CASE Stop(op)
  BY <1>1, <1>3, ControlsType, ModeNames DEF Stop
<1>4. CASE Halt(op)
  <2>1. PICK pending \in BOOLEAN :
          Controls(op, 0, 1, Ime, IF Ime THEN "HALT" ELSE IF pending THEN "HALT_BUG" ELSE "HALT_DI")
    BY <1>4 DEF Halt
  <2>2. (IF Ime THEN "HALT" ELSE IF pending THEN "HALT_BUG" ELSE "HALT_DI") \in Modes
    BY ModeNames
  <2> QED
    BY <1>1, <2>1, <2>2, ControlsType
<1>5. CASE Di(op)
  <2>1. PICK b \in BOOLEAN : Controls(op, 0, 1, b, "NORMAL")
    BY <1>5, Zenon DEF Di
  <2> QED
    BY <1>1, <2>1, ControlsType, ModeNames
<1>6. CASE Ei(op)
  BY <1>1, <1>6, ControlsType, ModeNames DEF Ei
<1>7. CASE Unimplemented(op)
  BY <1>1, <1>7, ControlsType, ModeNames DEF Unimplemented
<1> QED
  BY <1>2, <1>3, <1>4, <1>5, <1>6, <1>7 DEF Control

(* The loads. *)

LEMMA LoadWordInv ==
  ASSUME TypeInv, steps < MaxSteps, NEW op \in Byte, LoadWord(op)
  PROVE  TypeInv'
<1> USE DEF TypeInv
<1>1. PICK w \in Imm16 : SetPair(P(op), w)
  BY DEF LoadWord
<1>2. MemoryType' /\ r' \in [Reg -> Byte]
  BY <1>1, OperandTypes, OpFields, SetPairType
<1>3. ControlType' /\ RecordType'
  BY OpFields, RunsType DEF LoadWord
<1> QED
  BY <1>2, <1>3 DEF LoadWord, RegistersType

\* The registers of StoreA and LoadA after HL has moved.
LEMMA AdvancedType ==
  ASSUME TypeInv, NEW p \in 0..3
  PROVE  Advanced(p) \in [Reg -> Byte] /\ Pointer(p) \in Word
<1> USE DEF TypeInv
<1>1. HL \in Word
  BY HLType
<1>2. HL + 1 \in Int /\ HL - 1 \in Int
  BY <1>1 DEF Word
<1>3. W(HL + 1) \in Word /\ W(HL - 1) \in Word
  BY <1>2, WordRange
<1>4. WithPair(2, W(HL + 1)) \in [Reg -> Byte] /\ WithPair(2, W(HL - 1)) \in [Reg -> Byte]
  BY <1>3, WithPairType
<1>5. Advanced(p) \in [Reg -> Byte]
  <2>1. CASE p = 2
    BY <1>4, <2>1 DEF Advanced
  <2>2. CASE p = 3
    BY <1>4, <2>2 DEF Advanced
  <2>3. CASE p # 2 /\ p # 3
    BY <2>3 DEF Advanced, RegistersType
  <2> QED
    BY <2>1, <2>2, <2>3
<1>6. Pointer(p) \in Word
  BY <1>1, PairOfType DEF Pointer
<1> QED
  BY <1>5, <1>6

LEMMA StoreAInv ==
  ASSUME TypeInv, steps < MaxSteps, NEW op \in Byte, StoreA(op)
  PROVE  TypeInv'
<1> USE DEF TypeInv
<1>1. Pointer(P(op)) \in Word /\ Advanced(P(op)) \in [Reg -> Byte]
  BY OpFields, AdvancedType
<1>2. r["a"] \in Byte
  BY RegNames DEF RegistersType
<1>3. MemoryType'
  BY <1>1, <1>2, WriteType DEF StoreA
<1>4. ControlType' /\ RecordType'
  BY OpFields, RunsType DEF StoreA
<1> QED
  BY <1>1, <1>3, <1>4 DEF StoreA, RegistersType

LEMMA LoadAInv ==
  ASSUME TypeInv, steps < MaxSteps, NEW op \in Byte, LoadA(op)
  PROVE  TypeInv'
<1> USE DEF TypeInv
<1>1. Advanced(P(op)) \in [Reg -> Byte]
  BY OpFields, AdvancedType
<1>2. PICK v \in Loaded(Pointer(P(op))) : r' = [Advanced(P(op)) EXCEPT !["a"] = v]
  BY DEF LoadA
<1>3. v \in Byte
  BY <1>2, LoadedType
<1>4. r' \in [Reg -> Byte]
  BY <1>1, <1>2, <1>3, RegNames
<1>5. ControlType' /\ RecordType'
  BY OpFields, RunsType DEF LoadA
<1> QED
  BY <1>4, <1>5, MemoryKept DEF LoadA, RegistersType

LEMMA LoadByteInv ==
  ASSUME TypeInv, steps < MaxSteps, NEW op \in Byte, LoadByte(op)
  PROVE  TypeInv'
<1> USE DEF TypeInv
<1>1. PICK v \in Imm8 : Put(Y(op), v)
  BY DEF LoadByte
<1>2. MemoryType' /\ r' \in [Reg -> Byte]
  BY <1>1, OperandTypes, OpFields, PutType
<1>3. 2 + Access(Y(op)) \in 0..6
  BY AccessBit
<1>4. ControlType' /\ RecordType'
  BY <1>3, OpFields, RunsType DEF LoadByte
<1> QED
  BY <1>2, <1>4 DEF LoadByte, RegistersType

LEMMA LoadRegisterInv ==
  ASSUME TypeInv, steps < MaxSteps, NEW op \in Byte, LoadRegister(op)
  PROVE  TypeInv'
<1> USE DEF TypeInv
<1>1. PICK v \in Source(Z(op)) : r' = [r EXCEPT ![Reg8[Y(op) + 1]] = v]
  BY DEF LoadRegister
<1>2. v \in Byte /\ Reg8[Y(op) + 1] \in Reg
  BY <1>1, SourceType, OpFields, RegNames DEF LoadRegister
<1>3. r' \in [Reg -> Byte]
  BY <1>1, <1>2 DEF RegistersType
<1>4. 1 + Access(Z(op)) \in 0..6
  BY AccessBit
<1>5. ControlType' /\ RecordType'
  BY <1>4, OpFields, RunsType DEF LoadRegister
<1> QED
  BY <1>3, <1>5, MemoryKept DEF LoadRegister, RegistersType

LEMMA StoreRegisterInv ==
  ASSUME TypeInv, steps < MaxSteps, NEW op \in Byte, StoreRegister(op)
  PROVE  TypeInv'
<1> USE DEF TypeInv
<1>1. r[Reg8[Z(op) + 1]] \in Byte
  BY OpFields, RegNames DEF StoreRegister, RegistersType
<1>2. MemoryType'
  BY <1>1, HLType, WriteType DEF StoreRegister
<1>3. ControlType' /\ RecordType'
  BY OpFields, RunsType DEF StoreRegister
<1> QED
  BY <1>2, <1>3 DEF StoreRegister, RegistersType

LEMMA StoreSpInv ==
  ASSUME TypeInv, steps < MaxSteps, NEW op \in Byte, StoreSp(op)
  PROVE  TypeInv'
<1> USE DEF TypeInv
<1>1. PICK a \in Imm16 : WriteWord(a, sp)
  BY DEF StoreSp
<1>2. a \in Word /\ sp \in Word
  BY OperandTypes DEF MemoryType
<1>3. MemoryType'
  BY <1>1, <1>2, WriteWordType
<1>4. ControlType' /\ RecordType'
  BY OpFields, RunsType DEF StoreSp
<1> QED
  BY <1>3, <1>4 DEF StoreSp, RegistersType

LEMMA AbsoluteInv ==
  ASSUME TypeInv, steps < MaxSteps, NEW op \in Byte, Absolute(op)
  PROVE  TypeInv'
<1> USE DEF TypeInv
<1>1. PICK a \in Imm16 : \/ Write(a, r["a"]) /\ r' = r
                         \/ \E v \in Loaded(a) : SetA(v)
  BY DEF Absolute
<1>2. a \in Word /\ r["a"] \in Byte
  BY OperandTypes, RegNames DEF RegistersType
<1>3. MemoryType' /\ r' \in [Reg -> Byte]
  <2>1. CASE Write(a, r["a"]) /\ r' = r
    BY <1>2, <2>1, WriteType DEF RegistersType
  <2>2. CASE \E v \in Loaded(a) : SetA(v)
    BY <2>2, LoadedType, SetAType
  <2> QED
    BY <1>1, <2>1, <2>2
<1>4. ControlType' /\ RecordType'
  BY OpFields, RunsType DEF Absolute
<1> QED
  BY <1>3, <1>4 DEF Absolute, RegistersType

LEMMA HighPageInv ==
  ASSUME TypeInv, steps < MaxSteps, NEW op \in Byte, HighPage(op)
  PROVE  TypeInv'
<1> USE DEF TypeInv
<1>1. PICK n \in Byte : \/ Write(65280 + n, r["a"]) /\ r' = r
                        \/ \E v \in Loaded(65280 + n) : SetA(v)
  <2>1. r["c"] \in Byte
    BY RegNames DEF RegistersType
  <2> QED
    BY <2>1, OperandTypes DEF HighPage
<1>2. 65280 + n \in Word /\ r["a"] \in Byte
  <2>1. 65280 + n \in Word
    BY DEF Word, Byte
  <2> QED
    BY <2>1, RegNames DEF RegistersType
<1>3. MemoryType' /\ r' \in [Reg -> Byte]
  <2>1. CASE Write(65280 + n, r["a"]) /\ r' = r
    BY <1>2, <2>1, WriteType DEF RegistersType
  <2>2. CASE \E v \in Loaded(65280 + n) : SetA(v)
    BY <2>2, LoadedType, SetAType
  <2> QED
    BY <1>1, <2>1, <2>2
<1>4. ControlType' /\ RecordType'
  <2>1. CASE Runs(op, 1, 3)
    BY <2>1, OpFields, RunsType
  <2>2. CASE Runs(op, 0, 2)
    BY <2>2, OpFields, RunsType
  <2> QED
    BY <2>1, <2>2 DEF HighPage
<1> QED
  BY <1>3, <1>4 DEF HighPage, RegistersType

LEMMA LoadSpInv ==
  ASSUME TypeInv, steps < MaxSteps, NEW op \in Byte, LoadSp(op)
  PROVE  TypeInv'
<1> USE DEF TypeInv
<1>1. MemoryType'
  BY HLType, SetSpType DEF LoadSp
<1>2. ControlType' /\ RecordType'
  BY OpFields, RunsType DEF LoadSp
<1> QED
  BY <1>1, <1>2 DEF LoadSp, RegistersType

LEMMA LoadHlSpInv ==
  ASSUME TypeInv, steps < MaxSteps, NEW op \in Byte, LoadHlSp(op)
  PROVE  TypeInv'
<1> USE DEF TypeInv
<1>1. PICK e \in Imm8 : /\ r' = WithPair(2, AddSigned(sp, e).v)
                        /\ f' = AddSigned(sp, e).f
  BY DEF LoadHlSp
<1>2. e \in Byte /\ sp \in Word /\ f \in Flags
  BY OperandTypes DEF MemoryType, RegistersType
<1>3. RegistersType'
  <2>1. AddSigned(sp, e).v \in Word /\ AddSigned(sp, e).f \in Flags
    BY <1>2, WideGood
  <2> QED
    BY <1>1, <2>1, WithPairType DEF RegistersType
<1>4. ControlType' /\ RecordType'
  BY OpFields, RunsType DEF LoadHlSp
<1> QED
  BY <1>3, <1>4, MemoryKept DEF LoadHlSp

LEMMA LoadInv ==
  ASSUME TypeInv, steps < MaxSteps, NEW op \in Byte, Load(op)
  PROVE  TypeInv'
BY LoadWordInv, StoreAInv, LoadAInv, LoadByteInv, LoadRegisterInv, StoreRegisterInv,
   StoreSpInv, AbsoluteInv, HighPageInv, LoadSpInv, LoadHlSpInv DEF Load

(* Arithmetic. *)

LEMMA PairStepInv ==
  ASSUME TypeInv, steps < MaxSteps, NEW op \in Byte, IncPair(op) \/ DecPair(op)
  PROVE  TypeInv'
<1> USE DEF TypeInv
<1>1. PairOf(P(op)) \in Word
  BY OpFields, PairOfType
<1>2. PairOf(P(op)) + 1 \in Int /\ PairOf(P(op)) - 1 \in Int
  <2>1. \A w \in Word : w + 1 \in Int /\ w - 1 \in Int
    BY DEF Word
  <2> HIDE DEF TypeInv
  <2> QED
    BY <1>1, <2>1
<1>3. W(PairOf(P(op)) + 1) \in Word /\ W(PairOf(P(op)) - 1) \in Word
  BY <1>2, WordRange
<1>4. MemoryType' /\ r' \in [Reg -> Byte]
  BY <1>3, OpFields, SetPairType DEF IncPair, DecPair
<1>5. ControlType' /\ RecordType'
  BY OpFields, RunsType DEF IncPair, DecPair
<1> QED
  BY <1>4, <1>5 DEF IncPair, DecPair, RegistersType

LEMMA AddHlInv ==
  ASSUME TypeInv, steps < MaxSteps, NEW op \in Byte, AddHl(op)
  PROVE  TypeInv'
<1> USE DEF TypeInv
<1> DEFINE x == Add16(f, HL, PairOf(P(op)))
<1>1. x.v \in Word /\ x.f \in Flags
  <2>1. HL \in Word /\ PairOf(P(op)) \in Word /\ f \in Flags /\ 0 \in Byte
    BY HLType, OpFields, PairOfType DEF RegistersType, Byte
  <2> QED
    BY <2>1, WideGood
<1>2. r' = WithPair(2, x.v) /\ f' = x.f
  BY DEF AddHl
<1> HIDE DEF x
<1>3. RegistersType'
  BY <1>1, <1>2, WithPairType DEF RegistersType
<1>4. ControlType' /\ RecordType'
  BY OpFields, RunsType DEF AddHl
<1> QED
  BY <1>3, <1>4, MemoryKept DEF AddHl

LEMMA IncDecInv ==
  ASSUME TypeInv, steps < MaxSteps, NEW op \in Byte, IncDec(op)
  PROVE  TypeInv'
<1> USE DEF TypeInv
<1>1. PICK v \in Source(Y(op)) :
        LET x == IF Z(op) = 4 THEN Inc8(f, v) ELSE Dec8(f, v) IN
        Put(Y(op), x.v) /\ f' = x.f
  BY DEF IncDec
<1> DEFINE x == IF Z(op) = 4 THEN Inc8(f, v) ELSE Dec8(f, v)
<1>2. v \in Byte /\ f \in Flags
  BY SourceType, OpFields DEF RegistersType
<1>3. x.v \in Byte /\ x.f \in Flags
  BY <1>2, IncDecGood DEF Good
<1>4. Put(Y(op), x.v) /\ f' = x.f
  BY <1>1
<1> HIDE DEF x
<1>5. MemoryType' /\ r' \in [Reg -> Byte]
  BY <1>3, <1>4, OpFields, PutType
<1>6. 1 + 2 * Access(Y(op)) \in 0..6
  BY AccessBit
<1>7. ControlType' /\ RecordType'
  BY <1>6, OpFields, RunsType DEF IncDec
<1> QED
  BY <1>3, <1>4, <1>5, <1>7 DEF RegistersType

LEMMA RotatedGood ==
  ASSUME RegistersType, NEW k \in 0..7, NEW v \in Byte
  PROVE  Good(Rotated(k, v))
<1>1. f \in Flags
  BY DEF RegistersType
<1>2. /\ Good(Rlc(f, v)) /\ Good(Rrc(f, v)) /\ Good(Rl(f, v)) /\ Good(Rr(f, v))
      /\ Good(Sla(f, v)) /\ Good(Sra(f, v)) /\ Good(Swap(f, v)) /\ Good(Srl(f, v))
  BY <1>1, ShiftGood
<1>3. CASE k = 0
  BY <1>2, <1>3 DEF Rotated
<1>4. CASE k = 1
  BY <1>2, <1>4 DEF Rotated
<1>5. CASE k = 2
  BY <1>2, <1>5 DEF Rotated
<1>6. CASE k = 3
  BY <1>2, <1>6 DEF Rotated
<1>7. CASE k = 4
  BY <1>2, <1>7 DEF Rotated
<1>8. CASE k = 5
  BY <1>2, <1>8 DEF Rotated
<1>9. CASE k = 6
  BY <1>2, <1>9 DEF Rotated
<1>10. CASE k = 7
  BY <1>2, <1>10 DEF Rotated
<1> QED
  BY <1>3, <1>4, <1>5, <1>6, <1>7, <1>8, <1>9, <1>10

LEMMA ZClearedGood ==
  ASSUME NEW x, Good(x), x = [v |-> x.v, f |-> x.f]
  PROVE  Good(ZCleared(x))
<1>1. ZCleared(x).v = x.v /\ ZCleared(x).f = [x.f EXCEPT !.z = 0]
  BY DEF ZCleared
<1>2. [x.f EXCEPT !.z = 0] \in Flags
  BY Bits DEF Flags, Good
<1> QED
  BY <1>1, <1>2 DEF Good

LEMMA OnAInv ==
  ASSUME TypeInv, steps < MaxSteps, NEW op \in Byte, OnA(op)
  PROVE  TypeInv'
<1> USE DEF TypeInv
<1>1. PICK x : Good(x) /\ SetA(x.v) /\ f' = x.f
  <2>1. r["a"] \in Byte /\ f \in Flags
    BY RegNames DEF RegistersType
  <2>2. CASE Y(op) < 4
    <3>1. SetA(ZCleared(Rotated(Y(op), r["a"])).v) /\ f' = ZCleared(Rotated(Y(op), r["a"])).f
      BY <2>2 DEF OnA
    <3>2. Good(Rotated(Y(op), r["a"]))
      BY <2>1, OpFields, RotatedGood
    <3>3. Rotated(Y(op), r["a"]) = [v |-> Rotated(Y(op), r["a"]).v, f |-> Rotated(Y(op), r["a"]).f]
      <4>1. Y(op) \in {0, 1, 2, 3}
        BY <2>2, OpFields
      <4> QED
        BY <4>1 DEF Rotated, Rlc, Rrc, Rl, Rr, Shifted
    <3> QED
      BY <3>1, <3>2, <3>3, ZClearedGood
  <2>3. CASE Y(op) = 5
    BY <2>1, <2>3, OnAGood DEF OnA
  <2>4. CASE Y(op) = 6
    BY <2>1, <2>4, OnAGood DEF OnA
  <2>5. CASE Y(op) = 7
    BY <2>1, <2>5, OnAGood DEF OnA
  <2> QED
    BY <2>2, <2>3, <2>4, <2>5, OpFields DEF OnA
<1>2. x.v \in Byte /\ x.f \in Flags
  BY <1>1 DEF Good
<1>3. MemoryType' /\ r' \in [Reg -> Byte]
  BY <1>1, <1>2, SetAType
<1>4. ControlType' /\ RecordType'
  BY OpFields, RunsType DEF OnA
<1> QED
  BY <1>1, <1>2, <1>3, <1>4 DEF RegistersType

LEMMA AdjustInv ==
  ASSUME TypeInv, steps < MaxSteps, NEW op \in Byte, Adjust(op)
  PROVE  TypeInv'
<1> USE DEF TypeInv
<1>1. SetA(Daa(f, r["a"]).v) /\ f' = Daa(f, r["a"]).f
  BY DEF Adjust
<1>2. Daa(f, r["a"]).v \in Byte /\ Daa(f, r["a"]).f \in Flags
  <2>1. r["a"] \in Byte /\ f \in Flags
    BY RegNames DEF RegistersType
  <2> QED
    BY <2>1, OnAGood DEF Good
<1>3. MemoryType' /\ r' \in [Reg -> Byte]
  BY <1>1, <1>2, SetAType
<1>4. ControlType'
  BY OpFields, StartWord, ImeType, ModeNames, EndsType DEF Adjust
<1>5. RecordType'
  <2>1. [arith EXCEPT !.adjusted = TRUE] \in Ariths
    BY DEF RecordType, Ariths
  <2> QED
    BY <2>1, NoArithType DEF Adjust, RecordType
<1> QED
  BY <1>1, <1>2, <1>3, <1>4, <1>5 DEF RegistersType

LEMMA ArithmeticType ==
  ASSUME TypeInv, NEW k \in 0..3, NEW b \in Byte, Arithmetic(k, b)
  PROVE  MemoryType' /\ RegistersType' /\ RecordType'
<1> USE DEF TypeInv
<1>1. r["a"] \in Byte /\ f \in Flags /\ f.c \in Bit /\ 0 \in Bit
  BY RegNames, FlagFields, Bits DEF RegistersType
<1>2. PICK x : Good(x) /\ SetA(x.v) /\ f' = x.f
  <2>1. Good(Add(f, r["a"], b)) /\ Good(Adc(f, r["a"], b))
        /\ Good(Sub(f, r["a"], b)) /\ Good(Sbc(f, r["a"], b))
    BY <1>1, SumGood DEF Add, Adc, Sub, Sbc
  <2>2. CASE k = 0
    BY <2>1, <2>2 DEF Arithmetic
  <2>3. CASE k = 1
    BY <2>1, <2>3 DEF Arithmetic
  <2>4. CASE k = 2
    BY <2>1, <2>4 DEF Arithmetic
  <2>5. CASE k = 3
    BY <2>1, <2>5 DEF Arithmetic
  <2> QED
    BY <2>2, <2>3, <2>4, <2>5
<1>3. x.v \in Byte /\ x.f \in Flags
  BY <1>2 DEF Good
<1>4. MemoryType' /\ r' \in [Reg -> Byte]
  BY <1>2, <1>3, SetAType
<1>5. arith' \in Ariths
  <2>1. \A o \in {"add", "sub"}, y \in Byte, z \in Byte, c \in Bit :
          [op |-> o, x |-> y, y |-> z, carry |-> c, adjusted |-> FALSE] \in Ariths
    BY DEF Ariths
  <2>2. arith' = [op |-> IF k < 2 THEN "add" ELSE "sub", x |-> r["a"], y |-> b,
                  carry |-> IF k \in {1, 3} THEN f.c ELSE 0, adjusted |-> FALSE]
    BY DEF Arithmetic
  <2>3. (IF k < 2 THEN "add" ELSE "sub") \in {"add", "sub"}
        /\ (IF k \in {1, 3} THEN f.c ELSE 0) \in Bit
    BY <1>1
  <2> QED
    BY <1>1, <2>1, <2>2, <2>3
<1> QED
  BY <1>2, <1>3, <1>4, <1>5 DEF RegistersType, RecordType, Arithmetic

LEMMA LogicalType ==
  ASSUME TypeInv, NEW k \in 4..7, NEW b \in Byte, Logical(k, b)
  PROVE  MemoryType' /\ RegistersType' /\ RecordType'
<1> USE DEF TypeInv
<1>1. r["a"] \in Byte /\ f \in Flags /\ 0 \in Bit
  BY RegNames, Bits DEF RegistersType
<1>2. PICK x : Good(x) /\ SetA(x.v) /\ f' = x.f
  <2>1. Good(And8(f, r["a"], b)) /\ Good(Xor8(f, r["a"], b)) /\ Good(Or8(f, r["a"], b))
    BY <1>1, LogicGood
  <2>2. CASE k = 4
    BY <2>1, <2>2 DEF Logical
  <2>3. CASE k = 5
    BY <2>1, <2>3 DEF Logical
  <2>4. CASE k = 6
    BY <2>1, <2>4 DEF Logical
  <2>5. CASE k = 7
    <3>1. Good(Sub(f, r["a"], b))
      BY <1>1, SumGood DEF Sub
    <3>2. Good([Sub(f, r["a"], b) EXCEPT !.v = r["a"]])
      BY <1>1, <3>1 DEF Good, Sub, Difference
    <3> QED
      BY <2>5, <3>2 DEF Logical
  <2> QED
    BY <2>2, <2>3, <2>4, <2>5
<1>3. x.v \in Byte /\ x.f \in Flags
  BY <1>2 DEF Good
<1>4. MemoryType' /\ r' \in [Reg -> Byte]
  BY <1>2, <1>3, SetAType
<1> QED
  BY <1>2, <1>3, <1>4, NoArithType DEF RegistersType, RecordType, Logical

LEMMA RegisterOperandInv ==
  ASSUME TypeInv, steps < MaxSteps, NEW op \in Byte, ArithmeticRegister(op) \/ LogicalRegister(op)
  PROVE  TypeInv'
<1> USE DEF TypeInv
<1>1. ControlType'
  <2>1. 1 + Access(Z(op)) \in 0..6
    BY AccessBit
  <2> QED
    BY <2>1, OpFields, StartWord, ImeType, ModeNames, EndsType
       DEF ArithmeticRegister, LogicalRegister
<1>2. CASE ArithmeticRegister(op)
  <2>1. PICK b \in Source(Z(op)) : Arithmetic(Y(op), b)
    BY <1>2 DEF ArithmeticRegister
  <2>2. b \in Byte /\ Y(op) \in 0..3
    BY <1>2, OpFields, SourceType DEF ArithmeticRegister
  <2> QED
    BY <1>1, <2>1, <2>2, ArithmeticType
<1>3. CASE LogicalRegister(op)
  <2>1. PICK b \in Source(Z(op)) : Logical(Y(op), b)
    BY <1>3 DEF LogicalRegister
  <2>2. b \in Byte /\ Y(op) \in 4..7
    BY <1>3, OpFields, SourceType DEF LogicalRegister
  <2> QED
    BY <1>1, <2>1, <2>2, LogicalType
<1> QED
  BY <1>2, <1>3

LEMMA WithImmediateInv ==
  ASSUME TypeInv, steps < MaxSteps, NEW op \in Byte, WithImmediate(op)
  PROVE  TypeInv'
<1> USE DEF TypeInv
<1>1. W(Start + 1) \in Word
  <2>1. Start \in Word
    BY StartWord
  <2>2. Start + 1 \in Int
    BY <2>1 DEF Word
  <2> QED
    BY <2>2, WordRange
<1>2. ControlType'
  BY <1>1, OpFields, ImeType, ModeNames, EndsType DEF WithImmediate
<1>3. PICK b \in Imm8 : \/ Y(op) < 4 /\ Arithmetic(Y(op), b)
                        \/ Y(op) >= 4 /\ Logical(Y(op), b)
  BY DEF WithImmediate
<1>4. b \in Byte /\ Y(op) \in 0..7
  BY OperandTypes, OpFields
<1>5. CASE Y(op) < 4 /\ Arithmetic(Y(op), b)
  <2>1. Y(op) \in 0..3
    BY <1>4, <1>5
  <2> QED
    BY <1>2, <1>4, <1>5, <2>1, ArithmeticType
<1>6. CASE Y(op) >= 4 /\ Logical(Y(op), b)
  <2>1. Y(op) \in 4..7
    BY <1>4, <1>6
  <2> QED
    BY <1>2, <1>4, <1>6, <2>1, LogicalType
<1> QED
  BY <1>3, <1>5, <1>6

LEMMA AddSpInv ==
  ASSUME TypeInv, steps < MaxSteps, NEW op \in Byte, AddSp(op)
  PROVE  TypeInv'
<1> USE DEF TypeInv
<1>1. PICK e \in Imm8 : SetSp(AddSigned(sp, e).v) /\ f' = AddSigned(sp, e).f
  BY DEF AddSp
<1>2. e \in Byte /\ sp \in Word /\ f \in Flags
  BY OperandTypes DEF MemoryType, RegistersType
<1>3. AddSigned(sp, e).v \in Word /\ AddSigned(sp, e).f \in Flags
  BY <1>2, WideGood
<1>4. MemoryType'
  BY <1>1, <1>3, SetSpType
<1>5. ControlType' /\ RecordType'
  BY OpFields, RunsType DEF AddSp
<1> QED
  BY <1>1, <1>3, <1>4, <1>5 DEF AddSp, RegistersType

\* The suffix of a CB-prefixed instruction.
LEMMA SuffixType ==
  ASSUME MemoryType, NEW cb \in Suffixes
  PROVE  cb \in Byte /\ 256 + cb \in Insn
<1>1. cb \in Byte
  BY DEF Suffixes, MemoryType
<1> QED
  BY <1>1 DEF Byte, Insn

LEMMA CbRotateInv ==
  ASSUME TypeInv, steps < MaxSteps, NEW op \in Byte, CbRotate(op)
  PROVE  TypeInv'
<1> USE DEF TypeInv
<1>0. PICK cb \in Suffixes : \E v \in Source(Z(cb)) :
        /\ Put(Z(cb), Rotated(Y(cb), v).v)
        /\ f' = Rotated(Y(cb), v).f
        /\ Runs(256 + cb, 1, 2 + 2 * Access(Z(cb)))
  BY DEF CbRotate
<1>1. PICK v \in Source(Z(cb)) :
        /\ Put(Z(cb), Rotated(Y(cb), v).v)
        /\ f' = Rotated(Y(cb), v).f
        /\ Runs(256 + cb, 1, 2 + 2 * Access(Z(cb)))
  BY <1>0
<1>2. cb \in Byte /\ 256 + cb \in Insn /\ Z(cb) \in 0..7 /\ Y(cb) \in 0..7
  BY SuffixType, OpFields
<1>3. v \in Byte /\ f \in Flags
  BY <1>2, SourceType DEF RegistersType
<1>4. Rotated(Y(cb), v).v \in Byte /\ Rotated(Y(cb), v).f \in Flags
  BY <1>2, <1>3, RotatedGood DEF Good
<1>5. MemoryType' /\ r' \in [Reg -> Byte]
  BY <1>1, <1>2, <1>4, PutType
<1>6. ControlType' /\ RecordType'
  <2>1. 2 + 2 * Access(Z(cb)) \in 0..6
    BY AccessBit
  <2> QED
    BY <1>1, <1>2, <2>1, RunsType
<1> QED
  BY <1>1, <1>4, <1>5, <1>6 DEF RegistersType

LEMMA BitTouched ==
  ASSUME NEW v \in Byte, NEW i \in 0..7, NEW g \in Flags
  PROVE  /\ ResetBit(v, i) \in Byte
         /\ SetBit(v, i) \in Byte
         /\ TestBit(g, i, v) \in Flags
<1>1. ResetBit(v, i) \in Byte
  <2>1. Power[i] * BitOf(v, i) \in Nat /\ Power[i] * BitOf(v, i) <= v
    <3>1. Power[i] \in Nat /\ BitOf(v, i) \in Bit
      BY Powers, BitFacts
    <3>2. \A x \in Nat, y \in Bit : x * y \in Nat
      <4>1. \A x \in Nat : x * 0 = 0 /\ x * 1 = x
        OBVIOUS
      <4> QED
        BY <4>1 DEF Bit
    <3> QED
      BY <3>1, <3>2, BitFacts
  <2>2. \A n \in Nat : n <= v => v - n \in Byte
    BY DEF Byte
  <2> QED
    BY <2>1, <2>2 DEF ResetBit
<1>2. SetBit(v, i) \in Byte
  BY BitFacts DEF SetBit
<1>3. TestBit(g, i, v) \in Flags
  BY FlagsZNH, IfBit, Bits DEF TestBit
<1> QED
  BY <1>1, <1>2, <1>3

LEMMA CbBitInv ==
  ASSUME TypeInv, steps < MaxSteps, NEW op \in Byte, CbBit(op)
  PROVE  TypeInv'
<1> USE DEF TypeInv
<1>0. PICK cb \in Suffixes : \E v \in Source(Z(cb)) :
        \/ /\ f' = TestBit(f, Y(cb), v)
           /\ Runs(256 + cb, 1, 2 + Access(Z(cb)))
           /\ UNCHANGED <<r, memory>>
        \/ /\ Put(Z(cb), IF X(cb) = 2 THEN ResetBit(v, Y(cb)) ELSE SetBit(v, Y(cb)))
           /\ Runs(256 + cb, 1, 2 + 2 * Access(Z(cb)))
           /\ f' = f
  BY DEF CbBit
<1>1. PICK v \in Source(Z(cb)) :
        \/ /\ f' = TestBit(f, Y(cb), v)
           /\ Runs(256 + cb, 1, 2 + Access(Z(cb)))
           /\ UNCHANGED <<r, memory>>
        \/ /\ Put(Z(cb), IF X(cb) = 2 THEN ResetBit(v, Y(cb)) ELSE SetBit(v, Y(cb)))
           /\ Runs(256 + cb, 1, 2 + 2 * Access(Z(cb)))
           /\ f' = f
  BY <1>0
<1>2. cb \in Byte /\ 256 + cb \in Insn /\ Z(cb) \in 0..7 /\ Y(cb) \in 0..7
  BY SuffixType, OpFields
<1>3. v \in Byte /\ f \in Flags
  BY <1>2, SourceType DEF RegistersType
<1>4. 2 + Access(Z(cb)) \in 0..6 /\ 2 + 2 * Access(Z(cb)) \in 0..6
  BY AccessBit
<1>5. CASE /\ f' = TestBit(f, Y(cb), v)
           /\ Runs(256 + cb, 1, 2 + Access(Z(cb)))
           /\ UNCHANGED <<r, memory>>
  <2>1. ControlType' /\ RecordType'
    BY <1>2, <1>4, <1>5, RunsType
  <2>2. RegistersType'
    BY <1>2, <1>3, <1>5, BitTouched DEF RegistersType
  <2> QED
    BY <1>5, <2>1, <2>2, MemoryKept
<1>6. CASE /\ Put(Z(cb), IF X(cb) = 2 THEN ResetBit(v, Y(cb)) ELSE SetBit(v, Y(cb)))
           /\ Runs(256 + cb, 1, 2 + 2 * Access(Z(cb)))
           /\ f' = f
  <2>1. ControlType' /\ RecordType'
    BY <1>2, <1>4, <1>6, RunsType
  <2>2. (IF X(cb) = 2 THEN ResetBit(v, Y(cb)) ELSE SetBit(v, Y(cb))) \in Byte
    BY <1>2, <1>3, BitTouched
  <2>3. MemoryType' /\ r' \in [Reg -> Byte]
    BY <1>2, <1>6, <2>2, PutType
  <2> QED
    BY <1>3, <1>6, <2>1, <2>3 DEF RegistersType
<1> QED
  BY <1>1, <1>5, <1>6

LEMMA ComputeInv ==
  ASSUME TypeInv, steps < MaxSteps, NEW op \in Byte, Compute(op)
  PROVE  TypeInv'
BY PairStepInv, AddHlInv, IncDecInv, OnAInv, AdjustInv, RegisterOperandInv, WithImmediateInv,
   AddSpInv, CbRotateInv, CbBitInv DEF Compute

(* Jumps and the stack. *)

LEMMA RestOfJump ==
  ASSUME TypeInv, UNCHANGED <<r, f, memory>>, ControlType' /\ RecordType'
  PROVE  TypeInv'
BY MemoryKept DEF TypeInv, RegistersType

LEMMA JrInv ==
  ASSUME TypeInv, steps < MaxSteps, NEW op \in Byte, Jr(op)
  PROVE  TypeInv'
<1>1. PICK e \in Imm8 : Goes(op, W(Start + 1 + Signed(e)), 3) \/ Runs(op, 1, 2)
  BY DEF Jr
<1>2. op \in Insn
  BY OpFields
<1>3. Start + 1 + Signed(e) \in Int
  <2>1. \A s \in Word, b \in Byte : s + 1 + Signed(b) \in Int
    BY DEF Word, Byte, Signed
  <2>2. Start \in Word /\ e \in Byte
    BY StartWord, OperandTypes DEF TypeInv
  <2> QED
    BY <2>1, <2>2
<1>4. W(Start + 1 + Signed(e)) \in Word
  BY <1>3, WordRange
<1>5. ControlType' /\ RecordType'
  BY <1>1, <1>2, <1>4, GoesType, RunsType DEF TypeInv
<1> QED
  BY <1>5, RestOfJump DEF Jr

LEMMA JpInv ==
  ASSUME TypeInv, steps < MaxSteps, NEW op \in Byte, Jp(op) \/ JpHl(op)
  PROVE  TypeInv'
<1>1. PICK w \in Word : Goes(op, w, 4) \/ Runs(op, 2, 3) \/ Goes(op, w, 1)
  BY OperandTypes, HLType DEF Jp, JpHl, TypeInv
<1>2. op \in Insn
  BY OpFields
<1>3. ControlType' /\ RecordType'
  BY <1>1, <1>2, GoesType, RunsType DEF TypeInv
<1>4. UNCHANGED <<r, f, memory>>
  BY DEF Jp, JpHl
<1> QED
  BY <1>3, <1>4, RestOfJump

LEMMA CallsInv ==
  ASSUME TypeInv, steps < MaxSteps, NEW op \in Insn, NEW from \in Word, NEW target \in Word,
         NEW m \in 0..6, Calls(op, from, target, m), UNCHANGED <<r, f>>
  PROVE  TypeInv'
<1>1. MemoryType'
  BY PushType DEF Calls, TypeInv
<1>2. ControlType'
  BY EndsType, ImeType, ModeNames DEF Calls, TypeInv
<1>3. RecordType'
  BY NoArithType DEF Calls, TypeInv, RecordType
<1> QED
  BY <1>1, <1>2, <1>3 DEF TypeInv, RegistersType

LEMMA ReturnsInv ==
  ASSUME TypeInv, steps < MaxSteps, NEW op \in Insn, NEW m \in 0..6, NEW i \in BOOLEAN,
         Returns(op, m, i), UNCHANGED <<r, f>>
  PROVE  TypeInv'
<1>1. MemoryType'
  BY PopType DEF Returns, TypeInv
<1>2. ControlType'
  BY OperandTypes, EndsType, ModeNames DEF Returns, TypeInv
<1>3. RecordType'
  BY NoArithType DEF Returns, TypeInv, RecordType
<1> QED
  BY <1>1, <1>2, <1>3 DEF TypeInv, RegistersType

LEMMA CallInv ==
  ASSUME TypeInv, steps < MaxSteps, NEW op \in Byte, Call(op)
  PROVE  TypeInv'
<1>1. op \in Insn
  BY OpFields
<1>2. W(Start + 2) \in Word
  <2>1. \A s \in Word : s + 2 \in Int
    BY DEF Word
  <2>2. Start + 2 \in Int
    BY <2>1, StartWord DEF TypeInv
  <2> QED
    BY <2>2, WordRange
<1>3. PICK w \in Word : Calls(op, W(Start + 2), w, 6) \/ (Runs(op, 2, 3) /\ UNCHANGED memory)
  BY OperandTypes DEF Call, TypeInv
<1>4. UNCHANGED <<r, f>>
  BY DEF Call
<1>5. CASE Calls(op, W(Start + 2), w, 6)
  BY <1>1, <1>2, <1>4, <1>5, CallsInv
<1>6. CASE Runs(op, 2, 3) /\ UNCHANGED memory
  <2>1. ControlType' /\ RecordType'
    BY <1>1, <1>6, RunsType DEF TypeInv
  <2> QED
    BY <1>4, <1>6, <2>1, RestOfJump
<1> QED
  BY <1>3, <1>5, <1>6

LEMMA RstInv ==
  ASSUME TypeInv, steps < MaxSteps, NEW op \in Byte, Rst(op)
  PROVE  TypeInv'
<1>1. op \in Insn /\ Y(op) \in 0..7
  BY OpFields
<1>2. 8 * Y(op) \in Word
  BY <1>1 DEF Word
<1>3. Start \in Word
  BY StartWord DEF TypeInv
<1> QED
  BY <1>1, <1>2, <1>3, CallsInv DEF Rst

LEMMA RetInv ==
  ASSUME TypeInv, steps < MaxSteps, NEW op \in Byte, Ret(op)
  PROVE  TypeInv'
<1>1. op \in Insn
  BY OpFields
<1>2. PICK i \in BOOLEAN : Returns(op, 4, i)
  BY Zenon DEF Ret
<1>3. UNCHANGED <<r, f>>
  BY DEF Ret
<1> QED
  BY <1>1, <1>2, <1>3, ReturnsInv

LEMMA RetIfInv ==
  ASSUME TypeInv, steps < MaxSteps, NEW op \in Byte, RetIf(op)
  PROVE  TypeInv'
<1>1. op \in Insn /\ Ime \in BOOLEAN
  BY OpFields, ImeType DEF TypeInv
<1>2. UNCHANGED <<r, f>>
  BY DEF RetIf
<1>3. CASE Returns(op, 5, Ime)
  BY <1>1, <1>2, <1>3, ReturnsInv
<1>4. CASE Runs(op, 0, 2) /\ UNCHANGED memory
  <2>1. ControlType' /\ RecordType'
    BY <1>1, <1>4, RunsType DEF TypeInv
  <2> QED
    BY <1>2, <1>4, <2>1, RestOfJump
<1> QED
  BY <1>3, <1>4 DEF RetIf

LEMMA PushPairInv ==
  ASSUME TypeInv, steps < MaxSteps, NEW op \in Byte, PushPair(op)
  PROVE  TypeInv'
<1>1. FByte \in Byte
  <2>1. f.z \in Bit /\ f.n \in Bit /\ f.h \in Bit /\ f.c \in Bit
    BY FlagFields DEF TypeInv, RegistersType
  <2> QED
    BY <2>1 DEF FByte, Bit, Byte
<1>2. Pair(r["a"], FByte) \in Word /\ PairOf(P(op)) \in Word
  <2>1. r["a"] \in Byte
    BY RegNames DEF TypeInv, RegistersType
  <2> QED
    BY <1>1, <2>1, PairRange, PairOfType, OpFields DEF TypeInv
<1>3. MemoryType'
  BY <1>2, PushType DEF PushPair, TypeInv
<1>4. ControlType' /\ RecordType'
  BY OpFields, RunsType DEF PushPair, TypeInv
<1> QED
  BY <1>3, <1>4 DEF PushPair, TypeInv, RegistersType

LEMMA PopPairInv ==
  ASSUME TypeInv, steps < MaxSteps, NEW op \in Byte, PopPair(op)
  PROVE  TypeInv'
<1>1. PICK w \in Popped :
        \/ op = 241 /\ r' = [r EXCEPT !["a"] = Hi(w)] /\ f' = FlagsOf(Lo(w))
        \/ op # 241 /\ r' = WithPair(P(op), w) /\ f' = f
  BY DEF PopPair
<1>2. w \in Word /\ Lo(w) \in Byte /\ Hi(w) \in Byte
  BY OperandTypes, HalvesOfWord DEF TypeInv
<1>3. RegistersType'
  <2>1. CASE op = 241 /\ r' = [r EXCEPT !["a"] = Hi(w)] /\ f' = FlagsOf(Lo(w))
    <3>1. FlagsOf(Lo(w)) \in Flags
      BY <1>2, BitFacts, FlagsMade DEF FlagsOf
    <3>2. r' \in [Reg -> Byte]
      BY <1>2, <2>1, RegNames DEF TypeInv, RegistersType
    <3> QED
      BY <2>1, <3>1, <3>2 DEF RegistersType
  <2>2. CASE op # 241 /\ r' = WithPair(P(op), w) /\ f' = f
    <3>1. P(op) # 3 /\ P(op) \in 0..3
      BY <2>2 DEF PopPair, P
    <3> QED
      BY <1>2, <2>2, <3>1, WithPairType DEF TypeInv, RegistersType
  <2> QED
    BY <1>1, <2>1, <2>2
<1>4. MemoryType'
  BY PopType DEF PopPair, TypeInv
<1>5. ControlType' /\ RecordType'
  BY OpFields, RunsType DEF PopPair, TypeInv
<1> QED
  BY <1>3, <1>4, <1>5 DEF TypeInv

LEMMA JumpInv ==
  ASSUME TypeInv, steps < MaxSteps, NEW op \in Byte, Jump(op)
  PROVE  TypeInv'
BY JrInv, JpInv, CallInv, RstInv, RetInv, RetIfInv DEF Jump

-----------------------------------------------------------------------------
(* The steps. *)

\* The opcode is a byte, wherever it comes from.
LEMMA CodeType ==
  ASSUME TypeInv
  PROVE  Code \subseteq Byte
BY InsnAssumption DEF InsnAssumption, Code, TypeInv, MemoryType, ControlType

LEMMA StepInv ==
  ASSUME TypeInv, Next
  PROVE  TypeInv'
<1>1. CASE Step
  <2>1. steps < MaxSteps
    BY <1>1 DEF Step
  <2>2. PICK op \in Code : Execute(op)
    BY <1>1 DEF Step
  <2>3. op \in Byte
    BY <2>2, CodeType
  <2>4. Load(op) \/ Compute(op) \/ Jump(op) \/ PushPair(op) \/ PopPair(op) \/ Control(op)
    BY <2>2 DEF Execute
  <2> QED
    BY <2>1, <2>3, <2>4, LoadInv, ComputeInv, JumpInv, PushPairInv, PopPairInv, ControlInv
<1>2. CASE Done
  BY <1>2 DEF Done, vars, memory, TypeInv, MemoryType, RegistersType, ControlType, RecordType
<1> QED
  BY <1>1, <1>2 DEF Next

\* Every instruction leaves the registers, SP, PC, the flags and what it
\* stores in their widths, and none takes more than six machine cycles.
THEOREM InsnTypeCorrect == Spec => []InsnTypeOK
<1>1. Init => TypeInv
  BY InitTypes, TypeParts DEF TypeInv
<1>2. TypeInv /\ [Next]_vars => TypeInv'
  <2> SUFFICES ASSUME TypeInv, [Next]_vars PROVE TypeInv'
    OBVIOUS
  <2>1. CASE Next
    BY <2>1, StepInv
  <2>2. CASE UNCHANGED vars
    BY <2>2 DEF vars, memory, TypeInv, MemoryType, RegistersType, ControlType, RecordType
  <2> QED
    BY <2>1, <2>2
<1>3. TypeInv => InsnTypeOK
  BY TypeParts DEF TypeInv
<1> QED
  BY <1>1, <1>2, <1>3, PTL DEF Spec

-----------------------------------------------------------------------------
(* ADD HL,rr. *)

\* The carry out of the low bytes.
LEMMA LowCarry ==
  ASSUME NEW x \in Byte, NEW y \in Byte
  PROVE  LET c == If(x + y > 255) IN
         /\ c \in Bit
         /\ (x + y) % 256 \in Byte
         /\ x + y = 256 * c + ((x + y) % 256)
<1>1. CASE x + y > 255
  <2>1. (x + y) % 256 = x + y - 256
    BY <1>1 DEF Byte
  <2> QED
    BY <1>1, <2>1 DEF Byte, Bit, If
<1>2. CASE ~(x + y > 255)
  <2>1. (x + y) % 256 = x + y
    BY <1>2 DEF Byte
  <2> QED
    BY <1>2, <2>1 DEF Byte, Bit, If
<1> QED
  BY <1>1, <1>2

\* A sum of words from the sum of its high bytes and the byte below.
LEMMA WideFromBytes ==
  ASSUME NEW s \in 0..511, NEW low \in Byte
  PROVE  /\ ((256 * s + low) % 65536) % 256 = low
         /\ ((256 * s + low) % 65536) \div 256 = s % 256
         /\ (256 * s + low > 65535) <=> (s > 255)
<1>1. CASE s < 256
  <2>1. (256 * s + low) % 65536 = 256 * s + low /\ s % 256 = s
    BY <1>1 DEF Byte
  <2> QED
    BY <1>1, <2>1 DEF Byte
<1>2. CASE s >= 256
  <2>1. (256 * s + low) % 65536 = 256 * (s - 256) + low /\ s % 256 = s - 256
    BY <1>2 DEF Byte
  <2>2. (256 * (s - 256) + low) % 256 = low /\ (256 * (s - 256) + low) \div 256 = s - 256
    BY <1>2 DEF Byte
  <2>3. 256 * s + low > 65535 /\ s > 255
    BY <1>2 DEF Byte
  <2> QED
    BY <2>1, <2>2, <2>3
<1> QED
  BY <1>1, <1>2

LEMMA CarryMoved ==
  ASSUME NEW ah \in Byte, NEW al \in Byte, NEW bh \in Byte, NEW bl \in Byte,
         NEW c \in Bit, NEW low \in Byte, al + bl = 256 * c + low
  PROVE  /\ ah + bh + c \in 0..511
         /\ (256 * ah + al) + (256 * bh + bl) = 256 * (ah + bh + c) + low
BY DEF Byte, Bit

\* A wide sum is the sums of the low and the high bytes, the carry between.
LEMMA WideSum ==
  ASSUME NEW a \in Word, NEW b \in Word, NEW c,
         c = If(Lo(a) + Lo(b) > 255)
  PROVE  /\ Lo((a + b) % 65536) = (Lo(a) + Lo(b)) % 256
         /\ Hi((a + b) % 65536) = (Hi(a) + Hi(b) + c) % 256
         /\ (a + b > 65535) <=> (Hi(a) + Hi(b) + c > 255)
         /\ ((a % 4096) + (b % 4096) > 4095) <=> (Nibble(Hi(a)) + Nibble(Hi(b)) + c > 15)
<1> DEFINE ah == Hi(a)
           al == Lo(a)
           bh == Hi(b)
           bl == Lo(b)
           low == (al + bl) % 256
<1>1. /\ ah \in Byte /\ al \in Byte /\ a = 256 * ah + al
      /\ bh \in Byte /\ bl \in Byte /\ b = 256 * bh + bl
  BY HalvesOfWord DEF Pair
<1>2. c \in Bit /\ low \in Byte /\ al + bl = 256 * c + low
  BY <1>1, LowCarry
<1> HIDE DEF ah, al, bh, bl, low
<1>3. ah + bh + c \in 0..511 /\ a + b = 256 * (ah + bh + c) + low
  BY <1>1, <1>2, CarryMoved
<1>4. /\ ((a + b) % 65536) % 256 = low
      /\ ((a + b) % 65536) \div 256 = (ah + bh + c) % 256
      /\ (a + b > 65535) <=> (ah + bh + c > 255)
  BY <1>2, <1>3, WideFromBytes
<1>5. ((a % 4096) + (b % 4096) > 4095) <=> (Nibble(ah) + Nibble(bh) + c > 15)
  <2>1. \A hi \in Byte, lo \in Byte : (256 * hi + lo) % 4096 = 256 * (hi % 16) + lo
    BY DEF Byte
  <2>2. a % 4096 = 256 * Nibble(ah) + al /\ b % 4096 = 256 * Nibble(bh) + bl
    BY <1>1, <2>1 DEF Nibble
  <2>3. Nibble(ah) \in 0..15 /\ Nibble(bh) \in 0..15
    BY <1>1 DEF Nibble, Byte
  <2> QED
    BY <1>1, <1>2, <2>2, <2>3 DEF Byte, Bit
<1> QED
  BY <1>4, <1>5 DEF Lo, Hi, ah, al, bh, bl, low

LEMMA FlagsSet ==
  ASSUME NEW g \in Flags, NEW n, NEW h, NEW c
  PROVE  [g EXCEPT !.n = n, !.h = h, !.c = c].h = h /\ [g EXCEPT !.n = n, !.h = h, !.c = c].c = c
BY DEF Flags

\* What AddHl leaves is what the two byte additions would.
LEMMA AddHlAsBytes ==
  ASSUME TypeInv, NEW op \in {9, 25, 41, 57}, AddHl(op)
  PROVE  LET s == PairOf(P(op))
             low == Add(f, r["l"], Lo(s))
         IN AsTwoBytes(low, Adc(low.f, r["h"], Hi(s)))
<1> DEFINE s == PairOf(P(op))
           low == Add(f, r["l"], Lo(s))
           high == Adc(low.f, r["h"], Hi(s))
           c == If(Lo(HL) + Lo(s) > 255)
           sum == Add16(f, HL, s)
<1>1. HL \in Word /\ s \in Word
  <2>1. op \in Byte
    BY DEF Byte
  <2> QED
    BY <2>1, OpFields, HLType, PairOfType DEF TypeInv
<1>2. Hi(HL) = r["h"] /\ Lo(HL) = r["l"]
  <2>1. r["h"] \in Byte /\ r["l"] \in Byte
    BY DEF TypeInv, RegistersType, Reg
  <2>2. HL = Pair(r["h"], r["l"])
    BY DEF HL, PairOf, HighOf, LowOf
  <2> QED
    BY <2>1, <2>2, PairRange
<1>3. r' = WithPair(2, sum.v) /\ f' = sum.f
  BY DEF AddHl
<1>4. r'["l"] = Lo(sum.v) /\ r'["h"] = Hi(sum.v)
  <2>1. r' = [r EXCEPT !["h"] = Hi(sum.v), !["l"] = Lo(sum.v)]
    BY <1>3 DEF WithPair, HighOf, LowOf
  <2>2. r \in [Reg -> Byte] /\ "h" \in Reg /\ "l" \in Reg
    BY DEF TypeInv, RegistersType, Reg
  <2> HIDE DEF sum
  <2> QED
    BY <2>1, <2>2
<1>5. f'.h = If((HL % 4096) + (s % 4096) > 4095) /\ f'.c = If(HL + s > 65535)
  <2> DEFINE h == If((HL % 4096) + (s % 4096) > 4095)
             k == If(HL + s > 65535)
  <2>1. f' = [f EXCEPT !.n = 0, !.h = h, !.c = k]
    BY <1>3 DEF Add16
  <2> HIDE DEF h, k
  <2>2. f \in Flags
    BY DEF TypeInv, RegistersType
  <2>3. f'.h = h /\ f'.c = k
    BY <2>1, <2>2, FlagsSet
  <2> QED
    BY <2>3 DEF h, k
<1>6. sum.v = (HL + s) % 65536
  BY DEF Add16
<1>7. low.v = (Lo(HL) + Lo(s)) % 256 /\ low.f.c = c
  <2>1. Lo(HL) \in Nat /\ Lo(s) \in Nat
    BY <1>1, HalvesOfWord DEF Byte
  <2>2. Lo(HL) + Lo(s) + 0 = Lo(HL) + Lo(s)
    BY <2>1
  <2> QED
    BY <1>2, <2>2 DEF Add, Sum
<1>8. /\ high.v = (Hi(HL) + Hi(s) + c) % 256
      /\ high.f.h = If(Nibble(Hi(HL)) + Nibble(Hi(s)) + c > 15)
      /\ high.f.c = If(Hi(HL) + Hi(s) + c > 255)
  BY <1>2, <1>7 DEF Adc, Sum
<1>9. /\ Lo((HL + s) % 65536) = (Lo(HL) + Lo(s)) % 256
      /\ Hi((HL + s) % 65536) = (Hi(HL) + Hi(s) + c) % 256
      /\ (HL + s > 65535) <=> (Hi(HL) + Hi(s) + c > 255)
      /\ ((HL % 4096) + (s % 4096) > 4095) <=> (Nibble(Hi(HL)) + Nibble(Hi(s)) + c > 15)
  BY <1>1, WideSum
<1>10. AsTwoBytes(low, high)
  <2> HIDE DEF low, high, c, s, sum
  <2>1. If((HL % 4096) + (s % 4096) > 4095) = If(Nibble(Hi(HL)) + Nibble(Hi(s)) + c > 15)
        /\ If(HL + s > 65535) = If(Hi(HL) + Hi(s) + c > 255)
    BY <1>9 DEF If
  <2> QED
    BY <1>4, <1>5, <1>6, <1>7, <1>8, <1>9, <2>1 DEF AsTwoBytes
<1> QED
  BY <1>10

\* An instruction records its opcode; a CB-prefixed one its suffix beyond the bytes.
LEMMA LoadNames ==
  ASSUME NEW op, Load(op)
  PROVE  insn' = op
<1>1. ASSUME NEW n, NEW m, Runs(op, n, m) PROVE insn' = op
  BY <1>1 DEF Runs, Goes, Ends
<1>2. CASE LoadWord(op)
  BY <1>1, <1>2 DEF LoadWord
<1>3. CASE StoreA(op)
  BY <1>1, <1>3 DEF StoreA
<1>4. CASE LoadA(op)
  BY <1>1, <1>4 DEF LoadA
<1>5. CASE LoadByte(op)
  BY <1>1, <1>5 DEF LoadByte
<1>6. CASE LoadRegister(op)
  BY <1>1, <1>6 DEF LoadRegister
<1>7. CASE StoreRegister(op)
  BY <1>1, <1>7 DEF StoreRegister
<1>8. CASE StoreSp(op)
  BY <1>1, <1>8 DEF StoreSp
<1>9. CASE Absolute(op)
  BY <1>1, <1>9 DEF Absolute
<1>10. CASE HighPage(op)
  BY <1>1, <1>10 DEF HighPage
<1>11. CASE LoadSp(op)
  BY <1>1, <1>11 DEF LoadSp
<1>12. CASE LoadHlSp(op)
  BY <1>1, <1>12 DEF LoadHlSp
<1> QED
  BY <1>2, <1>3, <1>4, <1>5, <1>6, <1>7, <1>8, <1>9, <1>10, <1>11, <1>12 DEF Load

LEMMA ComputeNames ==
  ASSUME TypeInv, NEW op, Compute(op)
  PROVE  insn' = op \/ insn' \notin Byte
<1>1. ASSUME NEW n, NEW m, Runs(op, n, m) PROVE insn' = op
  BY <1>1 DEF Runs, Goes, Ends
<1>2. CASE IncPair(op)
  BY <1>1, <1>2 DEF IncPair
<1>3. CASE DecPair(op)
  BY <1>1, <1>3 DEF DecPair
<1>4. CASE AddHl(op)
  BY <1>1, <1>4 DEF AddHl
<1>5. CASE IncDec(op)
  BY <1>1, <1>5 DEF IncDec
<1>6. CASE OnA(op)
  BY <1>1, <1>6 DEF OnA
<1>7. CASE Adjust(op)
  BY <1>7 DEF Adjust, Ends
<1>8. CASE ArithmeticRegister(op)
  BY <1>8 DEF ArithmeticRegister, Ends
<1>9. CASE LogicalRegister(op)
  BY <1>9 DEF LogicalRegister, Ends
<1>10. CASE WithImmediate(op)
  BY <1>10 DEF WithImmediate, Ends
<1>11. CASE AddSp(op)
  BY <1>1, <1>11 DEF AddSp
<1>12. ASSUME NEW cb \in Suffixes, NEW m, Runs(256 + cb, 1, m) PROVE insn' \notin Byte
  <2>1. cb \in Byte
    BY SuffixType DEF TypeInv
  <2>2. insn' = 256 + cb
    BY <1>12 DEF Runs, Goes, Ends
  <2> QED
    BY <2>1, <2>2 DEF Byte
<1>13. CASE CbRotate(op)
  BY <1>12, <1>13 DEF CbRotate
<1>14. CASE CbBit(op)
  BY <1>12, <1>14 DEF CbBit
<1> QED
  BY <1>2, <1>3, <1>4, <1>5, <1>6, <1>7, <1>8, <1>9, <1>10, <1>11, <1>13, <1>14 DEF Compute

LEMMA JumpNames ==
  ASSUME NEW op, Jump(op)
  PROVE  insn' = op
<1>1. ASSUME NEW n, NEW m, Goes(op, n, m) \/ Runs(op, n, m) PROVE insn' = op
  BY <1>1 DEF Runs, Goes, Ends
<1>2. ASSUME NEW t, NEW m, NEW i, Returns(op, m, i) \/ Calls(op, i, t, m) PROVE insn' = op
  BY <1>2 DEF Returns, Calls, Ends
<1>3. CASE Jr(op)
  BY <1>1, <1>3 DEF Jr
<1>4. CASE Jp(op)
  BY <1>1, <1>4 DEF Jp
<1>5. CASE JpHl(op)
  BY <1>1, <1>5 DEF JpHl
<1>6. CASE Call(op)
  BY <1>1, <1>2, <1>6 DEF Call
<1>7. CASE Rst(op)
  BY <1>2, <1>7 DEF Rst
<1>8. CASE Ret(op)
  BY <1>8 DEF Ret, Returns, Ends
<1>9. CASE RetIf(op)
  BY <1>1, <1>9 DEF RetIf, Returns, Ends
<1> QED
  BY <1>3, <1>4, <1>5, <1>6, <1>7, <1>8, <1>9 DEF Jump

LEMMA Names ==
  ASSUME TypeInv, NEW op, Execute(op)
  PROVE  insn' = op \/ insn' \notin Byte
<1>1. CASE PushPair(op)
  BY <1>1 DEF PushPair, Runs, Goes, Ends
<1>2. CASE PopPair(op)
  BY <1>2 DEF PopPair, Runs, Goes, Ends
<1>3. CASE Control(op)
  BY <1>3 DEF Control, Nop, Stop, Halt, Di, Ei, Unimplemented, Controls, Ends
<1> QED
  BY <1>1, <1>2, <1>3, LoadNames, ComputeNames, JumpNames DEF Execute

\* The opcodes of ADD HL,rr run nothing else.
LEMMA OnlyAddHl ==
  ASSUME NEW op \in {9, 25, 41, 57}, Execute(op)
  PROVE  AddHl(op)
<1>1. X(op) = 0 /\ Z(op) = 1
  BY DEF X, Z
<1>2. ~Load(op)
  BY <1>1 DEF Load, LoadWord, StoreA, LoadA, LoadByte, LoadRegister, StoreRegister, StoreSp,
              Absolute, HighPage, LoadSp, LoadHlSp
<1>3. ~Jump(op) /\ ~PushPair(op) /\ ~PopPair(op)
  BY <1>1 DEF Jump, Jr, Jp, JpHl, Call, Rst, Ret, RetIf, PushPair, PopPair
<1>4. ~Control(op)
  <2>1. op \notin {0, 16, 118, 243, 251} \union Illegal
    BY DEF Illegal
  <2> QED
    BY <2>1 DEF Control, Nop, Stop, Halt, Di, Ei, Unimplemented
<1>5. Compute(op)
  BY <1>2, <1>3, <1>4 DEF Execute
<1> QED
  BY <1>1, <1>5 DEF Compute, IncPair, DecPair, IncDec, OnA, Adjust, ArithmeticRegister,
                    LogicalRegister, WithImmediate, AddSp, CbRotate, CbBit

\* ADD HL,rr gives the HL, H and C that ADD and ADC of the bytes would, for
\* every pair of words.
THEOREM WideAddsCorrect == Spec => WideAddsAsBytes
<1> DEFINE Wide == insn' \in {9, 25, 41, 57} /\ steps' # steps =>
                     LET s == PairOf(P(insn'))
                         low == Add(f, r["l"], Lo(s))
                     IN AsTwoBytes(low, Adc(low.f, r["h"], Hi(s)))
<1>1. TypeInv /\ [Next]_vars => [Wide]_vars
  <2> SUFFICES ASSUME TypeInv, Next, insn' \in {9, 25, 41, 57}, steps' # steps
               PROVE  LET s == PairOf(P(insn'))
                          low == Add(f, r["l"], Lo(s))
                      IN AsTwoBytes(low, Adc(low.f, r["h"], Hi(s)))
    OBVIOUS
  <2>1. Step
    BY DEF Next, Done, vars
  <2>2. PICK op \in Code : Execute(op)
    BY <2>1 DEF Step
  <2>3. insn' = op
    BY <2>2, Names DEF Byte
  <2>4. AddHl(op)
    BY <2>2, <2>3, OnlyAddHl
  <2> HIDE DEF Wide
  <2> QED
    BY <2>3, <2>4, AddHlAsBytes
<1>2. Init => TypeInv
  BY InitTypes, TypeParts DEF TypeInv
<1>3. TypeInv /\ [Next]_vars => TypeInv'
  BY StepInv DEF vars, memory, TypeInv, MemoryType, RegistersType, ControlType, RecordType
<1> QED
  BY <1>1, <1>2, <1>3, PTL DEF Spec, WideAddsAsBytes

-----------------------------------------------------------------------------
(* Decimal sums and differences. *)

LEMMA DigitsOf ==
  ASSUME NEW hi \in 0..9, NEW lo \in 0..9
  PROVE  Decimal(16 * hi + lo) /\ Digits(16 * hi + lo) = 10 * hi + lo
<1>1. (16 * hi + lo) % 16 = lo /\ (16 * hi + lo) \div 16 = hi
  OBVIOUS
<1> QED
  BY <1>1 DEF Decimal, Digits, Nibble

LEMMA DecimalParts ==
  ASSUME NEW v \in Byte, Decimal(v)
  PROVE  \E hi \in 0..9, lo \in 0..9 :
           v = 16 * hi + lo /\ Digits(v) = 10 * hi + lo /\ Nibble(v) = lo
<1>1. v = 16 * (v \div 16) + (v % 16) /\ v % 16 \in 0..9 /\ v \div 16 \in 0..9
  BY DEF Byte, Decimal, Nibble
<1> QED
  BY <1>1 DEF Digits, Nibble

\* The correction of a sum: l and h are the sums of the low and of the high digits.
LEMMA SumAdjusted ==
  ASSUME NEW l \in 0..19, NEW h \in 0..18, NEW low, NEW high, NEW total,
         total = 16 * h + l,
         low = IF l > 9 THEN 6 ELSE 0,
         high = IF total > 153 THEN 96 ELSE 0
  PROVE  LET w == ((total % 256) + low + high) % 256 IN
         /\ Decimal(w)
         /\ Digits(w) + 100 * If(high = 96) = 10 * h + l
<1> DEFINE w == ((total % 256) + low + high) % 256
<1>1. CASE l <= 9 /\ h <= 9
  <2>1. low = 0 /\ high = 0 /\ w = 16 * h + l
    BY <1>1
  <2> QED
    BY <1>1, <2>1, DigitsOf DEF If
<1>2. CASE l <= 9 /\ h > 9
  <2>1. low = 0 /\ high = 96 /\ w = 16 * (h - 10) + l
    BY <1>2
  <2> QED
    BY <1>2, <2>1, DigitsOf DEF If
<1>3. CASE l > 9 /\ h <= 8
  <2>1. low = 6 /\ high = 0 /\ w = 16 * (h + 1) + (l - 10)
    BY <1>3
  <2> QED
    BY <1>3, <2>1, DigitsOf DEF If
<1>4. CASE l > 9 /\ h > 8
  <2>1. low = 6 /\ high = 96 /\ w = 16 * (h - 9) + (l - 10)
    BY <1>4
  <2> QED
    BY <1>4, <2>1, DigitsOf DEF If
<1> QED
  BY <1>1, <1>2, <1>3, <1>4

\* The same for a difference.
LEMMA DifferenceAdjusted ==
  ASSUME NEW l \in -10..9, NEW h \in -9..9, NEW low, NEW high, NEW total,
         total = 16 * h + l,
         low = IF l < 0 THEN 6 ELSE 0,
         high = IF total < 0 THEN 96 ELSE 0
  PROVE  LET w == ((total % 256) - low - high) % 256 IN
         /\ Decimal(w)
         /\ Digits(w) - 100 * If(high = 96) = 10 * h + l
<1> DEFINE w == ((total % 256) - low - high) % 256
<1>1. CASE l >= 0 /\ h >= 0
  <2>1. low = 0 /\ high = 0 /\ w = 16 * h + l
    BY <1>1
  <2> QED
    BY <1>1, <2>1, DigitsOf DEF If
<1>2. CASE l >= 0 /\ h < 0
  <2>1. low = 0 /\ high = 96 /\ w = 16 * (h + 10) + l
    BY <1>2
  <2> QED
    BY <1>2, <2>1, DigitsOf DEF If
<1>3. CASE l < 0 /\ h >= 1
  <2>1. low = 6 /\ high = 0 /\ w = 16 * (h - 1) + (l + 10)
    BY <1>3
  <2> QED
    BY <1>3, <2>1, DigitsOf DEF If
<1>4. CASE l < 0 /\ h < 1
  <2>1. low = 6 /\ high = 96 /\ w = 16 * (h + 9) + (l + 10)
    BY <1>4
  <2> QED
    BY <1>4, <2>1, DigitsOf DEF If
<1> QED
  BY <1>1, <1>2, <1>3, <1>4

LEMMA FlagsZSet ==
  ASSUME NEW g \in Flags, NEW z, NEW h, NEW c
  PROVE  [g EXCEPT !.z = z, !.h = h, !.c = c].c = c
BY DEF Flags

\* DAA, with its corrections named.
LEMMA DaaMeans ==
  ASSUME NEW g \in Flags, NEW a, NEW low, NEW high, NEW w,
         low = IF g.h = 1 \/ (g.n = 0 /\ Nibble(a) > 9) THEN 6 ELSE 0,
         high = IF g.c = 1 \/ (g.n = 0 /\ a > 153) THEN 96 ELSE 0,
         w = (IF g.n = 1 THEN a - low - high ELSE a + low + high) % 256
  PROVE  Daa(g, a).v = w /\ Daa(g, a).f.c = If(high = 96)
<1> DEFINE after == [g EXCEPT !.z = Zero(w), !.h = 0, !.c = If(high = 96)]
<1>1. Daa(g, a) = [v |-> w, f |-> after]
  BY DEF Daa
<1>2. after.c = If(high = 96)
  BY FlagsZSet
<1> HIDE DEF after
<1> QED
  BY <1>1, <1>2

\* DAA after an addition of decimal bytes.
LEMMA DaaOfSum ==
  ASSUME NEW x \in Byte, NEW y \in Byte, NEW carry \in Bit, Decimal(x), Decimal(y)
  PROVE  LET s == Sum(x, y, carry)
             d == Daa(s.f, s.v)
         IN /\ Decimal(d.v)
            /\ Digits(d.v) + 100 * d.f.c = Digits(x) + Digits(y) + carry
<1>1. PICK xh \in 0..9, xl \in 0..9 : x = 16 * xh + xl /\ Digits(x) = 10 * xh + xl /\ Nibble(x) = xl
  BY DecimalParts
<1>2. PICK yh \in 0..9, yl \in 0..9 : y = 16 * yh + yl /\ Digits(y) = 10 * yh + yl /\ Nibble(y) = yl
  BY DecimalParts
<1> DEFINE s == Sum(x, y, carry)
           l == xl + yl + carry
           h == xh + yh
           total == x + y + carry
           low == IF s.f.h = 1 \/ (s.f.n = 0 /\ Nibble(s.v) > 9) THEN 6 ELSE 0
           high == IF s.f.c = 1 \/ (s.f.n = 0 /\ s.v > 153) THEN 96 ELSE 0
           w == (s.v + low + high) % 256
<1>3. l \in 0..19 /\ h \in 0..18 /\ total = 16 * h + l
  BY <1>1, <1>2 DEF Bit
<1>4. s.v = total % 256 /\ s.f.n = 0 /\ s.f.h = If(l > 15) /\ s.f.c = If(total > 255)
  BY <1>1, <1>2 DEF Sum
<1> HIDE DEF s, l, h, total
<1>5. low = IF l > 9 THEN 6 ELSE 0
  <2>1. Nibble(s.v) = IF l > 15 THEN l - 16 ELSE l
    BY <1>3, <1>4 DEF Nibble
  <2>2. CASE l > 15
    BY <1>3, <1>4, <2>2 DEF If
  <2>3. CASE ~(l > 15)
    BY <1>3, <1>4, <2>1, <2>3 DEF If
  <2> QED
    BY <2>2, <2>3
<1>6. high = IF total > 153 THEN 96 ELSE 0
  <2>1. CASE total > 255
    BY <1>3, <1>4, <2>1 DEF If
  <2>2. CASE ~(total > 255)
    <3>1. s.v = total
      BY <1>3, <1>4, <2>2
    <3> QED
      BY <1>3, <1>4, <2>2, <3>1 DEF If
  <2> QED
    BY <2>1, <2>2
<1>7. Daa(s.f, s.v).v = w /\ Daa(s.f, s.v).f.c = If(high = 96)
  <2>1. s.f \in Flags
    BY SumGood DEF Good, s
  <2>2. (IF s.f.n = 1 THEN s.v - low - high ELSE s.v + low + high) = s.v + low + high
    BY <1>4
  <2>3. w = (IF s.f.n = 1 THEN s.v - low - high ELSE s.v + low + high) % 256
    BY <2>2
  <2>4. /\ low = IF s.f.h = 1 \/ (s.f.n = 0 /\ Nibble(s.v) > 9) THEN 6 ELSE 0
        /\ high = IF s.f.c = 1 \/ (s.f.n = 0 /\ s.v > 153) THEN 96 ELSE 0
    OBVIOUS
  <2> HIDE DEF w, low, high
  <2> QED
    BY <2>1, <2>3, <2>4, DaaMeans
<1> HIDE DEF low, high, w
<1>8. Decimal(w) /\ Digits(w) + 100 * If(high = 96) = 10 * h + l
  BY <1>3, <1>4, <1>5, <1>6, SumAdjusted DEF w
<1>9. 10 * h + l = Digits(x) + Digits(y) + carry
  BY <1>1, <1>2 DEF h, l, Bit
<1> QED
  BY <1>7, <1>8, <1>9 DEF s

\* DAA after a subtraction of decimal bytes.
LEMMA DaaOfDifference ==
  ASSUME NEW x \in Byte, NEW y \in Byte, NEW carry \in Bit, Decimal(x), Decimal(y)
  PROVE  LET s == Difference(x, y, carry)
             d == Daa(s.f, s.v)
         IN /\ Decimal(d.v)
            /\ Digits(d.v) - 100 * d.f.c = Digits(x) - Digits(y) - carry
<1>1. PICK xh \in 0..9, xl \in 0..9 : x = 16 * xh + xl /\ Digits(x) = 10 * xh + xl /\ Nibble(x) = xl
  BY DecimalParts
<1>2. PICK yh \in 0..9, yl \in 0..9 : y = 16 * yh + yl /\ Digits(y) = 10 * yh + yl /\ Nibble(y) = yl
  BY DecimalParts
<1> DEFINE s == Difference(x, y, carry)
           l == xl - yl - carry
           h == xh - yh
           total == x - y - carry
           low == IF s.f.h = 1 \/ (s.f.n = 0 /\ Nibble(s.v) > 9) THEN 6 ELSE 0
           high == IF s.f.c = 1 \/ (s.f.n = 0 /\ s.v > 153) THEN 96 ELSE 0
           w == (s.v - low - high) % 256
<1>3. l \in -10..9 /\ h \in -9..9 /\ total = 16 * h + l
  BY <1>1, <1>2 DEF Bit
<1>4. s.v = total % 256 /\ s.f.n = 1 /\ s.f.h = If(l < 0) /\ s.f.c = If(total < 0)
  <2>1. s.f.h = If(yl + carry > xl) /\ s.f.c = If(y + carry > x)
    BY <1>1, <1>2 DEF Difference
  <2>2. yl + carry > xl <=> l < 0
    BY <1>1, <1>2 DEF Bit
  <2>3. y + carry > x <=> total < 0
    BY DEF Bit, Byte
  <2>4. If(yl + carry > xl) = If(l < 0) /\ If(y + carry > x) = If(total < 0)
    BY <2>2, <2>3 DEF If
  <2> QED
    BY <2>1, <2>4 DEF Difference
<1> HIDE DEF s, l, h, total
<1>5. low = IF l < 0 THEN 6 ELSE 0
  BY <1>3, <1>4 DEF If
<1>6. high = IF total < 0 THEN 96 ELSE 0
  BY <1>3, <1>4 DEF If
<1>7. Daa(s.f, s.v).v = w /\ Daa(s.f, s.v).f.c = If(high = 96)
  <2>1. s.f \in Flags
    BY SumGood DEF Good, s
  <2>2. (IF s.f.n = 1 THEN s.v - low - high ELSE s.v + low + high) = s.v - low - high
    BY <1>4
  <2>3. w = (IF s.f.n = 1 THEN s.v - low - high ELSE s.v + low + high) % 256
    BY <2>2
  <2>4. /\ low = IF s.f.h = 1 \/ (s.f.n = 0 /\ Nibble(s.v) > 9) THEN 6 ELSE 0
        /\ high = IF s.f.c = 1 \/ (s.f.n = 0 /\ s.v > 153) THEN 96 ELSE 0
    OBVIOUS
  <2> HIDE DEF w, low, high
  <2> QED
    BY <2>1, <2>3, <2>4, DaaMeans
<1> HIDE DEF low, high, w
<1>8. Decimal(w) /\ Digits(w) - 100 * If(high = 96) = 10 * h + l
  BY <1>3, <1>4, <1>5, <1>6, DifferenceAdjusted DEF w
<1>9. 10 * h + l = Digits(x) - Digits(y) - carry
  BY <1>1, <1>2 DEF h, l, Bit
<1> QED
  BY <1>7, <1>8, <1>9 DEF s

\* A and the flags are those of the sum or difference on record until it is adjusted.
SumHeld ==
  /\ arith.adjusted => arith.op # "none"
  /\ arith.op = "add" /\ ~arith.adjusted =>
       /\ r["a"] = Sum(arith.x, arith.y, arith.carry).v
       /\ f = Sum(arith.x, arith.y, arith.carry).f
  /\ arith.op = "sub" /\ ~arith.adjusted =>
       /\ r["a"] = Difference(arith.x, arith.y, arith.carry).v
       /\ f = Difference(arith.x, arith.y, arith.carry).f

DecimalInv == SumHeld /\ DecimalAdjusts

LEMMA NothingHeld ==
  ASSUME arith' = NoArith
  PROVE  DecimalInv'
BY DEF NoArith, DecimalInv, SumHeld, DecimalAdjusts

\* A sum or difference goes on record.
LEMMA ArithmeticHeld ==
  ASSUME TypeInv, NEW k \in 0..3, NEW b \in Byte, Arithmetic(k, b)
  PROVE  DecimalInv'
<1>1. r["a"] \in Byte /\ r \in [Reg -> Byte] /\ "a" \in Reg
  BY RegNames DEF TypeInv, RegistersType
<1>2. CASE k = 0
  <2>1. arith' = [op |-> "add", x |-> r["a"], y |-> b, carry |-> 0, adjusted |-> FALSE]
    BY <1>2 DEF Arithmetic
  <2>2. r'["a"] = Sum(r["a"], b, 0).v /\ f' = Sum(r["a"], b, 0).f
    BY <1>1, <1>2 DEF Arithmetic, SetA, Add
  <2> QED
    BY <2>1, <2>2 DEF DecimalInv, SumHeld, DecimalAdjusts
<1>3. CASE k = 1
  <2>1. arith' = [op |-> "add", x |-> r["a"], y |-> b, carry |-> f.c, adjusted |-> FALSE]
    BY <1>3 DEF Arithmetic
  <2>2. r'["a"] = Sum(r["a"], b, f.c).v /\ f' = Sum(r["a"], b, f.c).f
    BY <1>1, <1>3 DEF Arithmetic, SetA, Adc
  <2> QED
    BY <2>1, <2>2 DEF DecimalInv, SumHeld, DecimalAdjusts
<1>4. CASE k = 2
  <2>1. arith' = [op |-> "sub", x |-> r["a"], y |-> b, carry |-> 0, adjusted |-> FALSE]
    BY <1>4 DEF Arithmetic
  <2>2. r'["a"] = Difference(r["a"], b, 0).v /\ f' = Difference(r["a"], b, 0).f
    BY <1>1, <1>4 DEF Arithmetic, SetA, Sub
  <2> QED
    BY <2>1, <2>2 DEF DecimalInv, SumHeld, DecimalAdjusts
<1>5. CASE k = 3
  <2>1. arith' = [op |-> "sub", x |-> r["a"], y |-> b, carry |-> f.c, adjusted |-> FALSE]
    BY <1>5 DEF Arithmetic
  <2>2. r'["a"] = Difference(r["a"], b, f.c).v /\ f' = Difference(r["a"], b, f.c).f
    BY <1>1, <1>5 DEF Arithmetic, SetA, Sbc
  <2> QED
    BY <2>1, <2>2 DEF DecimalInv, SumHeld, DecimalAdjusts
<1> QED
  BY <1>2, <1>3, <1>4, <1>5

\* DAA adjusts what is on record.
LEMMA AdjustHeld ==
  ASSUME TypeInv, DecimalInv, NEW op, Adjust(op)
  PROVE  DecimalInv'
<1>1. CASE arith.op = "none" \/ arith.adjusted
  <2>1. arith' = NoArith
    BY <1>1 DEF Adjust
  <2> QED
    BY <2>1, NothingHeld
<1>2. CASE ~(arith.op = "none" \/ arith.adjusted)
  <2> DEFINE d == Daa(f, r["a"])
  <2>1. r'["a"] = d.v /\ f' = d.f
    <3>1. r \in [Reg -> Byte] /\ "a" \in Reg
      BY RegNames DEF TypeInv, RegistersType
    <3>2. r' = [r EXCEPT !["a"] = d.v] /\ f' = d.f
      BY DEF Adjust, SetA
    <3> HIDE DEF d
    <3> QED
      BY <3>1, <3>2
  <2>2. arith \in Ariths
    BY DEF TypeInv, RecordType
  <2>3. arith' = [arith EXCEPT !.adjusted = TRUE]
    BY <1>2 DEF Adjust
  <2>4. /\ arith'.op = arith.op /\ arith'.x = arith.x /\ arith'.y = arith.y
        /\ arith'.carry = arith.carry /\ arith'.adjusted = TRUE
    BY <2>2, <2>3 DEF Ariths
  <2>5. /\ arith.x \in Byte /\ arith.y \in Byte /\ arith.carry \in Bit
        /\ arith.op \in {"add", "sub"}
    BY <1>2, <2>2 DEF Ariths
  <2> HIDE DEF d
  <2>6. SumHeld'
    BY <2>4, <2>5 DEF SumHeld
  <2>7. ASSUME Decimal(arith.x), Decimal(arith.y)
        PROVE  /\ Decimal(d.v)
               /\ arith.op = "add" =>
                    Digits(d.v) + 100 * d.f.c = Digits(arith.x) + Digits(arith.y) + arith.carry
               /\ arith.op = "sub" =>
                    Digits(d.v) - 100 * d.f.c = Digits(arith.x) - Digits(arith.y) - arith.carry
    <3>1. CASE arith.op = "add"
      <4>1. d = Daa(Sum(arith.x, arith.y, arith.carry).f, Sum(arith.x, arith.y, arith.carry).v)
        BY <1>2, <3>1 DEF d, DecimalInv, SumHeld
      <4>2. Decimal(d.v) /\ Digits(d.v) + 100 * d.f.c = Digits(arith.x) + Digits(arith.y) + arith.carry
        BY <2>5, <2>7, <4>1, DaaOfSum
      <4> QED
        BY <3>1, <4>2
    <3>2. CASE arith.op = "sub"
      <4>1. d = Daa(Difference(arith.x, arith.y, arith.carry).f,
                    Difference(arith.x, arith.y, arith.carry).v)
        BY <1>2, <3>2 DEF d, DecimalInv, SumHeld
      <4>2. Decimal(d.v) /\ Digits(d.v) - 100 * d.f.c = Digits(arith.x) - Digits(arith.y) - arith.carry
        BY <2>5, <2>7, <4>1, DaaOfDifference
      <4> QED
        BY <3>2, <4>2
    <3> QED
      BY <2>5, <3>1, <3>2
  <2>8. DecimalAdjusts'
    BY <2>1, <2>4, <2>7 DEF DecimalAdjusts
  <2> QED
    BY <2>6, <2>8 DEF DecimalInv
<1> QED
  BY <1>1, <1>2

\* Every other instruction forgets the record.
LEMMA DecimalStep ==
  ASSUME TypeInv, DecimalInv, NEW op \in Byte, Execute(op)
  PROVE  DecimalInv'
<1>1. ASSUME NEW g, NEW n, NEW m, NEW i, NEW q, Goes(g, n, m) \/ Runs(g, n, m) \/ Controls(g, n, m, i, q)
      PROVE  arith' = NoArith
  BY <1>1 DEF Runs, Goes, Controls
<1>2. CASE Adjust(op)
  BY <1>2, AdjustHeld
<1>3. CASE ArithmeticRegister(op)
  <2>1. PICK b \in Source(Z(op)) : Arithmetic(Y(op), b)
    BY <1>3 DEF ArithmeticRegister
  <2>2. b \in Byte /\ Y(op) \in 0..3
    BY <1>3, OpFields, SourceType DEF ArithmeticRegister, TypeInv
  <2> QED
    BY <2>1, <2>2, ArithmeticHeld
<1>4. CASE LogicalRegister(op)
  <2>1. arith' = NoArith
    BY <1>4 DEF LogicalRegister, Logical
  <2> QED
    BY <2>1, NothingHeld
<1>5. CASE WithImmediate(op)
  <2>1. PICK b \in Imm8 : (Y(op) < 4 /\ Arithmetic(Y(op), b)) \/ Logical(Y(op), b)
    BY <1>5 DEF WithImmediate
  <2>2. CASE Logical(Y(op), b)
    BY <2>2, NothingHeld DEF Logical
  <2>3. CASE Y(op) < 4 /\ Arithmetic(Y(op), b)
    <3>1. b \in Byte /\ Y(op) \in 0..3
      BY <2>3, OpFields, OperandTypes DEF TypeInv
    <3> QED
      BY <2>3, <3>1, ArithmeticHeld
  <2> QED
    BY <2>1, <2>2, <2>3
<1>6. CASE Load(op)
  <2>1. arith' = NoArith
    BY <1>1, <1>6 DEF Load, LoadWord, StoreA, LoadA, LoadByte, LoadRegister, StoreRegister,
                      StoreSp, Absolute, HighPage, LoadSp, LoadHlSp
  <2> QED
    BY <2>1, NothingHeld
<1>7. CASE IncPair(op) \/ DecPair(op) \/ AddHl(op) \/ IncDec(op) \/ OnA(op) \/ AddSp(op)
  <2>1. arith' = NoArith
    BY <1>1, <1>7 DEF IncPair, DecPair, AddHl, IncDec, OnA, AddSp
  <2> QED
    BY <2>1, NothingHeld
<1>8. CASE CbRotate(op) \/ CbBit(op)
  <2>1. arith' = NoArith
    BY <1>1, <1>8 DEF CbRotate, CbBit
  <2> QED
    BY <2>1, NothingHeld
<1>9. CASE Jump(op)
  <2>1. arith' = NoArith
    BY <1>1, <1>9 DEF Jump, Jr, Jp, JpHl, Call, Rst, Ret, RetIf, Calls, Returns
  <2> QED
    BY <2>1, NothingHeld
<1>10. CASE PushPair(op) \/ PopPair(op) \/ Control(op)
  <2>1. arith' = NoArith
    <3>1. CASE PushPair(op) \/ PopPair(op)
      BY <1>1, <3>1 DEF PushPair, PopPair
    <3>2. CASE Control(op)
      BY <3>2 DEF Control, Nop, Stop, Halt, Di, Ei, Unimplemented, Controls
    <3> QED
      BY <1>10, <3>1, <3>2
  <2> QED
    BY <2>1, NothingHeld
<1> QED
  BY <1>2, <1>3, <1>4, <1>5, <1>6, <1>7, <1>8, <1>9, <1>10 DEF Execute, Compute

\* DAA gives the decimal sum or difference of any two decimal bytes and carry,
\* as long as DAA follows the instruction directly.
THEOREM DecimalCorrect == Spec => []DecimalAdjusts
<1> DEFINE Inv == TypeInv /\ DecimalInv
<1>1. Init => Inv
  <2> SUFFICES ASSUME Init PROVE Inv
    OBVIOUS
  <2>1. TypeInv
    BY InitTypes, TypeParts DEF TypeInv
  <2>2. arith.op = "none" /\ arith.adjusted = FALSE
    BY DEF Init, NoArith
  <2> QED
    BY <2>1, <2>2 DEF DecimalInv, SumHeld, DecimalAdjusts
<1>2. Inv /\ [Next]_vars => Inv'
  <2> SUFFICES ASSUME TypeInv, DecimalInv, [Next]_vars PROVE Inv'
    OBVIOUS
  <2>1. CASE Step
    <3>1. PICK op \in Code : Execute(op)
      BY <2>1 DEF Step
    <3>2. op \in Byte
      BY <3>1, CodeType
    <3> QED
      BY <2>1, <3>1, <3>2, StepInv, DecimalStep DEF Next
  <2>2. CASE UNCHANGED vars
    <3>1. TypeInv'
      BY <2>2 DEF vars, memory, TypeInv, MemoryType, RegistersType, ControlType, RecordType
    <3>2. DecimalInv'
      BY <2>2 DEF vars, DecimalInv, SumHeld, DecimalAdjusts
    <3> QED
      BY <3>1, <3>2
  <2> QED
    BY <2>1, <2>2 DEF Next, Done
<1>3. Inv => DecimalAdjusts
  BY DEF DecimalInv
<1> QED
  BY <1>1, <1>2, <1>3, PTL DEF Spec

-----------------------------------------------------------------------------
(* The stack.  The sequence of words that CallStack speaks of is made of the *)
(* bytes from SP up to the bottom of the stack; StackInv says that a tidy    *)
(* program has written all of them, and a whole number of words.  Each       *)
(* instruction leaves those bytes alone, puts a word below them, takes the   *)
(* lowest one, or ends the tidiness.                                         *)

\* The stack in the memory m from s up to its bottom: whole words, all written.
StackIn(m, s) ==
  /\ s \in Word
  /\ s <= Base
  /\ (Base - s) % 2 = 0
  /\ \A x \in s..(Base - 1) : x \in DOMAIN m /\ m[x] \in Byte

WordAt(m, s, i) == Pair(m[s + 2 * i - 1], m[s + 2 * i - 2])

WordsIn(m, s) == [i \in 1..((Base - s) \div 2) |-> WordAt(m, s, i)]

LEMMA WordBounds ==
  ASSUME NEW x \in Word
  PROVE  x \in Int /\ 0 <= x
BY SMT DEF Word

LEMMA WordBelow ==
  ASSUME NEW y \in Word, NEW x \in Int, 0 <= x, x <= y
  PROVE  x \in Word
<1>1. y \in Int /\ y < 65536
  BY SMT DEF Word
<1>2. W(x) = x
  BY <1>1, SMT DEF W
<1> QED
  BY <1>2, WordRange

LEMMA StackSize ==
  ASSUME NEW s, s \in Int, s <= Base, (Base - s) % 2 = 0
  PROVE  (Base - s) \div 2 \in Nat /\ s + 2 * ((Base - s) \div 2) = Base
<1>1. Base \in Int
  BY InsnAssumption, SMT DEF InsnAssumption, Word
<1>2. PICK d \in Nat : Base = s + d
  BY <1>1
<1>3. d % 2 = 0 /\ (Base - s) \div 2 = d \div 2
  BY <1>2
<1>4. d = 2 * (d \div 2) + (d % 2) /\ d \div 2 \in Nat
  BY Halved
<1> QED
  BY <1>2, <1>3, <1>4

LEMMA WordsAreSeq ==
  ASSUME NEW m, NEW s, StackIn(m, s)
  PROVE  /\ WordsIn(m, s) \in Seq(Word)
         /\ Len(WordsIn(m, s)) = (Base - s) \div 2
         /\ \A i \in 1..((Base - s) \div 2) : WordsIn(m, s)[i] = WordAt(m, s, i)
<1> DEFINE n == (Base - s) \div 2
<1>1. s \in Int
  BY SMT DEF StackIn, Word
<1>2. n \in Nat /\ s + 2 * n = Base
  BY <1>1, StackSize DEF StackIn
<1> HIDE DEF n
<1>3. \A i \in 1..n : WordAt(m, s, i) \in Word
  <2> SUFFICES ASSUME NEW i \in 1..n PROVE WordAt(m, s, i) \in Word
    OBVIOUS
  <2>1. s + 2 * i - 1 \in s..(Base - 1) /\ s + 2 * i - 2 \in s..(Base - 1)
    BY <1>1, <1>2
  <2>2. m[s + 2 * i - 1] \in Byte /\ m[s + 2 * i - 2] \in Byte
    BY <2>1 DEF StackIn
  <2> QED
    BY <2>2, PairRange DEF WordAt
<1>4. WordsIn(m, s) = [i \in 1..n |-> WordAt(m, s, i)]
  BY DEF WordsIn, n
<1>5. WordsIn(m, s) \in [1..n -> Word]
  BY <1>3, <1>4
<1>6. WordsIn(m, s) \in Seq(Word)
  BY <1>2, <1>5, SeqDef
<1>7. DOMAIN WordsIn(m, s) = 1..n /\ DOMAIN WordsIn(m, s) = 1..Len(WordsIn(m, s))
      /\ Len(WordsIn(m, s)) \in Nat
  BY <1>4, <1>6, LenProperties
<1>8. Len(WordsIn(m, s)) = n
  BY <1>2, <1>7
<1> QED
  BY <1>4, <1>6, <1>8 DEF n

\* Memory that still holds the stack.
LEMMA StackKept ==
  ASSUME NEW m, NEW s, StackIn(m, s), NEW m2,
         \A x \in s..(Base - 1) : x \in DOMAIN m2 /\ m2[x] = m[x]
  PROVE  StackIn(m2, s) /\ WordsIn(m2, s) = WordsIn(m, s)
<1>1. StackIn(m2, s)
  BY Zenon DEF StackIn
<1>2. s \in Int
  BY SMT DEF StackIn, Word
<1>3. (Base - s) \div 2 \in Nat /\ s + 2 * ((Base - s) \div 2) = Base
  BY <1>2, StackSize DEF StackIn
<1>4. ASSUME NEW i \in 1..((Base - s) \div 2) PROVE WordAt(m2, s, i) = WordAt(m, s, i)
  <2>1. s + 2 * i - 1 \in s..(Base - 1) /\ s + 2 * i - 2 \in s..(Base - 1)
    BY <1>2, <1>3
  <2> QED
    BY <2>1, Zenon DEF WordAt
<1> QED
  BY <1>1, <1>4, Zenon DEF WordsIn

\* The words of a stack that is one word longer.
LEMMA WordOnTop ==
  ASSUME NEW m, NEW s, StackIn(m, s), s + 2 <= Base
  PROVE  /\ StackIn(m, s + 2)
         /\ WordsIn(m, s) # <<>>
         /\ Head(WordsIn(m, s)) = Pair(m[s + 1], m[s])
         /\ Tail(WordsIn(m, s)) = WordsIn(m, s + 2)
         /\ WordsIn(m, s) = <<Pair(m[s + 1], m[s])>> \o WordsIn(m, s + 2)
<1> DEFINE n == (Base - s) \div 2
           t == WordsIn(m, s + 2)
           u == WordsIn(m, s)
<1>1. s \in Int /\ s + 2 \in Word /\ Base \in Int
  <2>1. Base \in Word
    BY InsnAssumption DEF InsnAssumption
  <2>2. s \in Word
    BY DEF StackIn
  <2>3. s \in Int /\ 0 <= s /\ Base \in Int
    BY <2>1, <2>2, WordBounds
  <2>4. s + 2 \in Int /\ 0 <= s + 2
    BY <2>3
  <2> QED
    BY <2>1, <2>3, <2>4, WordBelow
<1>2. n \in Nat /\ s + 2 * n = Base
  BY <1>1, StackSize DEF StackIn
<1>3. (Base - (s + 2)) % 2 = 0 /\ (Base - (s + 2)) \div 2 = n - 1 /\ n - 1 \in Nat
  <2>1. Base - (s + 2) = 2 * (n - 1) /\ n - 1 \in Nat
    BY <1>1, <1>2
  <2> HIDE DEF n
  <2> QED
    BY <2>1
<1>4. StackIn(m, s + 2)
  <2>1. \A x \in (s + 2)..(Base - 1) : x \in s..(Base - 1)
    BY <1>1
  <2>2. \A x \in (s + 2)..(Base - 1) : x \in DOMAIN m /\ m[x] \in Byte
    BY <2>1, Zenon DEF StackIn
  <2> QED
    BY <1>1, <1>3, <2>2, Zenon DEF StackIn
<1>5. t \in Seq(Word) /\ Len(t) = n - 1 /\ \A i \in 1..(n - 1) : t[i] = WordAt(m, s + 2, i)
  BY <1>3, <1>4, WordsAreSeq
<1>6. u \in Seq(Word) /\ Len(u) = n /\ \A i \in 1..n : u[i] = WordAt(m, s, i)
  BY WordsAreSeq
<1>7. \A i \in 1..(n - 1) : WordAt(m, s + 2, i) = WordAt(m, s, i + 1)
  <2> HIDE DEF n
  <2> SUFFICES ASSUME NEW i \in 1..(n - 1)
               PROVE  WordAt(m, s + 2, i) = WordAt(m, s, i + 1)
    OBVIOUS
  <2>1. (s + 2) + 2 * i - 1 = s + 2 * (i + 1) - 1 /\ (s + 2) + 2 * i - 2 = s + 2 * (i + 1) - 2
    BY <1>1, <1>3
  <2> QED
    BY <2>1, Zenon DEF WordAt
<1>8. WordAt(m, s, 1) = Pair(m[s + 1], m[s])
  <2>1. s + 2 * 1 - 1 = s + 1 /\ s + 2 * 1 - 2 = s
    BY <1>1
  <2> QED
    BY <2>1, Zenon DEF WordAt
<1> DEFINE w == Pair(m[s + 1], m[s])
<1> HIDE DEF n, t, u, w
<1>9. 1 \in 1..n /\ u[1] = w /\ w \in Word
  <2>1. 1 \in 1..n
    BY <1>3, <1>2
  <2>2. u[1] = w
    BY <2>1, <1>6, <1>8 DEF w
  <2>3. u[1] \in Word
    BY <2>1, <1>6, ElementOfSeq
  <2> QED
    BY <2>1, <2>2, <2>3
<1>10. u # <<>>
  BY <1>3, <1>6, EmptySeq
<1>11. Tail(u) = t
  <2>1. Tail(u) \in Seq(Word) /\ Len(Tail(u)) = n - 1 /\ \A i \in 1..(n - 1) : Tail(u)[i] = u[i + 1]
    BY <1>6, <1>10, HeadTailProperties
  <2>2. \A i \in 1..(n - 1) : Tail(u)[i] = t[i]
    <3> SUFFICES ASSUME NEW i \in 1..(n - 1) PROVE Tail(u)[i] = t[i]
      OBVIOUS
    <3>1. i + 1 \in 1..n
      BY <1>3, <1>2
    <3> QED
      BY <3>1, <2>1, <1>5, <1>6, <1>7, Zenon
  <2> QED
    BY <2>1, <2>2, <1>5, SeqEqual
<1>12. u = <<w>> \o t
  <2>1. <<w>> \in Seq(Word) /\ Len(<<w>>) = 1 /\ <<w>>[1] = w
    BY <1>9
  <2>2. <<w>> \o t \in Seq(Word) /\ Len(<<w>> \o t) = 1 + (n - 1)
        /\ \A i \in 1..(1 + (n - 1)) : (<<w>> \o t)[i] = IF i <= 1 THEN <<w>>[i] ELSE t[i - 1]
    BY <2>1, <1>5, ConcatProperties
  <2>3. 1 + (n - 1) = n
    BY <1>2
  <2>4. ASSUME NEW i \in 1..n PROVE u[i] = (<<w>> \o t)[i]
    <3>1. CASE i = 1
      BY <3>1, <1>9, <2>1, <2>2, <2>3
    <3>2. CASE i # 1
      <4>1. i - 1 \in 1..(n - 1) /\ (i - 1) + 1 = i /\ ~(i <= 1)
        BY <1>2, <3>2
      <4>2. (<<w>> \o t)[i] = t[i - 1]
        BY <4>1, <2>2, <2>3, Zenon
      <4> QED
        BY <4>1, <4>2, <1>5, <1>6, <1>7, Zenon
    <3> QED
      BY <3>1, <3>2
  <2> QED
    BY <2>2, <2>3, <2>4, <1>6, SeqEqual
<1>13. Head(u) = w
  BY <1>6, <1>9, <1>10
<1> QED
  BY <1>4, <1>10, <1>11, <1>12, <1>13 DEF t, u, w

StackInv == tidy => StackIn(mem, sp)

LEMMA WordsNow ==
  ASSUME NEW d \in BOOLEAN, NEW m, NEW s
  PROVE  [i \in 1..(IF d THEN (Base - s) \div 2 ELSE 0) |-> Pair(m[s + 2 * i - 1], m[s + 2 * i - 2])]
           = IF d THEN WordsIn(m, s) ELSE <<>>
<1>1. CASE d = TRUE
  BY <1>1, Zenon DEF WordsIn, WordAt
<1>2. CASE d = FALSE
  BY <1>2
<1> QED
  BY <1>1, <1>2

\* Where the abstract instructions end.
LEMMA AfterStart ==
  ASSUME ControlType
  PROVE  Stack!After(1) = Start /\ Stack!After(3) = W(Start + 2) /\ W(Start + 0) = Start
<1>1. pc \in Int
  BY DEF ControlType, Word
<1>2. CASE mode = "HALT_BUG"
  <2>1. Stack!After(1) = W(pc) /\ Stack!After(3) = W(pc + 2)
    BY <1>1, <1>2 DEF Stack!After, W
  <2>2. Start = W(pc)
    BY <1>1, <1>2 DEF Start
  <2>3. W(W(pc) + 2) = W(pc + 2) /\ W(W(pc) + 0) = W(pc)
    BY <1>1, SMT DEF W
  <2> QED
    BY <2>1, <2>2, <2>3
<1>3. CASE mode # "HALT_BUG"
  <2>1. Stack!After(1) = W(pc + 1) /\ Stack!After(3) = W(pc + 3)
    BY <1>1, <1>3 DEF Stack!After, W
  <2>2. Start = W(pc + 1)
    BY <1>3 DEF Start
  <2>3. W(W(pc + 1) + 2) = W(pc + 3) /\ W(W(pc + 1) + 0) = W(pc + 1)
    BY <1>1, SMT DEF W
  <2> QED
    BY <2>1, <2>2, <2>3
<1> QED
  BY <1>2, <1>3

\* An access that leaves alone what is on the stack, unless the program is no
\* longer tidy.
KeepsStack ==
  /\ tidy' \in BOOLEAN
  /\ tidy' =>
       /\ tidy
       /\ sp' = sp
       /\ \A x \in Pushed : x \in DOMAIN mem => x \in DOMAIN mem' /\ mem'[x] = mem[x]

LEMMA StoredElsewhere ==
  ASSUME NEW m, NEW a, NEW v, NEW x, x \in DOMAIN m, x # a
  PROVE  x \in DOMAIN Stored(m, a, v) /\ Stored(m, a, v)[x] = m[x]
BY Zenon DEF Stored

LEMMA StoredThere ==
  ASSUME NEW m, NEW a, NEW v
  PROVE  a \in DOMAIN Stored(m, a, v) /\ Stored(m, a, v)[a] = v
BY Zenon DEF Stored

LEMMA WriteKeeps ==
  ASSUME NEW a, NEW v, Write(a, v)
  PROVE  KeepsStack
<1>1. tidy' \in BOOLEAN
  BY Zenon DEF Write
<1>2. ASSUME tidy', NEW x \in Pushed, x \in DOMAIN mem
      PROVE  x \in DOMAIN mem' /\ mem'[x] = mem[x]
  <2>1. x # a /\ mem' = Stored(mem, a, v)
    BY <1>2, Zenon DEF Write
  <2>2. x \in DOMAIN Stored(mem, a, v) /\ Stored(mem, a, v)[x] = mem[x]
    BY <1>2, <2>1, StoredElsewhere
  <2> QED
    BY <2>1, <2>2
<1> QED
  BY <1>1, <1>2, Zenon DEF KeepsStack, Write

LEMMA WriteWordKeeps ==
  ASSUME NEW a, NEW w, WriteWord(a, w)
  PROVE  KeepsStack
<1>1. tidy' \in BOOLEAN
  BY Zenon DEF WriteWord
<1>2. ASSUME tidy', NEW x \in Pushed, x \in DOMAIN mem
      PROVE  x \in DOMAIN mem' /\ mem'[x] = mem[x]
  <2>1. x # a /\ x # W(a + 1)
    BY <1>2, Zenon DEF WriteWord
  <2> DEFINE m == Stored(mem, a, Lo(w))
  <2>2. x \in DOMAIN m /\ m[x] = mem[x]
    BY <1>2, <2>1, StoredElsewhere
  <2>3. mem' = Stored(m, W(a + 1), Hi(w))
    BY Zenon DEF WriteWord
  <2> HIDE DEF m
  <2>4. x \in DOMAIN Stored(m, W(a + 1), Hi(w)) /\ Stored(m, W(a + 1), Hi(w))[x] = m[x]
    BY <2>1, <2>2, StoredElsewhere
  <2> QED
    BY <2>2, <2>3, <2>4
<1> QED
  BY <1>1, <1>2, Zenon DEF KeepsStack, WriteWord

LEMMA SetSpKeeps ==
  ASSUME NEW w, SetSp(w)
  PROVE  KeepsStack
BY Zenon DEF SetSp, KeepsStack

LEMMA UnchangedKeeps ==
  ASSUME MemoryType, UNCHANGED memory
  PROVE  KeepsStack
<1>1. sp' = sp /\ mem' = mem /\ tidy' = tidy
  BY Zenon DEF memory
<1> QED
  BY <1>1, Zenon DEF KeepsStack, MemoryType

LEMMA OperandKeeps ==
  ASSUME MemoryType, NEW i, NEW w, SetPair(i, w) \/ Put(i, w) \/ SetA(w)
  PROVE  KeepsStack
<1>1. CASE SetPair(i, w)
  BY <1>1, SetSpKeeps, UnchangedKeeps, Zenon DEF SetPair
<1>2. CASE Put(i, w)
  BY <1>2, WriteKeeps, UnchangedKeeps, Zenon DEF Put
<1>3. CASE SetA(w)
  BY <1>3, UnchangedKeeps, Zenon DEF SetA
<1> QED
  BY <1>1, <1>2, <1>3

LEMMA LoadKeeps ==
  ASSUME MemoryType, NEW op, Load(op)
  PROVE  KeepsStack
<1>1. CASE LoadWord(op)
  BY <1>1, OperandKeeps, Zenon DEF LoadWord
<1>2. CASE StoreA(op)
  BY <1>2, WriteKeeps, Zenon DEF StoreA
<1>3. CASE LoadA(op)
  BY <1>3, UnchangedKeeps, Zenon DEF LoadA
<1>4. CASE LoadByte(op)
  BY <1>4, OperandKeeps, Zenon DEF LoadByte
<1>5. CASE LoadRegister(op)
  BY <1>5, UnchangedKeeps, Zenon DEF LoadRegister
<1>6. CASE StoreRegister(op)
  BY <1>6, WriteKeeps, Zenon DEF StoreRegister
<1>7. CASE StoreSp(op)
  BY <1>7, WriteWordKeeps, Zenon DEF StoreSp
<1>8. CASE Absolute(op)
  <2>1. \/ \E a, v : Write(a, v)
        \/ \E v : SetA(v)
    BY <1>8, SMT DEF Absolute
  <2> QED
    BY <2>1, WriteKeeps, OperandKeeps, Zenon
<1>9. CASE HighPage(op)
  <2>1. \/ \E a, v : Write(a, v)
        \/ \E v : SetA(v)
    BY <1>9, SMT DEF HighPage
  <2> QED
    BY <2>1, WriteKeeps, OperandKeeps, Zenon
<1>10. CASE LoadSp(op)
  BY <1>10, SetSpKeeps, Zenon DEF LoadSp
<1>11. CASE LoadHlSp(op)
  BY <1>11, UnchangedKeeps, Zenon DEF LoadHlSp
<1> QED
  BY <1>1, <1>2, <1>3, <1>4, <1>5, <1>6, <1>7, <1>8, <1>9, <1>10, <1>11, Zenon DEF Load

LEMMA ComputeKeeps ==
  ASSUME MemoryType, NEW op, Compute(op)
  PROVE  KeepsStack
<1>1. CASE IncPair(op)
  BY <1>1, OperandKeeps, Zenon DEF IncPair
<1>2. CASE DecPair(op)
  BY <1>2, OperandKeeps, Zenon DEF DecPair
<1>3. CASE AddHl(op)
  BY <1>3, UnchangedKeeps, Zenon DEF AddHl
<1>4. CASE IncDec(op)
  BY <1>4, OperandKeeps, Zenon DEF IncDec
<1>5. CASE OnA(op)
  <2>1. \E v : SetA(v)
    BY <1>5, Zenon DEF OnA
  <2> QED
    BY <2>1, OperandKeeps, Zenon
<1>6. CASE Adjust(op)
  BY <1>6, OperandKeeps, Zenon DEF Adjust
<1>7. CASE ArithmeticRegister(op) \/ LogicalRegister(op) \/ WithImmediate(op)
  <2>1. \E k, b : Arithmetic(k, b) \/ Logical(k, b)
    BY <1>7, Zenon DEF ArithmeticRegister, LogicalRegister, WithImmediate
  <2>2. \E v : SetA(v)
    BY <2>1, Zenon DEF Arithmetic, Logical
  <2> QED
    BY <2>2, OperandKeeps, Zenon
<1>8. CASE AddSp(op)
  BY <1>8, SetSpKeeps, Zenon DEF AddSp
<1>9. CASE CbRotate(op)
  BY <1>9, OperandKeeps, Zenon DEF CbRotate
<1>10. CASE CbBit(op)
  <2>1. \/ \E i, v : Put(i, v)
        \/ UNCHANGED memory
    BY <1>10, Zenon DEF CbBit
  <2> QED
    BY <2>1, OperandKeeps, UnchangedKeeps, Zenon
<1> QED
  BY <1>1, <1>2, <1>3, <1>4, <1>5, <1>6, <1>7, <1>8, <1>9, <1>10, Zenon DEF Compute

LEMMA ControlKeeps ==
  ASSUME MemoryType, NEW op, Control(op)
  PROVE  KeepsStack
<1>1. UNCHANGED memory
  BY Zenon DEF Control, Nop, Stop, Halt, Di, Ei, Unimplemented, Controls
<1> QED
  BY <1>1, UnchangedKeeps

LEMMA Untidied ==
  ASSUME tidy' = FALSE
  PROVE  StackInv' /\ Stack!Next
<1>1. Words' = <<>>
  BY WordsNow DEF Words
<1> QED
  BY <1>1, Zenon DEF StackInv, Stack!Next, Stack!Breaks

LEMMA QuietStep ==
  ASSUME StackInv, KeepsStack
  PROVE  StackInv' /\ Stack!Next
<1>1. CASE tidy' = FALSE
  BY <1>1, Untidied
<1>2. CASE tidy' = TRUE
  <2>1. tidy = TRUE /\ sp' = sp /\ StackIn(mem, sp)
    <3>1. tidy /\ sp' = sp
      BY <1>2, Zenon DEF KeepsStack
    <3> QED
      BY <3>1, Zenon DEF StackInv
  <2>2. \A x \in sp..(Base - 1) : x \in DOMAIN mem' /\ mem'[x] = mem[x]
    <3>1. \A x \in sp..(Base - 1) : x \in DOMAIN mem
      BY <2>1, Zenon DEF StackIn
    <3> QED
      BY <1>2, <3>1, Zenon DEF KeepsStack, Pushed
  <2>3. StackIn(mem', sp) /\ WordsIn(mem', sp) = WordsIn(mem, sp)
    BY <2>1, <2>2, StackKept
  <2>4. Words = WordsIn(mem, sp) /\ Words' = WordsIn(mem', sp')
    BY <1>2, <2>1, WordsNow DEF Words
  <2> QED
    BY <1>2, <2>1, <2>3, <2>4, Zenon DEF StackInv, Stack!Next, Stack!Behaves, Stack!Others
<1>3. tidy' = TRUE \/ tidy' = FALSE
  BY Zenon DEF KeepsStack
<1> QED
  BY <1>1, <1>2, <1>3

\* A word put on a stack that stays tidy is on top of the words before.
LEMMA PushStep ==
  ASSUME MemoryType, StackInv, NEW w \in Word, Push(w), tidy' # FALSE
  PROVE  /\ StackInv'
         /\ tidy = TRUE /\ tidy' = TRUE
         /\ Words' = <<w>> \o Words
         /\ Words' # <<>>
         /\ Tail(Words') = Words
<1>1. tidy' = TRUE /\ tidy = TRUE /\ sp > 1
  BY Zenon DEF Push, MemoryType
<1>2. StackIn(mem, sp) /\ sp \in Word
  BY <1>1, Zenon DEF StackInv, MemoryType
<1>3. sp \in Int /\ sp - 2 \in Int /\ sp - 2 >= 0 /\ sp - 1 >= 0
  BY <1>1, <1>2, WordBounds
<1>4. sp - 2 \in Word /\ W(sp - 1) = sp - 1 /\ W(sp - 2) = sp - 2
  <2>1. sp < 65536
    BY <1>2, SMT DEF Word
  <2>2. W(sp - 1) = sp - 1 /\ W(sp - 2) = sp - 2
    BY <1>3, <2>1, SMT DEF W
  <2>3. sp - 2 \in Word
    BY <1>3, <2>2, WordRange
  <2> QED
    BY <2>2, <2>3
<1> DEFINE m == mem'
<1>5. sp' = sp - 2 /\ mem' = Stored(Stored(mem, sp - 1, Hi(w)), sp - 2, Lo(w))
  BY <1>4, Zenon DEF Push
<1>6. m[sp - 2] = Lo(w) /\ sp - 2 \in DOMAIN m
  BY <1>5, StoredThere
<1>7. m[sp - 1] = Hi(w) /\ sp - 1 \in DOMAIN m
  <2>1. sp - 1 # sp - 2
    BY <1>3
  <2> QED
    BY <1>5, <2>1, StoredThere, StoredElsewhere
<1>8. ASSUME NEW x \in sp..(Base - 1) PROVE x \in DOMAIN m /\ m[x] = mem[x]
  <2>1. x # sp - 1 /\ x # sp - 2
    BY <1>3
  <2>2. x \in DOMAIN mem
    BY <1>2, Zenon DEF StackIn
  <2>3. x \in DOMAIN Stored(mem, sp - 1, Hi(w)) /\ Stored(mem, sp - 1, Hi(w))[x] = mem[x]
    BY <2>1, <2>2, StoredElsewhere
  <2> QED
    BY <1>5, <2>1, <2>3, StoredElsewhere
<1> HIDE DEF m
<1>9. StackIn(m, sp) /\ WordsIn(m, sp) = WordsIn(mem, sp)
  BY <1>2, <1>8, StackKept
<1>10. Lo(w) \in Byte /\ Hi(w) \in Byte /\ Pair(Hi(w), Lo(w)) = w
  BY HalvesOfWord
<1>11. StackIn(m, sp - 2)
  <2>1. Base \in Int
    BY InsnAssumption, WordBounds DEF InsnAssumption
  <2>2. sp <= Base /\ (Base - sp) % 2 = 0
    BY <1>2 DEF StackIn
  <2>3. sp - 2 <= Base
    BY <1>3, <2>1, <2>2
  <2>4. (Base - (sp - 2)) % 2 = 0
    BY <1>3, <2>1, <2>2
  <2>5. ASSUME NEW x \in (sp - 2)..(Base - 1) PROVE x \in DOMAIN m /\ m[x] \in Byte
    <3>1. x = sp - 2 \/ x = sp - 1 \/ x \in sp..(Base - 1)
      BY <1>3, <2>1
    <3>2. CASE x \in sp..(Base - 1)
      BY <1>9, <3>2, Zenon DEF StackIn
    <3> QED
      BY <3>1, <3>2, <1>6, <1>7, <1>10, Zenon
  <2> QED
    BY <1>4, <2>3, <2>4, <2>5, Zenon DEF StackIn
<1>12. /\ WordsIn(m, sp - 2) # <<>>
       /\ Tail(WordsIn(m, sp - 2)) = WordsIn(m, sp)
       /\ WordsIn(m, sp - 2) = <<w>> \o WordsIn(m, sp)
  <2>1. (sp - 2) + 2 = sp /\ (sp - 2) + 1 = sp - 1 /\ sp <= Base
    BY <1>2, <1>3 DEF StackIn
  <2> QED
    BY <1>6, <1>7, <1>10, <1>11, <2>1, WordOnTop
<1>13. Words = WordsIn(mem, sp) /\ Words' = WordsIn(m, sp - 2)
  BY <1>1, <1>5, WordsNow DEF Words, m
<1>14. StackInv'
  BY <1>5, <1>11, Zenon DEF StackInv, m
<1> QED
  BY <1>1, <1>9, <1>12, <1>13, <1>14

\* A word taken from a stack that stays tidy was on top of it.
LEMMA PopStep ==
  ASSUME MemoryType, StackInv, Pop, tidy' # FALSE
  PROVE  /\ StackInv'
         /\ tidy = TRUE /\ tidy' = TRUE
         /\ Words # <<>>
         /\ Words' = Tail(Words)
         /\ \A w \in Popped : w = Head(Words)
<1>1. tidy' = TRUE /\ tidy = TRUE /\ sp < Base
  BY Zenon DEF Pop, MemoryType
<1>2. StackIn(mem, sp) /\ sp \in Word /\ Base \in Word
  BY <1>1, InsnAssumption, Zenon DEF StackInv, MemoryType, InsnAssumption
<1>3. sp \in Int /\ sp >= 0 /\ Base \in Int
  BY <1>2, WordBounds
<1>4. sp + 2 <= Base
  <2>1. sp + 2 * ((Base - sp) \div 2) = Base /\ (Base - sp) \div 2 \in Nat
    BY <1>2, <1>3, StackSize DEF StackIn
  <2> QED
    BY <1>1, <1>3, <2>1
<1>5. W(sp + 2) = sp + 2 /\ W(sp + 1) = sp + 1
  <2>1. Base < 65536
    BY <1>2, SMT DEF Word
  <2> QED
    BY <1>3, <1>4, <2>1, SMT DEF W
<1>6. /\ StackIn(mem, sp + 2)
      /\ WordsIn(mem, sp) # <<>>
      /\ Head(WordsIn(mem, sp)) = Pair(mem[sp + 1], mem[sp])
      /\ Tail(WordsIn(mem, sp)) = WordsIn(mem, sp + 2)
  BY <1>2, <1>4, WordOnTop
<1>7. sp' = sp + 2 /\ mem' = mem
  BY <1>5, Zenon DEF Pop
<1>8. Words = WordsIn(mem, sp) /\ Words' = WordsIn(mem, sp + 2)
  BY <1>1, <1>7, WordsNow DEF Words
<1>9. \A w \in Popped : w = Pair(mem[sp + 1], mem[sp])
  <2>1. sp \in sp..(Base - 1) /\ sp + 1 \in sp..(Base - 1)
    BY <1>3, <1>4
  <2>2. sp \in DOMAIN mem /\ sp + 1 \in DOMAIN mem
    BY <1>2, <2>1, Zenon DEF StackIn
  <2>3. Loaded(W(sp + 1)) = {mem[sp + 1]} /\ Loaded(sp) = {mem[sp]}
    BY <1>5, <2>2, Zenon DEF Loaded
  <2> SUFFICES ASSUME NEW w \in Popped PROVE w = Pair(mem[sp + 1], mem[sp])
    OBVIOUS
  <2>4. PICK hi \in Loaded(W(sp + 1)), lo \in Loaded(sp) : w = Pair(hi, lo)
    BY DEF Popped
  <2>5. hi = mem[sp + 1] /\ lo = mem[sp]
    BY <2>3, <2>4
  <2> QED
    BY <2>4, <2>5
<1>10. StackInv'
  BY <1>6, <1>7, Zenon DEF StackInv
<1> QED
  BY <1>1, <1>6, <1>8, <1>9, <1>10

\* A call: the word pushed, and where it goes on.
LEMMA CallStep ==
  ASSUME TypeInv, StackInv, NEW op, NEW from, NEW target, NEW m, Calls(op, from, target, m),
         \/ from = W(Start + 2)
         \/ from = Start /\ target \in {8 * n : n \in 0..7}
  PROVE  StackInv' /\ Stack!Next
<1>1. Push(from) /\ pc' = target
  BY Zenon DEF Calls, Ends
<1>2. from \in Word
  <2>1. Start \in Word
    BY StartWord DEF TypeInv
  <2>2. Start + 2 \in Int
    BY <2>1, WordBounds
  <2> QED
    BY <2>1, <2>2, WordRange
<1>3. CASE tidy' = FALSE
  BY <1>3, Untidied
<1>4. CASE tidy' # FALSE
  <2>1. /\ StackInv' /\ tidy = TRUE /\ tidy' = TRUE
        /\ Words' = <<from>> \o Words
    BY <1>1, <1>2, <1>4, PushStep DEF TypeInv
  <2>2. \/ Words' = <<Stack!After(3)>> \o Words
        \/ Words' = <<Stack!After(1)>> \o Words /\ pc' \in {8 * n : n \in 0..7}
    BY <1>1, <2>1, AfterStart, Zenon DEF TypeInv
  <2>3. Stack!Calls
    BY <2>2, Zenon DEF Stack!Calls
  <2> QED
    BY <2>1, <2>3, Zenon DEF Stack!Next, Stack!Behaves
<1> QED
  BY <1>3, <1>4

LEMMA ReturnStep ==
  ASSUME TypeInv, StackInv, Pop, pc' \in Popped
  PROVE  StackInv' /\ Stack!Next
<1>2. CASE tidy' = FALSE
  BY <1>2, Untidied
<1>3. CASE tidy' # FALSE
  <2>1. /\ StackInv' /\ tidy = TRUE /\ tidy' = TRUE
        /\ Words # <<>> /\ Words' = Tail(Words) /\ pc' = Head(Words)
    BY <1>3, PopStep DEF TypeInv
  <2> QED
    BY <2>1, Zenon DEF Stack!Next, Stack!Behaves, Stack!Returns
<1> QED
  BY <1>2, <1>3

LEMMA JumpStep ==
  ASSUME TypeInv, StackInv, NEW op \in Byte, Jump(op)
  PROVE  StackInv' /\ Stack!Next
<1>0. MemoryType
  BY DEF TypeInv
<1>1. CASE Jr(op) \/ Jp(op) \/ JpHl(op)
  <2>1. UNCHANGED memory
    BY <1>1, Zenon DEF Jr, Jp, JpHl
  <2> QED
    BY <1>0, <2>1, UnchangedKeeps, QuietStep
<1>2. CASE Call(op)
  <2>1. \/ \E w : Calls(op, W(Start + 2), w, 6)
        \/ UNCHANGED memory
    BY <1>2, Zenon DEF Call
  <2> QED
    BY <1>0, <2>1, UnchangedKeeps, QuietStep, CallStep
<1>3. CASE Rst(op)
  <2>1. Calls(op, Start, 8 * Y(op), 4)
    BY <1>3, Zenon DEF Rst
  <2>2. Y(op) \in 0..7
    BY OpFields
  <2> HIDE DEF Y
  <2>3. 8 * Y(op) \in {8 * n : n \in 0..7}
    BY <2>2, Zenon
  <2> QED
    BY <2>1, <2>3, CallStep
<1>4. CASE Ret(op)
  <2>1. Pop /\ pc' \in Popped
    BY <1>4, Zenon DEF Ret, Returns, Ends
  <2> QED
    BY <2>1, ReturnStep
<1>5. CASE RetIf(op)
  <2>1. \/ Pop /\ pc' \in Popped
        \/ UNCHANGED memory
    BY <1>5, Zenon DEF RetIf, Returns, Ends
  <2> QED
    BY <1>0, <2>1, UnchangedKeeps, QuietStep, ReturnStep
<1> QED
  BY <1>1, <1>2, <1>3, <1>4, <1>5, Zenon DEF Jump

\* What PUSH pushes.
LEMMA PushedWord ==
  ASSUME TypeInv, NEW op \in Byte, PushPair(op)
  PROVE  \E w \in Word : Push(w)
<1>1. P(op) \in 0..3 /\ r["a"] \in Byte /\ f \in Flags
  BY OpFields DEF TypeInv, RegistersType, Reg
<1>2. PairOf(P(op)) \in Word
  BY <1>1, PairOfType DEF TypeInv
<1>3. FByte \in Byte
  <2>1. f.z \in 0..1 /\ f.n \in 0..1 /\ f.h \in 0..1 /\ f.c \in 0..1
    BY <1>1, FlagFields DEF Bit
  <2> QED
    BY <2>1 DEF FByte, Byte
<1>4. Pair(r["a"], FByte) \in Word
  BY <1>1, <1>3, PairRange
<1>5. Push(Pair(r["a"], FByte)) \/ Push(PairOf(P(op)))
  BY Zenon DEF PushPair
<1> QED
  BY <1>2, <1>4, <1>5

LEMMA PushPairStep ==
  ASSUME TypeInv, StackInv, NEW op \in Byte, PushPair(op)
  PROVE  StackInv' /\ Stack!Next
<1>1. CASE tidy' = FALSE
  BY <1>1, Untidied
<1>2. CASE tidy' # FALSE
  <2>1. PICK w \in Word : Push(w)
    BY PushedWord DEF PushPair
  <2>2. pc' = W(Start + 0)
    BY Zenon DEF PushPair, Runs, Goes, Ends
  <2>3. /\ StackInv' /\ tidy = TRUE /\ tidy' = TRUE
        /\ Words' # <<>> /\ Tail(Words') = Words
    BY <1>2, <2>1, PushStep DEF TypeInv
  <2>4. pc' = Stack!After(1)
    BY <2>2, AfterStart DEF TypeInv
  <2> QED
    BY <2>3, <2>4, Zenon DEF Stack!Next, Stack!Behaves, Stack!Pushes
<1> QED
  BY <1>1, <1>2

LEMMA PopPairStep ==
  ASSUME TypeInv, StackInv, NEW op, PopPair(op)
  PROVE  StackInv' /\ Stack!Next
<1>1. Pop /\ pc' = W(Start + 0)
  BY Zenon DEF PopPair, Runs, Goes, Ends
<1>2. CASE tidy' = FALSE
  BY <1>2, Untidied
<1>3. CASE tidy' # FALSE
  <2>1. /\ StackInv' /\ tidy = TRUE /\ tidy' = TRUE
        /\ Words # <<>> /\ Words' = Tail(Words)
    BY <1>1, <1>3, PopStep DEF TypeInv
  <2>2. pc' = Stack!After(1)
    BY <1>1, AfterStart DEF TypeInv
  <2> QED
    BY <2>1, <2>2, Zenon DEF Stack!Next, Stack!Behaves, Stack!Pops
<1> QED
  BY <1>2, <1>3

LEMMA StackStutters ==
  ASSUME StackInv, UNCHANGED vars
  PROVE  StackInv' /\ UNCHANGED Stack!vars
<1>1. sp' = sp /\ mem' = mem /\ tidy' = tidy /\ pc' = pc /\ mode' = mode
  BY Zenon DEF vars, memory
<1>2. Words' = Words
  BY <1>1, Zenon DEF Words
<1>3. StackInv'
  BY <1>1, Zenon DEF StackInv
<1> QED
  BY <1>1, <1>2, <1>3, Zenon DEF Stack!vars

LEMMA StackAtFirst ==
  ASSUME Init
  PROVE  StackInv /\ Stack!Init
<1>1. sp = Base /\ pc = Entry /\ mode = "NORMAL" /\ tidy = TRUE
  BY Zenon DEF Init
<1>2. Base \in Word /\ Base \in Int /\ Entry \in Int /\ Entry >= 0
  BY InsnAssumption, WordBounds DEF InsnAssumption
<1>3. StackIn(mem, sp)
  <2>1. sp \in Word /\ sp <= Base /\ (Base - sp) % 2 = 0
    BY <1>1, <1>2
  <2>2. \A x \in sp..(Base - 1) : FALSE
    BY <1>1, <1>2
  <2> QED
    BY <2>1, <2>2, Zenon DEF StackIn
<1>4. Words = <<>>
  <2>1. Words = WordsIn(mem, Base)
    BY <1>1, WordsNow DEF Words
  <2>2. (Base - Base) \div 2 = 0
    BY <1>2
  <2> QED
    BY <2>1, <2>2 DEF WordsIn
<1>5. pc \in Nat /\ (mode = "HALT_BUG") = FALSE
  BY <1>1, <1>2
<1> QED
  BY <1>1, <1>3, <1>4, <1>5, Zenon DEF StackInv, Stack!Init

LEMMA StackStep ==
  ASSUME TypeInv, StackInv, Next
  PROVE  StackInv' /\ (Stack!Next \/ UNCHANGED Stack!vars)
<1>1. CASE Step
  <2>1. PICK op \in Code : Execute(op)
    BY <1>1, Zenon DEF Step
  <2>2. op \in Byte /\ MemoryType
    BY <2>1, CodeType DEF TypeInv
  <2>3. Load(op) \/ Compute(op) \/ Jump(op) \/ PushPair(op) \/ PopPair(op) \/ Control(op)
    BY <2>1, Zenon DEF Execute
  <2>4. CASE Load(op) \/ Compute(op) \/ Control(op)
    BY <2>2, <2>4, LoadKeeps, ComputeKeeps, ControlKeeps, QuietStep, Zenon
  <2> QED
    BY <2>2, <2>3, <2>4, JumpStep, PushPairStep, PopPairStep, Zenon
<1>2. CASE Done
  <2>1. UNCHANGED vars
    BY <1>2, Zenon DEF Done
  <2> QED
    BY <2>1, StackStutters
<1> QED
  BY <1>1, <1>2, Zenon DEF Next

\* While a program uses the stack as one, CALL, RST and PUSH put words on it
\* that RET and POP take off in reverse order, and a return goes on where the
\* word on top says: the bytes in memory and SP implement a sequence of words.
THEOREM StackIsAStack == Spec => ImplementsCallStack
<1>1. Init => TypeInv /\ StackInv /\ Stack!Init
  BY InitTypes, TypeParts, StackAtFirst DEF TypeInv
<1>2. TypeInv /\ StackInv /\ [Next]_vars => TypeInv' /\ StackInv' /\ [Stack!Next]_(Stack!vars)
  <2> SUFFICES ASSUME TypeInv, StackInv, [Next]_vars
               PROVE  TypeInv' /\ StackInv' /\ (Stack!Next \/ UNCHANGED Stack!vars)
    OBVIOUS
  <2>1. CASE Next
    BY <2>1, StepInv, StackStep
  <2>2. CASE UNCHANGED vars
    <3>1. TypeInv'
      BY <2>2 DEF vars, memory, TypeInv, MemoryType, RegistersType, ControlType, RecordType
    <3> QED
      BY <2>2, <3>1, StackStutters
  <2> QED
    BY <2>1, <2>2
<1> QED
  BY <1>1, <1>2, PTL DEF Spec, ImplementsCallStack, Stack!Spec
=============================================================================
