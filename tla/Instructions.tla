---------------------------- MODULE Instructions ----------------------------
(***************************************************************************)
(* The instruction set (lib/cpu.c, lib/instruction.c): one action per       *)
(* family of opcodes, each a whole run of fgb_cpu_run_instruction in one    *)
(* of the modes that execute.  Interrupts and the waiting modes are in Cpu. *)
(*                                                                         *)
(* Memory is sparse: a location that the program wrote holds what it       *)
(* wrote, any other one any of Contents, at each read.  Follow bounds the  *)
(* programs: it gives the opcodes that unwritten code may hold after one   *)
(* opcode; the first one is any of Opcodes.                                *)
(***************************************************************************)
EXTENDS Alu, Sequences

CONSTANTS
  RegFiles, \* the registers a program may start with
  FlagSets, \* the flags it may start with
  Entry,    \* the PC it starts at
  Base,     \* the SP it starts with
  Contents, \* what a location not yet written may hold
  Opcodes,  \* the opcodes a program may start with
  Follow,   \* what may follow an opcode (256 and up: the CB-prefixed ones)
  MaxSteps  \* bound on the instructions of a program

Reg == {"a", "b", "c", "d", "e", "h", "l"}
Insn == 0..511
Modes == {"NORMAL", "STOP", "HALT", "HALT_BUG", "HALT_DI", "EI"}

ASSUME InsnAssumption ==
  /\ RegFiles \subseteq [Reg -> Byte]
  /\ FlagSets \subseteq Flags
  /\ Entry \in Word
  /\ Base \in Word
  /\ Contents \subseteq Byte
  /\ Opcodes \subseteq Byte
  /\ Follow \in [Insn -> SUBSET Byte]
  /\ MaxSteps \in Nat

VARIABLES
  r,      \* the 8-bit registers but F
  f,      \* the flags of F
  sp,
  pc,
  mem,    \* what the program wrote
  ime,    \* the interrupt master enable
  mode,   \* fgb_cpu_mode
  depth,  \* call_depth, for the trace
  insn,   \* the last instruction; a CB-prefixed one is 256 and its suffix
  cycles, \* the machine cycles it took: its accesses and m_ticks
  arith,  \* history: the sum or difference that A holds, and whether DAA adjusted it
  tidy,   \* history: the program has used the stack as a stack
  steps   \* instructions run

memory == <<sp, mem, tidy>>
vars == <<r, f, memory, pc, ime, mode, depth, insn, cycles, arith, steps>>

NoArith == [op |-> "none", x |-> 0, y |-> 0, carry |-> 0, adjusted |-> FALSE]

Ariths == [op: {"none", "add", "sub"}, x: Byte, y: Byte, carry: Bit, adjusted: BOOLEAN]

InsnTypeOK ==
  /\ r \in [Reg -> Byte]
  /\ f \in Flags
  /\ sp \in Word
  /\ pc \in Word
  /\ DOMAIN mem \subseteq Word
  /\ mem \in [DOMAIN mem -> Byte]
  /\ ime \in BOOLEAN
  /\ mode \in Modes
  /\ depth \in Nat
  /\ insn \in Insn
  /\ cycles \in 0..6
  /\ arith \in Ariths
  /\ tidy \in BOOLEAN
  /\ steps \in 0..MaxSteps

\* fgb_cpu_reset, and the test harness, which sets the registers.
Init ==
  /\ r \in RegFiles
  /\ f \in FlagSets
  /\ sp = Base
  /\ pc = Entry
  /\ mem = [x \in {} |-> 0]
  /\ ime = FALSE
  /\ mode = "NORMAL"
  /\ depth = 0
  /\ insn = 0
  /\ cycles = 0
  /\ arith = NoArith
  /\ tidy = TRUE
  /\ steps = 0

-----------------------------------------------------------------------------
(* Memory, operands and the stack.                                         *)

W(x) == x % 65536

Loaded(a) == IF a \in DOMAIN mem THEN {mem[a]} ELSE Contents

\* Where the operands start.  After the halt bug PC was not incremented, and
\* the opcode is read again as the first of them.
Start == W(pc + (IF mode = "HALT_BUG" THEN 0 ELSE 1))

\* fgb_cpu_fetch and fgb_cpu_fetch_u16, after the opcode
Imm8 == Loaded(Start)
Imm16 == {Pair(hi, lo) : hi \in Loaded(W(Start + 1)), lo \in Loaded(Start)}

Stored(m, a, v) == [x \in DOMAIN m \union {a} |-> IF x = a THEN v ELSE m[x]]

\* A program is no longer tidy when it writes into what it has pushed.
Pushed == sp..(Base - 1)

Write(a, v) ==
  /\ mem' = Stored(mem, a, v)
  /\ tidy' = (tidy /\ a \notin Pushed)
  /\ sp' = sp

\* fgb_cpu_write_u16
WriteWord(a, w) ==
  /\ mem' = Stored(Stored(mem, a, Lo(w)), W(a + 1), Hi(w))
  /\ tidy' = (tidy /\ a \notin Pushed /\ W(a + 1) \notin Pushed)
  /\ sp' = sp

SetSp(w) == sp' = w /\ mem' = mem /\ tidy' = (tidy /\ w = sp)

\* The high byte, then the low one, each below the last.
Push(w) ==
  /\ mem' = Stored(Stored(mem, W(sp - 1), Hi(w)), W(sp - 2), Lo(w))
  /\ sp' = W(sp - 2)
  /\ tidy' = (tidy /\ sp > 1)

Popped == {Pair(hi, lo) : hi \in Loaded(W(sp + 1)), lo \in Loaded(sp)}
Pop == sp' = W(sp + 2) /\ mem' = mem /\ tidy' = (tidy /\ sp < Base)

\* The register that the bits of an opcode name; 6 is (HL).
Reg8 == <<"b", "c", "d", "e", "h", "l", "(hl)", "a">>
HighOf == <<"b", "d", "h">>
LowOf == <<"c", "e", "l">>

\* BC, DE, HL and SP.
PairOf(p) == IF p = 3 THEN sp ELSE Pair(r[HighOf[p + 1]], r[LowOf[p + 1]])
HL == PairOf(2)
WithPair(p, w) == [r EXCEPT ![HighOf[p + 1]] = Hi(w), ![LowOf[p + 1]] = Lo(w)]

SetPair(p, w) ==
  \/ p = 3 /\ SetSp(w) /\ r' = r
  \/ p # 3 /\ r' = WithPair(p, w) /\ UNCHANGED memory

Source(i) == IF i = 6 THEN Loaded(HL) ELSE {r[Reg8[i + 1]]}
Access(i) == If(i = 6) \* machine cycles of one access to operand i

Put(i, v) ==
  \/ i = 6 /\ Write(HL, v) /\ r' = r
  \/ i # 6 /\ r' = [r EXCEPT ![Reg8[i + 1]] = v] /\ UNCHANGED memory

SetA(v) == r' = [r EXCEPT !["a"] = v] /\ UNCHANGED memory

\* Conditions NZ, Z, NC, C.
Holds(k) == IF k < 2 THEN f.z = k ELSE f.c = k - 2

X(op) == op \div 64
Y(op) == (op \div 8) % 8
Z(op) == op % 8
P(op) == (op \div 16) % 4

-----------------------------------------------------------------------------
(* How an instruction ends.                                                *)

\* fgb_cpu_step in mode EI: IME is set before the instruction.
Ime == ime \/ mode = "EI"

\* fgb_cpu_step overwrites the mode after an instruction run in HALT_BUG mode.
Ends(op, target, m, i, newmode) ==
  /\ insn' = op
  /\ pc' = target
  /\ cycles' = m
  /\ ime' = i
  /\ mode' = IF mode = "HALT_BUG" THEN "NORMAL" ELSE newmode
  /\ steps' = steps + 1

Goes(op, target, m) ==
  Ends(op, target, m, Ime, "NORMAL") /\ depth' = depth /\ arith' = NoArith

\* An instruction of 1 + n bytes and m machine cycles that does not jump.
Runs(op, n, m) == Goes(op, W(Start + n), m)

Controls(op, n, m, i, newmode) ==
  /\ Ends(op, W(Start + n), m, i, newmode)
  /\ arith' = NoArith
  /\ UNCHANGED <<r, f, memory, depth>>

Illegal == {211, 219, 221, 227, 228, 235, 236, 237, 244, 252, 253}

Nop(op) == op = 0 /\ Controls(op, 0, 1, Ime, "NORMAL")

\* STOP consumes the byte after it.
Stop(op) == op = 16 /\ Controls(op, 1, 2, Ime, "STOP")

Halt(op) ==
  /\ op = 118
  /\ \E pending \in BOOLEAN :
       Controls(op, 0, 1, Ime, IF Ime THEN "HALT"
                               ELSE IF pending THEN "HALT_BUG" ELSE "HALT_DI")

Di(op) == op = 243 /\ Controls(op, 0, 1, FALSE, "NORMAL")
Ei(op) == op = 251 /\ Controls(op, 0, 1, Ime, "EI")

\* fgb_unimplemented_0: no operand is fetched, the CPU hangs.
Unimplemented(op) == op \in Illegal /\ Controls(op, 0, 1, Ime, "HALT")

-----------------------------------------------------------------------------
(* Loads.                                                                  *)

\* LD rr,nn
LoadWord(op) ==
  /\ op \in {1, 17, 33, 49}
  /\ \E w \in Imm16 : SetPair(P(op), w)
  /\ Runs(op, 2, 3)
  /\ f' = f

\* Through BC, DE, HL+ and HL-: the address, and the registers afterwards.
Pointer(p) == IF p < 2 THEN PairOf(p) ELSE HL
Advanced(p) ==
  CASE p = 2 -> WithPair(2, W(HL + 1)) [] p = 3 -> WithPair(2, W(HL - 1)) [] OTHER -> r

StoreA(op) ==
  /\ op \in {2, 18, 34, 50}
  /\ Write(Pointer(P(op)), r["a"])
  /\ r' = Advanced(P(op))
  /\ Runs(op, 0, 2)
  /\ f' = f

LoadA(op) ==
  /\ op \in {10, 26, 42, 58}
  /\ \E v \in Loaded(Pointer(P(op))) : r' = [Advanced(P(op)) EXCEPT !["a"] = v]
  /\ Runs(op, 0, 2)
  /\ UNCHANGED <<f, memory>>

\* LD r,n
LoadByte(op) ==
  /\ X(op) = 0 /\ Z(op) = 6
  /\ \E v \in Imm8 : Put(Y(op), v)
  /\ Runs(op, 1, 2 + Access(Y(op)))
  /\ f' = f

\* LD r,r' and LD r,(HL)
LoadRegister(op) ==
  /\ X(op) = 1 /\ Y(op) # 6
  /\ \E v \in Source(Z(op)) : r' = [r EXCEPT ![Reg8[Y(op) + 1]] = v]
  /\ Runs(op, 0, 1 + Access(Z(op)))
  /\ UNCHANGED <<f, memory>>

\* LD (HL),r
StoreRegister(op) ==
  /\ X(op) = 1 /\ Y(op) = 6 /\ Z(op) # 6
  /\ Write(HL, r[Reg8[Z(op) + 1]])
  /\ Runs(op, 0, 2)
  /\ UNCHANGED <<r, f>>

\* LD (nn),SP
StoreSp(op) ==
  /\ op = 8
  /\ \E a \in Imm16 : WriteWord(a, sp)
  /\ Runs(op, 2, 5)
  /\ UNCHANGED <<r, f>>

\* LD (nn),A and LD A,(nn)
Absolute(op) ==
  /\ \E a \in Imm16 :
       \/ op = 234 /\ Write(a, r["a"]) /\ r' = r
       \/ op = 250 /\ \E v \in Loaded(a) : SetA(v)
  /\ Runs(op, 2, 4)
  /\ f' = f

\* LDH: through FF00 and an operand, or C.
HighPage(op) ==
  /\ \/ \E n \in Imm8 :
          \/ op = 224 /\ Write(65280 + n, r["a"]) /\ r' = r
          \/ op = 240 /\ \E v \in Loaded(65280 + n) : SetA(v)
     \/ op = 226 /\ Write(65280 + r["c"], r["a"]) /\ r' = r
     \/ op = 242 /\ \E v \in Loaded(65280 + r["c"]) : SetA(v)
  /\ IF op \in {224, 240} THEN Runs(op, 1, 3) ELSE Runs(op, 0, 2)
  /\ f' = f

\* LD SP,HL
LoadSp(op) == op = 249 /\ SetSp(HL) /\ Runs(op, 0, 2) /\ UNCHANGED <<r, f>>

-----------------------------------------------------------------------------
(* Arithmetic.                                                             *)

\* INC rr and DEC rr
IncPair(op) ==
  /\ op \in {3, 19, 35, 51}
  /\ SetPair(P(op), W(PairOf(P(op)) + 1))
  /\ Runs(op, 0, 2)
  /\ f' = f

DecPair(op) ==
  /\ op \in {11, 27, 43, 59}
  /\ SetPair(P(op), W(PairOf(P(op)) - 1))
  /\ Runs(op, 0, 2)
  /\ f' = f

AddHl(op) ==
  /\ op \in {9, 25, 41, 57}
  /\ LET x == Add16(f, HL, PairOf(P(op))) IN r' = WithPair(2, x.v) /\ f' = x.f
  /\ Runs(op, 0, 2)
  /\ UNCHANGED memory

\* INC r and DEC r
IncDec(op) ==
  /\ X(op) = 0 /\ Z(op) \in {4, 5}
  /\ \E v \in Source(Y(op)) :
       LET x == IF Z(op) = 4 THEN Inc8(f, v) ELSE Dec8(f, v) IN
       Put(Y(op), x.v) /\ f' = x.f
  /\ Runs(op, 0, 1 + 2 * Access(Y(op)))

Rotated(k, v) ==
  CASE k = 0 -> Rlc(f, v) [] k = 1 -> Rrc(f, v) [] k = 2 -> Rl(f, v) [] k = 3 -> Rr(f, v)
    [] k = 4 -> Sla(f, v) [] k = 5 -> Sra(f, v) [] k = 6 -> Swap(f, v) [] k = 7 -> Srl(f, v)

\* RLCA, RRCA, RLA, RRA, CPL, SCF and CCF
OnA(op) ==
  /\ X(op) = 0 /\ Z(op) = 7 /\ Y(op) # 4
  /\ LET a == r["a"]
         x == CASE Y(op) < 4 -> ZCleared(Rotated(Y(op), a))
                [] Y(op) = 5 -> Cpl(f, a) [] Y(op) = 6 -> Scf(f, a) [] Y(op) = 7 -> Ccf(f, a)
     IN SetA(x.v) /\ f' = x.f
  /\ Runs(op, 0, 1)

Adjust(op) ==
  /\ op = 39
  /\ LET x == Daa(f, r["a"]) IN SetA(x.v) /\ f' = x.f
  /\ Ends(op, Start, 1, Ime, "NORMAL")
  /\ arith' = IF arith.op = "none" \/ arith.adjusted
                THEN NoArith ELSE [arith EXCEPT !.adjusted = TRUE]
  /\ depth' = depth

\* ADD, ADC, SUB and SBC of A and b
Arithmetic(k, b) ==
  LET a == r["a"]
      x == CASE k = 0 -> Add(f, a, b) [] k = 1 -> Adc(f, a, b)
             [] k = 2 -> Sub(f, a, b) [] k = 3 -> Sbc(f, a, b)
  IN /\ SetA(x.v)
     /\ f' = x.f
     /\ arith' = [op |-> IF k < 2 THEN "add" ELSE "sub", x |-> a, y |-> b,
                  carry |-> IF k \in {1, 3} THEN f.c ELSE 0, adjusted |-> FALSE]
     /\ depth' = depth

\* AND, XOR, OR and CP of A and b; CP is a subtraction that keeps A.
Logical(k, b) ==
  LET a == r["a"]
      x == CASE k = 4 -> And8(f, a, b) [] k = 5 -> Xor8(f, a, b)
             [] k = 6 -> Or8(f, a, b) [] k = 7 -> [Sub(f, a, b) EXCEPT !.v = a]
  IN SetA(x.v) /\ f' = x.f /\ arith' = NoArith /\ depth' = depth

\* With a register or (HL).
ArithmeticRegister(op) ==
  /\ X(op) = 2 /\ Y(op) < 4
  /\ \E b \in Source(Z(op)) : Arithmetic(Y(op), b)
  /\ Ends(op, Start, 1 + Access(Z(op)), Ime, "NORMAL")

LogicalRegister(op) ==
  /\ X(op) = 2 /\ Y(op) >= 4
  /\ \E b \in Source(Z(op)) : Logical(Y(op), b)
  /\ Ends(op, Start, 1 + Access(Z(op)), Ime, "NORMAL")

\* With an operand.
WithImmediate(op) ==
  /\ X(op) = 3 /\ Z(op) = 6
  /\ \E b \in Imm8 : \/ Y(op) < 4 /\ Arithmetic(Y(op), b)
                     \/ Y(op) >= 4 /\ Logical(Y(op), b)
  /\ Ends(op, W(Start + 1), 2, Ime, "NORMAL")

\* ADD SP,e
AddSp(op) ==
  /\ op = 232
  /\ \E e \in Imm8 : LET x == AddSigned(sp, e) IN SetSp(x.v) /\ f' = x.f
  /\ Runs(op, 1, 4)
  /\ r' = r

\* LD HL,SP+e
LoadHlSp(op) ==
  /\ op = 248
  /\ \E e \in Imm8 : LET x == AddSigned(sp, e) IN r' = WithPair(2, x.v) /\ f' = x.f
  /\ Runs(op, 1, 3)
  /\ UNCHANGED memory

\* The CB prefix: the suffix is fetched like an operand.
Suffixes == IF Start \in DOMAIN mem THEN {mem[Start]} ELSE Byte

\* Rotations and shifts.
CbRotate(op) ==
  /\ op = 203
  /\ \E cb \in Suffixes \intersect 0..63 : \E v \in Source(Z(cb)) :
       /\ LET x == Rotated(Y(cb), v) IN Put(Z(cb), x.v) /\ f' = x.f
       /\ Runs(256 + cb, 1, 2 + 2 * Access(Z(cb)))

\* BIT, RES and SET.
CbBit(op) ==
  /\ op = 203
  /\ \E cb \in Suffixes \ 0..63 : \E v \in Source(Z(cb)) :
       \/ /\ X(cb) = 1
          /\ f' = TestBit(f, Y(cb), v)
          /\ Runs(256 + cb, 1, 2 + Access(Z(cb)))
          /\ UNCHANGED <<r, memory>>
       \/ /\ X(cb) # 1
          /\ Put(Z(cb), IF X(cb) = 2 THEN ResetBit(v, Y(cb)) ELSE SetBit(v, Y(cb)))
          /\ Runs(256 + cb, 1, 2 + 2 * Access(Z(cb)))
          /\ f' = f

-----------------------------------------------------------------------------
(* Jumps and the stack.                                                    *)

\* JR e and JR cc,e: the operand is fetched whether the jump is taken or not.
Jr(op) ==
  /\ op \in {24, 32, 40, 48, 56}
  /\ \E e \in Imm8 :
       IF op = 24 \/ Holds(Y(op) - 4)
         THEN Goes(op, W(Start + 1 + Signed(e)), 3)
         ELSE Runs(op, 1, 2)
  /\ UNCHANGED <<r, f, memory>>

\* JP nn and JP cc,nn
Jp(op) ==
  /\ op \in {195, 194, 202, 210, 218}
  /\ \E w \in Imm16 :
       IF op = 195 \/ Holds(Y(op)) THEN Goes(op, w, 4) ELSE Runs(op, 2, 3)
  /\ UNCHANGED <<r, f, memory>>

JpHl(op) == op = 233 /\ Goes(op, HL, 1) /\ UNCHANGED <<r, f, memory>>

\* fgb_call
Calls(op, from, target, m) ==
  /\ Push(from)
  /\ depth' = depth + 1
  /\ arith' = NoArith
  /\ Ends(op, target, m, Ime, "NORMAL")

\* Mutant of Call: the address of the operand is pushed.
CallPushesOperand(op) ==
  /\ op \in {205, 196, 204, 212, 220}
  /\ \E w \in Imm16 :
       IF op = 205 \/ Holds(Y(op))
         THEN Calls(op, Start, w, 6)
         ELSE Runs(op, 2, 3) /\ UNCHANGED memory
  /\ UNCHANGED <<r, f>>

\* CALL nn and CALL cc,nn
Call(op) ==
  /\ op \in {205, 196, 204, 212, 220}
  /\ \E w \in Imm16 :
       IF op = 205 \/ Holds(Y(op))
         THEN Calls(op, W(Start + 2), w, 6)
         ELSE Runs(op, 2, 3) /\ UNCHANGED memory
  /\ UNCHANGED <<r, f>>

Rst(op) == X(op) = 3 /\ Z(op) = 7 /\ Calls(op, Start, 8 * Y(op), 4) /\ UNCHANGED <<r, f>>

\* Mutant of Returns: the depth goes below 0.
ReturnsUnguarded(op, m, i) ==
  /\ \E w \in Popped : Ends(op, w, m, i, "NORMAL")
  /\ Pop
  /\ depth' = depth - 1
  /\ arith' = NoArith

\* fgb_ret_: RETI lowers the depth too, though a dispatch did not raise it.
Returns(op, m, i) ==
  /\ \E w \in Popped : Ends(op, w, m, i, "NORMAL")
  /\ Pop
  /\ depth' = IF depth > 0 THEN depth - 1 ELSE 0
  /\ arith' = NoArith

\* RET and RETI
Ret(op) ==
  /\ op \in {201, 217}
  /\ Returns(op, 4, Ime \/ op = 217)
  /\ UNCHANGED <<r, f>>

\* Mutant of RetIf: the cycle of the test is missing.
RetIfAtOnce(op) ==
  /\ op \in {192, 200, 208, 216}
  /\ IF Holds(Y(op)) THEN Returns(op, 4, Ime) ELSE Runs(op, 0, 2) /\ UNCHANGED memory
  /\ UNCHANGED <<r, f>>

RetIf(op) ==
  /\ op \in {192, 200, 208, 216}
  /\ IF Holds(Y(op)) THEN Returns(op, 5, Ime) ELSE Runs(op, 0, 2) /\ UNCHANGED memory
  /\ UNCHANGED <<r, f>>

FByte == 128 * f.z + 64 * f.n + 32 * f.h + 16 * f.c
FlagsOf(b) == [z |-> BitOf(b, 7), n |-> BitOf(b, 6), h |-> BitOf(b, 5), c |-> BitOf(b, 4)]

PushPair(op) ==
  /\ op \in {197, 213, 229, 245}
  /\ Push(IF op = 245 THEN Pair(r["a"], FByte) ELSE PairOf(P(op)))
  /\ Runs(op, 0, 4)
  /\ UNCHANGED <<r, f>>

\* POP rr; POP AF drops the lower half of F.
PopPair(op) ==
  /\ op \in {193, 209, 225, 241}
  /\ \E w \in Popped :
       \/ op = 241 /\ r' = [r EXCEPT !["a"] = Hi(w)] /\ f' = FlagsOf(Lo(w))
       \/ op # 241 /\ r' = WithPair(P(op), w) /\ f' = f
  /\ Pop
  /\ Runs(op, 0, 3)

-----------------------------------------------------------------------------

Load(op) ==
  \/ LoadWord(op) \/ StoreA(op) \/ LoadA(op) \/ LoadByte(op) \/ LoadRegister(op)
  \/ StoreRegister(op) \/ StoreSp(op) \/ Absolute(op) \/ HighPage(op) \/ LoadSp(op)
  \/ LoadHlSp(op)

Compute(op) ==
  \/ IncPair(op) \/ DecPair(op) \/ AddHl(op) \/ IncDec(op) \/ OnA(op) \/ Adjust(op)
  \/ ArithmeticRegister(op) \/ LogicalRegister(op) \/ WithImmediate(op) \/ AddSp(op)
  \/ CbRotate(op) \/ CbBit(op)

Jump(op) == Jr(op) \/ Jp(op) \/ JpHl(op) \/ Call(op) \/ Rst(op) \/ Ret(op) \/ RetIf(op)

Control(op) == Nop(op) \/ Stop(op) \/ Halt(op) \/ Di(op) \/ Ei(op) \/ Unimplemented(op)

Execute(op) == Load(op) \/ Compute(op) \/ Jump(op) \/ PushPair(op) \/ PopPair(op) \/ Control(op)

\* fgb_cpu_fetch_instruction
Code == IF pc \in DOMAIN mem THEN {mem[pc]} ELSE IF steps = 0 THEN Opcodes ELSE Follow[insn]

Step ==
  /\ mode \in {"NORMAL", "EI", "HALT_BUG"}
  /\ steps < MaxSteps
  /\ \E op \in Code : Execute(op)

\* The program has come to its bound, or the CPU waits.
Done == (steps = MaxSteps \/ Code = {} \/ mode \in {"STOP", "HALT", "HALT_DI"}) /\ UNCHANGED vars

Next == Step \/ Done

Spec == Init /\ [][Next]_vars

-----------------------------------------------------------------------------
(* What the table says (lib/instruction.c).                                *)

CyclesLow == <<
  1, 3, 2, 2, 1, 1, 2, 1, 5, 2, 2, 2, 1, 1, 2, 1,
  2, 3, 2, 2, 1, 1, 2, 1, 3, 2, 2, 2, 1, 1, 2, 1,
  2, 3, 2, 2, 1, 1, 2, 1, 2, 2, 2, 2, 1, 1, 2, 1,
  2, 3, 2, 2, 3, 3, 3, 1, 2, 2, 2, 2, 1, 1, 2, 1,
  1, 1, 1, 1, 1, 1, 2, 1, 1, 1, 1, 1, 1, 1, 2, 1,
  1, 1, 1, 1, 1, 1, 2, 1, 1, 1, 1, 1, 1, 1, 2, 1,
  1, 1, 1, 1, 1, 1, 2, 1, 1, 1, 1, 1, 1, 1, 2, 1,
  2, 2, 2, 2, 2, 2, 1, 2, 1, 1, 1, 1, 1, 1, 2, 1>>

CyclesHigh == <<
  1, 1, 1, 1, 1, 1, 2, 1, 1, 1, 1, 1, 1, 1, 2, 1,
  1, 1, 1, 1, 1, 1, 2, 1, 1, 1, 1, 1, 1, 1, 2, 1,
  1, 1, 1, 1, 1, 1, 2, 1, 1, 1, 1, 1, 1, 1, 2, 1,
  1, 1, 1, 1, 1, 1, 2, 1, 1, 1, 1, 1, 1, 1, 2, 1,
  2, 3, 3, 4, 3, 4, 2, 4, 2, 4, 3, 255, 3, 6, 2, 4,
  2, 3, 3, 255, 3, 4, 2, 4, 2, 4, 3, 0, 3, 0, 2, 4,
  3, 3, 2, 0, 0, 4, 2, 4, 4, 1, 4, 0, 0, 0, 2, 4,
  3, 3, 2, 0, 0, 4, 2, 4, 3, 2, 4, 1, 0, 0, 2, 4>>

TableCycles(op) == (CyclesLow \o CyclesHigh)[op + 1]

\* alt_cycles: conditional jumps, calls and returns that are taken.
AltCycles(op) ==
  CASE op \in {32, 40, 48, 56} -> 3
    [] op \in {192, 200, 208, 216} -> 5
    [] op \in {194, 202, 210, 218} -> 4
    [] op \in {196, 204, 212, 220} -> 6
    [] OTHER -> 0

OperandSize(op) ==
  CASE op \in {1, 8, 17, 33, 49, 194, 195, 196, 202, 204, 205, 210, 212, 218, 220, 234, 250} -> 2
    [] op \in {24, 32, 40, 48, 56, 203, 211, 224, 232, 240, 248}
         \/ (Z(op) = 6 /\ X(op) \in {0, 3}) -> 1
    [] OTHER -> 0

\* fgb_cb_instruction_cycles
CbCycles(cb) == IF Z(cb) # 6 THEN 2 ELSE IF X(cb) = 1 THEN 3 ELSE 4

-----------------------------------------------------------------------------
(* Properties.                                                             *)

\* An instruction takes the machine cycles its row of the table gives, by the
\* alternative when a condition holds, and one that does not jump ends after
\* the operands the row gives it: the timing of every component and the
\* disassembler's walk through the code both rest on that.  The rows of DI
\* and of the opcodes without an instruction give other numbers (0 and 255),
\* the row of STOP one byte less than STOP consumes.
Jumps == {24, 195, 233, 205, 201, 217} \union {199 + 8 * n : n \in 0..7}

AsTabled(op) ==
  /\ op \notin Illegal \union {243} =>
       cycles' = IF AltCycles(op) # 0 /\ Holds(Y(op) % 4) THEN AltCycles(op) ELSE TableCycles(op)
  /\ op \notin Jumps \union Illegal \union {16} /\ ~(AltCycles(op) # 0 /\ Holds(Y(op) % 4)) =>
       pc' = W(Start + OperandSize(op))

CbAsTabled(cb) == cycles' = CbCycles(cb) /\ pc' = W(Start + 1)

TableHolds == [][IF insn' < 256 THEN AsTabled(insn') ELSE CbAsTabled(insn' - 256)]_vars

\* A sum or difference of two decimal bytes, with the carry the instruction
\* used, is after DAA the decimal sum or difference: two decimal digits in A
\* and the decimal carry or borrow in C, so that long numbers can be computed
\* byte by byte.  Three helpers and DAA have to agree on N, H and C for that.
Decimal(b) == Nibble(b) < 10 /\ b \div 16 < 10
Digits(b) == 10 * (b \div 16) + Nibble(b)

DecimalAdjusts ==
  arith.adjusted /\ Decimal(arith.x) /\ Decimal(arith.y) =>
    /\ Decimal(r["a"])
    /\ arith.op = "add" =>
         Digits(r["a"]) + 100 * f.c = Digits(arith.x) + Digits(arith.y) + arith.carry
    /\ arith.op = "sub" =>
         Digits(r["a"]) - 100 * f.c = Digits(arith.x) - Digits(arith.y) - arith.carry

\* ADD HL,rr does to HL, H and C what ADD of the low bytes and ADC of the high
\* bytes would: a program may mix the two ways of adding.
AsTwoBytes(low, high) ==
  /\ r'["l"] = low.v
  /\ r'["h"] = high.v
  /\ f'.h = high.f.h
  /\ f'.c = high.f.c

WideAddsAsBytes ==
  [][insn' \in {9, 25, 41, 57} /\ steps' # steps =>
       LET s == PairOf(P(insn'))
           low == Add(f, r["l"], Lo(s))
       IN AsTwoBytes(low, Adc(low.f, r["h"], Hi(s)))]_vars

\* As long as a program uses the stack as a stack, it is one: what CALL, RST
\* and PUSH put on it comes back in reverse order, and a return goes on after
\* the call whose address is on top (see CallStack).
Words == [i \in 1..(IF tidy THEN (Base - sp) \div 2 ELSE 0) |->
            Pair(mem[sp + 2 * i - 1], mem[sp + 2 * i - 2])]

Stack == INSTANCE CallStack WITH stack <- Words, again <- mode = "HALT_BUG"

ImplementsCallStack == Stack!Spec
=============================================================================
