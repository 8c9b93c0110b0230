------------------------------- MODULE MCInsn -------------------------------
(***************************************************************************)
(* An instance of Instructions for TLC: every opcode and every CB suffix   *)
(* from a few register files; after it, DAA follows the sums and           *)
(* differences, and calls, returns, pushes and pops follow each other.     *)
(***************************************************************************)
EXTENDS Instructions

File(a, b, c, d, e, h, l) ==
  [x \in Reg |-> CASE x = "a" -> a [] x = "b" -> b [] x = "c" -> c [] x = "d" -> d
                   [] x = "e" -> e [] x = "h" -> h [] x = "l" -> l]

\* Decimal bytes, bytes at the borders of the carries, and an HL that points
\* into the stack.
MCRegFiles == {
  File(153, 0, 1, 9, 97, 255, 252),
  File(72, 151, 255, 16, 41, 127, 255),
  File(0, 1, 128, 15, 80, 207, 0)}

StackOps == {197, 245, 209, 241, 205, 207, 201}

MCFollow == [i \in Insn |->
  CASE i \in 128..159 \union {198, 206, 214, 222} -> {39}
    [] i \in StackOps \union {118, 251} -> StackOps
    [] OTHER -> {}]
=============================================================================
