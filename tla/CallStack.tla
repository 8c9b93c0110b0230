------------------------------ MODULE CallStack ------------------------------
(***************************************************************************)
(* What the call and stack instructions of lib/cpu.c promise a program     *)
(* that uses the stack as a stack: a sequence of words, last in, first out. *)
(* Instructions implements it with the bytes between SP and the bottom of  *)
(* the stack.                                                              *)
(***************************************************************************)
EXTENDS Integers, Sequences

VARIABLES
  pc,
  stack, \* the words on the stack, the last one first
  again, \* the next opcode is fetched without moving PC (the halt bug)
  tidy   \* the program has used the stack as one so far

vars == <<pc, stack, again, tidy>>

Init ==
  /\ pc \in Nat
  /\ stack = <<>>
  /\ again = FALSE
  /\ tidy = TRUE

\* Where an instruction of n bytes ends.
After(n) == (pc + n - (IF again THEN 1 ELSE 0)) % 65536

\* PUSH of any word.
Pushes == stack' # <<>> /\ Tail(stack') = stack /\ pc' = After(1)

\* CALL, and RST, which has fixed targets: the address of the next instruction
\* goes on the stack.
Calls ==
  \/ stack' = <<After(3)>> \o stack
  \/ stack' = <<After(1)>> \o stack /\ pc' \in {8 * n : n \in 0..7}

Pops == stack # <<>> /\ stack' = Tail(stack) /\ pc' = After(1)

\* RET: to the word on top.
Returns == stack # <<>> /\ stack' = Tail(stack) /\ pc' = Head(stack)

Others == stack' = stack

Behaves ==
  /\ tidy
  /\ tidy' = TRUE
  /\ Pushes \/ Calls \/ Pops \/ Returns \/ Others

\* The program moves SP by hand, writes into the stack or pops beyond it.
Breaks == tidy' = FALSE /\ stack' = <<>>

Next == Behaves \/ Breaks

Spec == Init /\ [][Next]_vars
=============================================================================
