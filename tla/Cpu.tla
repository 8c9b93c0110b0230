-------------------------------- MODULE Cpu --------------------------------
(***************************************************************************)
(* Interrupts and low-power modes of the CPU (lib/cpu.c): the step          *)
(* function with its six modes, the instructions that touch the interrupt  *)
(* state, and the dispatch of an interrupt.                                *)
(*                                                                         *)
(* A step of fgb_cpu_step is cut where peripherals are ticked, because a   *)
(* tick may request an interrupt: at each memory access and each           *)
(* fgb_cpu_m_tick.  `at' says how far the step has come.  The dispatch     *)
(* writes PC to the stack between the test that starts it and the choice   *)
(* of the handler, and that write may land in IE or IF.                    *)
(*                                                                         *)
(* Instructions are the classes the interrupt state tells apart; what they *)
(* compute, where they jump and which memory they touch is left out.       *)
(* The test harness's force_disable_interrupts and the debug panel's       *)
(* edits of registers are left out as well.                                *)
(***************************************************************************)
EXTENDS Integers

CONSTANTS
  N,        \* number of interrupts: 5 in the code
  TickIrqs, \* interrupts the peripherals request: VBLANK, LCD, TIMER
  JOYPAD    \* the interrupt a key press requests

Irq == 0..(N - 1)  \* bit numbers in IE and IF; a lower one is more urgent

VBLANK == 0

ASSUME IrqAssumption ==
  /\ N \in Nat \ {0}
  /\ TickIrqs \subseteq Irq
  /\ JOYPAD \in Irq

VARIABLES
  mode,    \* fgb_cpu_mode
  ime,     \* the interrupt master enable
  enable,  \* IE: the enabled interrupts
  flags,   \* IF: the requested interrupts
  at,      \* how far fgb_cpu_step has come
  stack,   \* where the two bytes of PC go during a dispatch
  dest     \* the interrupt whose handler the dispatch enters

vars == <<mode, ime, enable, flags, at, stack, dest>>

Modes == {"NORMAL", "STOP", "HALT", "HALT_BUG", "HALT_DI", "EI"}

Points == {"step", "exec", "exec_bug", "check", "push_high", "select", "push_low"}

\* IE is at FFFF and IF at FF0F, so one dispatch reaches one of them at most,
\* with the high or with the low byte of PC.
Stacks == {"ram", "IE_high", "IF_high", "IE_low", "IF_low"}

None == -1      \* no dispatch has chosen a handler
NullVector == N \* the dispatch found nothing left to serve: PC becomes 0000

TypeOK ==
  /\ mode \in Modes
  /\ ime \in BOOLEAN
  /\ enable \in SUBSET Irq
  /\ flags \in SUBSET Irq
  /\ at \in Points
  /\ stack \in Stacks
  /\ dest \in Irq \union {None, NullVector}

-----------------------------------------------------------------------------

\* fgb_cpu_has_pending_interrupts
Pending == enable \intersect flags

\* The requests of the ticks that a memory access or an m_tick makes.
Ticks(before) == \E r \in SUBSET TickIrqs : flags' = before \union r

\* fgb_cpu_write_u8 to a location: IE and IF take `value', and the ticks
\* after the write may request again what a write to IF cleared.
WriteByte(place, value) ==
  \/ place = "IE" /\ enable' = value /\ Ticks(flags)
  \/ place = "IF" /\ enable' = enable /\ Ticks(value)
  \/ place = "ram" /\ enable' = enable /\ Ticks(flags)

Init ==
  /\ mode = "NORMAL"
  /\ ime = FALSE
  /\ enable = {}
  /\ flags = {VBLANK}
  /\ at = "step"
  /\ stack = "ram"
  /\ dest = None

\* fgb_cpu_step in the modes that execute an instruction: the fetch.  IME is
\* set before the instruction that follows EI.
Fetch ==
  /\ at = "step"
  /\ mode \in {"NORMAL", "EI", "HALT_BUG"}
  /\ at' = IF mode = "HALT_BUG" THEN "exec_bug" ELSE "exec"
  /\ ime' = (ime \/ mode = "EI")
  /\ mode' = IF mode = "EI" THEN "NORMAL" ELSE mode
  /\ Ticks(flags)
  /\ UNCHANGED <<enable, stack, dest>>

\* Mutant of Idle: HALT with IME off sleeps through the request.
IdleStaysAsleep ==
  /\ at = "step"
  /\ mode \in {"STOP", "HALT", "HALT_DI"}
  /\ at' = "check"
  /\ Ticks(flags)
  /\ UNCHANGED <<mode, ime, enable, stack, dest>>

\* fgb_cpu_step in the modes that wait; HALT_DI looks at what its own ticks
\* requested.
Idle ==
  /\ at = "step"
  /\ mode \in {"STOP", "HALT", "HALT_DI"}
  /\ at' = "check"
  /\ Ticks(flags)
  /\ UNCHANGED <<ime, enable, stack, dest>>
  /\ mode' = IF mode = "HALT_DI" /\ Pending' # {} THEN "NORMAL" ELSE mode

\* An instruction ends and leaves mode m, which the step function overwrites
\* after an instruction run in HALT_BUG mode.
Ends(m) ==
  /\ at \in {"exec", "exec_bug"}
  /\ at' = "check"
  /\ mode' = IF at = "exec_bug" THEN "NORMAL" ELSE m
  /\ UNCHANGED <<stack, dest>>

\* An instruction that neither writes IE or IF nor changes IME or mode.
Plain == Ends(mode) /\ Ticks(flags) /\ UNCHANGED <<ime, enable>>

\* An instruction that writes IE or IF.
WriteRegister ==
  /\ Ends(mode)
  /\ \E reg \in {"IE", "IF"}, value \in SUBSET Irq : WriteByte(reg, value)
  /\ UNCHANGED ime

\* Mutant of Ei: IME is set at once.
EiAtOnce == Ends("EI") /\ ime' = TRUE /\ UNCHANGED <<enable, flags>>

Ei == Ends("EI") /\ UNCHANGED <<ime, enable, flags>>

Di == Ends(mode) /\ ime' = FALSE /\ UNCHANGED <<enable, flags>>

Reti == Ends(mode) /\ ime' = TRUE /\ Ticks(flags) /\ UNCHANGED enable

Halt ==
  /\ Ends(IF ime THEN "HALT" ELSE IF Pending # {} THEN "HALT_BUG" ELSE "HALT_DI")
  /\ UNCHANGED <<ime, enable, flags>>

\* STOP consumes the byte after it.
Stop == Ends("STOP") /\ Ticks(flags) /\ UNCHANGED <<ime, enable>>

\* An opcode without an instruction: the CPU hangs in HALT mode.
Illegal == Ends("HALT") /\ UNCHANGED <<ime, enable, flags>>

\* Mutant of Check: requests that are not enabled start a dispatch.
CheckRequestedOnly ==
  /\ at = "check"
  /\ \/ flags # {} /\ ime /\ at' = "push_high" /\ stack' \in Stacks
     \/ ~(flags # {} /\ ime) /\ at' = "step" /\ stack' = stack
  /\ UNCHANGED <<mode, ime, enable, flags, dest>>

\* Mutant of Check: a waiting CPU tests for requests in its own branch only.
CheckUnlessHalted ==
  LET dispatches == Pending # {} /\ ime /\ mode # "HALT" IN
  /\ at = "check"
  /\ \/ dispatches /\ at' = "push_high" /\ stack' \in Stacks
     \/ ~dispatches /\ at' = "step" /\ stack' = stack
  /\ UNCHANGED <<mode, ime, enable, flags, dest>>

\* The end of fgb_cpu_step: a dispatch starts when an enabled interrupt is
\* requested and IME is set.  SP is anywhere.
Check ==
  /\ at = "check"
  /\ \/ Pending # {} /\ ime /\ at' = "push_high" /\ stack' \in Stacks
     \/ ~(Pending # {} /\ ime) /\ at' = "step" /\ stack' = stack
  /\ UNCHANGED <<mode, ime, enable, flags, dest>>

\* The high byte of PC is pushed.
PushHigh ==
  /\ at = "push_high"
  /\ at' = "select"
  /\ \E value \in SUBSET Irq :
       WriteByte(CASE stack = "IE_high" -> "IE"
                   [] stack = "IF_high" -> "IF"
                   [] OTHER -> "ram", value)
  /\ UNCHANGED <<mode, ime, stack, dest>>

\* Mutant of Select: all the enabled requests are acknowledged.
SelectClearsAll ==
  /\ at = "select"
  /\ at' = "push_low"
  /\ \/ /\ dest' \in Pending
        /\ \A i \in Pending : dest' <= i
     \/ Pending = {} /\ dest' = NullVector
  /\ flags' = flags \ Pending
  /\ ime' = FALSE
  /\ mode' = "NORMAL"
  /\ UNCHANGED <<enable, stack>>

\* IE and IF are read again; the most urgent interrupt is acknowledged.
Select ==
  /\ at = "select"
  /\ at' = "push_low"
  /\ \/ /\ dest' \in Pending
        /\ \A i \in Pending : dest' <= i
     \/ Pending = {} /\ dest' = NullVector
  /\ flags' = flags \ {dest'}
  /\ ime' = FALSE
  /\ mode' = "NORMAL"
  /\ UNCHANGED <<enable, stack>>

\* The low byte of PC is pushed, three more M-cycles pass, PC gets the vector.
PushLow ==
  /\ at = "push_low"
  /\ at' = "step"
  /\ \E value \in SUBSET Irq :
       WriteByte(CASE stack = "IE_low" -> "IE"
                   [] stack = "IF_low" -> "IF"
                   [] OTHER -> "ram", value)
  /\ stack' = "ram"
  /\ dest' = None
  /\ UNCHANGED <<mode, ime>>

\* A key press (fgb_io_press_button), between two frames.
Press ==
  /\ at = "step"
  /\ flags' = flags \union {JOYPAD}
  /\ UNCHANGED <<mode, ime, enable, at, stack, dest>>

\* fgb_cpu_reset, between two frames.  IME is not in its list.
Reset ==
  /\ at = "step"
  /\ mode' = "NORMAL"
  /\ flags' = {VBLANK}
  /\ enable' = {}
  /\ UNCHANGED <<ime, at, stack, dest>>

Instruction ==
  Plain \/ WriteRegister \/ Ei \/ Di \/ Reti \/ Halt \/ Stop \/ Illegal

Dispatch == PushHigh \/ Select \/ PushLow

\* What fgb_cpu_run_frame does, over and over.
Run == Fetch \/ Idle \/ Instruction \/ Check \/ Dispatch

Next == Run \/ Press \/ Reset

\* The main loop calls fgb_cpu_run_frame again and again as long as the
\* debugger does not hold the CPU.
Spec == Init /\ [][Next]_vars /\ WF_vars(Run)

=============================================================================
