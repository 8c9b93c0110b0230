------------------------------ MODULE Debugger ------------------------------
(***************************************************************************)
(* The debugger (lib/cpu.c, src/main.c): fgb_cpu_run_frame, the table of   *)
(* breakpoints, and the keys and buttons of the front end.  The front end  *)
(* runs on one thread: it handles its events, and then runs frames.  Most  *)
(* of what an instruction does is not told here: it leaves PC anywhere in  *)
(* Code.  (Console adds the store it makes.)                               *)
(***************************************************************************)
EXTENDS Integers, Functions

CONSTANTS
  Code,  \* the addresses that the program visits
  Slots  \* FGB_CPU_MAX_BREAKPOINTS: 16

NoAddress == 65535 \* FGB_BP_ADDR_NONE

ASSUME DebuggerAssumption ==
  /\ Code \subseteq 0..65535
  /\ 0 \in Code
  /\ Slots \in Nat \ {0}

VARIABLES
  pc,
  breakpoints,
  debugging,
  do_step,
  running,     \* inside fgb_cpu_run_frame
  asked        \* history: the addresses whose breakpoint was set and not cleared

debugVars == <<pc, breakpoints, debugging, do_step, running, asked>>

Empty == [i \in 1..Slots |-> NoAddress]

\* fgb_cpu_create_ex and fgb_cpu_reset
DebugInit ==
  /\ pc = 0
  /\ breakpoints = Empty
  /\ debugging = FALSE
  /\ do_step = FALSE
  /\ running = FALSE
  /\ asked = {}

-----------------------------------------------------------------------------
(* fgb_cpu_run_frame.                                                      *)

RunFrame ==
  /\ ~running
  /\ debugging => do_step
  /\ running' = TRUE
  /\ UNCHANGED <<pc, breakpoints, debugging, do_step, asked>>

Hit(a) == \E i \in 1..Slots : breakpoints[i] # NoAddress /\ breakpoints[i] = a

\* One fgb_cpu_step and the tests behind it; the frame ends with its last cycle
\* at any step, or when the console pauses.
FrameStep ==
  /\ running
  /\ pc' \in Code
  /\ debugging' = (debugging \/ Hit(pc'))
  /\ do_step' = (do_step /\ ~debugging')
  /\ running' \in {FALSE, ~debugging'}
  /\ UNCHANGED <<breakpoints, asked>>

-----------------------------------------------------------------------------
(* The keys and buttons.                                                   *)

\* Mutant of SetBreakpoint: the first free slot is taken without a look at the others.
SetBreakpointAgain(a) ==
  /\ ~running
  /\ \E i \in 1..Slots :
       /\ breakpoints[i] = NoAddress
       /\ \A j \in 1..(i - 1) : breakpoints[j] # NoAddress
       /\ breakpoints' = [breakpoints EXCEPT ![i] = a]
  /\ asked' = asked \union {a}
  /\ UNCHANGED <<pc, debugging, do_step, running>>

\* fgb_cpu_set_bp: into the first free slot, if the address has none yet.
SetBreakpoint(a) ==
  /\ ~running
  /\ a \notin Range(breakpoints)
  /\ \E i \in 1..Slots :
       /\ breakpoints[i] = NoAddress
       /\ \A j \in 1..(i - 1) : breakpoints[j] # NoAddress
       /\ breakpoints' = [breakpoints EXCEPT ![i] = a]
  /\ asked' = asked \union {a}
  /\ UNCHANGED <<pc, debugging, do_step, running>>

\* fgb_cpu_clear_bp: the first slot with the address.
ClearBreakpoint(a) ==
  /\ ~running
  /\ \E i \in 1..Slots :
       /\ breakpoints[i] = a
       /\ \A j \in 1..(i - 1) : breakpoints[j] # a
       /\ breakpoints' = [breakpoints EXCEPT ![i] = NoAddress]
  /\ asked' = asked \ {a}
  /\ UNCHANGED <<pc, debugging, do_step, running>>

\* N, Step Over
PressStep ==
  /\ ~running /\ debugging
  /\ do_step' = TRUE
  /\ UNCHANGED <<pc, breakpoints, debugging, running, asked>>

\* C, Continue: a step that was asked for before is not taken back.
PressContinue ==
  /\ ~running /\ debugging
  /\ debugging' = FALSE
  /\ UNCHANGED <<pc, breakpoints, do_step, running, asked>>

PressPause ==
  /\ ~running
  /\ debugging' = TRUE
  /\ UNCHANGED <<pc, breakpoints, do_step, running, asked>>

\* Reset, Reset Paused, and the reset of the CPU alone, which never keeps the
\* breakpoints; neither flag is touched but by Reset Paused.
PressReset(keep, pause) ==
  /\ ~running
  /\ pc' = 0
  /\ breakpoints' = IF keep THEN breakpoints ELSE Empty
  /\ asked' = IF keep THEN asked ELSE {}
  /\ debugging' = (debugging \/ pause)
  /\ UNCHANGED <<do_step, running>>

Edit == \E a \in Code : SetBreakpoint(a) \/ ClearBreakpoint(a)
=============================================================================
