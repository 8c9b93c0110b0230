------------------------------ MODULE Console ------------------------------
(***************************************************************************)
(* The console under the front end: what the program stores while          *)
(* fgb_cpu_run_frame runs it, and what the debugger does to it between     *)
(* frames.                                                                 *)
(***************************************************************************)
EXTENDS Mmu, Debugger

vars == <<mmuVars, debugVars>>

Init == MmuInit /\ DebugInit

\* An instruction makes one store, or none; the PPU draws meanwhile.
Access ==
  \/ \E a \in Memory, v \in Values : StoreByte(a, v)
  \/ \E v \in Banks : SelectWork(v) \/ SelectVideo(v)
  \/ UnmapBoot
  \/ DrawingChanges
  \/ UNCHANGED mmuVars

Execute == FrameStep /\ Access

Events ==
  /\ RunFrame \/ PressStep \/ PressContinue \/ PressPause \/ Edit
  /\ UNCHANGED mmuVars

Resets ==
  \/ \E keep, pause \in BOOLEAN : PressReset(keep, pause) /\ ConsoleResets
  \/ PressReset(FALSE, FALSE) /\ CpuResets

Next == Execute \/ Events \/ Resets

Spec == Init /\ [][Next]_vars

-----------------------------------------------------------------------------

\* The console pauses exactly at the addresses whose breakpoint was set and not
\* cleared, also at the end of a frame; once it pauses, neither PC nor memory
\* changes until a step or a continuation is asked for, or a reset; and one
\* step is one instruction however many frames are due.  The table of slots and
\* the two flags have to see to all of that.
Session == INSTANCE Breakpoints WITH
  None <- NoAddress,
  Most <- Slots,
  memory <- <<ram, vram>>,
  points <- asked,
  paused <- debugging,
  granted <- do_step

ImplementsBreakpoints == Session!Spec
=============================================================================
