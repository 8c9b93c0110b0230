------------------------------- MODULE MCCpu -------------------------------
(***************************************************************************)
(* The CPU with the code's own five interrupts: the peripherals request    *)
(* VBLANK, LCD and TIMER, a key press requests JOYPAD, and SERIAL is       *)
(* requested by a write to IF only.                                        *)
(***************************************************************************)
EXTENDS CpuMaster

MCTickIrqs == {0, 1, 2}

=============================================================================
