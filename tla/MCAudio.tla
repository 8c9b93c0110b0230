------------------------------ MODULE MCAudio -------------------------------
(***************************************************************************)
(* Instance for TLC: a ring of three frames, and calls on both sides that  *)
(* are shorter and longer than it.  Two values a frame may hold tell any   *)
(* misplaced frame from the right one in some behaviour.  Two frames are   *)
(* due in three cycles, so that they are unevenly spaced.                  *)
(***************************************************************************)
EXTENDS AudioPath

MCFrame == {"a", "b"}
MCSilence == "silence"

=============================================================================
