---------------------------- MODULE Breakpoints ----------------------------
(***************************************************************************)
(* What the debugger of the front end promises: a paused console stands    *)
(* still, but for the steps that it was granted and for resets, and it     *)
(* pauses when it arrives at a breakpoint.  Debugger implements it with a   *)
(* table of slots and two flags that are tested once a step.               *)
(***************************************************************************)
EXTENDS Naturals, FiniteSets

CONSTANTS
  None, \* the address that cannot have a breakpoint
  Most  \* the number of breakpoints there may be

VARIABLES
  pc,
  memory,
  points,  \* the addresses with a breakpoint
  paused,
  granted  \* a step

vars == <<pc, memory, points, paused, granted>>

Init == points = {} /\ ~paused /\ ~granted

\* The program goes on: one instruction, or one wait.
Execute ==
  /\ paused => granted
  /\ paused' = (paused \/ pc' \in points)
  /\ granted' = (granted /\ ~paused')
  /\ points' = points

Still == UNCHANGED <<pc, memory>>

Pause == paused' = TRUE /\ granted' = granted /\ points' = points
Resume == paused /\ paused' = FALSE /\ granted' = granted /\ points' = points
Grant == paused /\ granted' = TRUE /\ paused' = paused /\ points' = points

\* A breakpoint is added if there is room, or removed.
Edit ==
  /\ \/ /\ Cardinality(points) < Most
        /\ \E a \in points' : a # None /\ points' = points \union {a}
     \/ \E a \in points : points' = points \ {a}
  /\ UNCHANGED <<paused, granted>>

\* A reset, which may pause as well and may remove all breakpoints.
Reset ==
  /\ pc' = 0
  /\ points' \in {points, {}}
  /\ paused' \in {paused, TRUE}
  /\ granted' = granted

Next == Execute \/ (Still /\ (Pause \/ Resume \/ Grant \/ Edit)) \/ Reset

Spec == Init /\ [][Next]_vars
=============================================================================
