------------------------------ MODULE SaveSlot ------------------------------
(***************************************************************************)
(* What the battery of a cartridge promises (src/main.c): a game starts    *)
(* with the memory it was left with, or with blank memory; never with a    *)
(* part of one save and a part of another, and never with that of another  *)
(* game.  The one exception is a save that the machine fails to read: the  *)
(* game starts all the same, with memory that means nothing.               *)
(*                                                                         *)
(* A save can be spoiled, and is then as good as none; the program         *)
(* promises no more, since it writes over the only copy.                   *)
(***************************************************************************)
CONSTANTS Games, NoGame, Unsaved, Memories(_), BlankMemory(_)

VARIABLES
  playing, \* the game being played
  memory,  \* its memory
  slot,    \* the last save of each game, or Unsaved
  misread  \* the game was started with a save that could not be read in full

slotVars == <<playing, memory, slot, misread>>

SlotInit ==
  /\ playing = NoGame
  /\ slot = [g \in Games |-> Unsaved]
  /\ misread = FALSE

\* A game may be started in place of another one.
Begin ==
  /\ playing' \in Games
  /\ \/ memory' = BlankMemory(playing')
     \/ memory' = slot[playing'] /\ slot[playing'] # Unsaved
  /\ misread' = FALSE
  /\ UNCHANGED slot

\* Only a game that has a save can be started with one that is misread.
BeginMisread ==
  /\ playing' \in Games
  /\ slot[playing'] # Unsaved
  /\ memory' \in Memories(playing')
  /\ misread' = TRUE
  /\ UNCHANGED slot

Play ==
  /\ playing # NoGame
  /\ memory' \in Memories(playing)
  /\ UNCHANGED <<playing, slot, misread>>

Spoil ==
  /\ playing # NoGame
  /\ slot' = [slot EXCEPT ![playing] = Unsaved]
  /\ UNCHANGED <<playing, memory, misread>>

Commit ==
  /\ playing # NoGame
  /\ slot' = [slot EXCEPT ![playing] = memory]
  /\ UNCHANGED <<playing, memory, misread>>

Stop ==
  /\ playing # NoGame
  /\ playing' = NoGame
  /\ misread' = FALSE
  /\ UNCHANGED slot

SlotNext == Begin \/ BeginMisread \/ Play \/ Spoil \/ Commit \/ Stop

SlotSpec == SlotInit /\ [][SlotNext]_slotVars

=============================================================================
