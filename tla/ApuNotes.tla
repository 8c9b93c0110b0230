------------------------------ MODULE ApuNotes ------------------------------
(***************************************************************************)
(* The notes that software hears on channel 1.                             *)
(*                                                                         *)
(* The history variables count steps of the frame sequencer from outside:  *)
(*   sounding  steps for which the current note has sounded with its       *)
(*             length enabled and left alone;                              *)
(*   faded     64 Hz steps since the last trigger, up to FadeMax;          *)
(*   rewritten NR12 was written or the APU was reset since that trigger.   *)
(* They do not read the code's counters.                                   *)
(***************************************************************************)
EXTENDS Apu

CONSTANT FadeMax \* a number of 64 Hz steps in which every envelope ends

ASSUME FadeAssumption ==
  /\ FadeMax \in Nat
  /\ \A p \in EnvPaces \union {ResetPace} : VolMax * (EnvPace(p) + 1) <= FadeMax

VARIABLES sounding, faded, rewritten

noteHistory == <<sounding, faded, rewritten>>
noteVars == <<apuVars, noteHistory>>

NoteTypeOK ==
  /\ ApuTypeOK
  /\ sounding \in 0..(2 * LengthMax)
  /\ faded \in 0..FadeMax
  /\ rewritten \in BOOLEAN

NoteInit == ApuInit /\ sounding = 0 /\ faded = 0 /\ rewritten = TRUE

NoteStep ==
  /\ SequencerTick
  /\ sounding' = IF enabled' /\ length_en THEN sounding + 1 ELSE 0
  /\ faded' = IF enabled /\ Is64Hz /\ faded < FadeMax THEN faded + 1 ELSE faded
  /\ rewritten' = rewritten

NoteTrigger ==
  /\ TriggerAny
  /\ sounding' = 0 /\ faded' = 0 /\ rewritten' = FALSE

Rewritten ==
  /\ sounding' = IF enabled' THEN sounding ELSE 0
  /\ rewritten' = TRUE
  /\ faded' = faded

NoteEnvelope == (WriteEnvelope \/ ResetApu) /\ Rewritten

\* A write to the length or to its enable bit starts the count again.
NoteLengthWrite ==
  /\ WriteLength \/ WritePeriod
  /\ sounding' = IF length' = length /\ length_en' = length_en THEN sounding ELSE 0
  /\ UNCHANGED <<faded, rewritten>>

Kept ==
  /\ sounding' = IF enabled' THEN sounding ELSE 0
  /\ UNCHANGED <<faded, rewritten>>

NoteOther == (CountTick \/ WriteSweep \/ SwitchApu) /\ Kept

NoteNext == NoteStep \/ NoteTrigger \/ NoteEnvelope \/ NoteLengthWrite \/ NoteOther

NoteSpec == NoteInit /\ [][NoteNext]_noteVars

-----------------------------------------------------------------------------

\* A note whose length is enabled ends: left alone, it sounds for less than
\* two sequencer steps per count of the largest length, whichever step of the
\* sequencer it was started at and whatever the length was before the trigger.
NoteEnds == enabled /\ length_en => length > 0 /\ sounding < 2 * LengthMax

\* The envelope keeps time: with NR12 as it was at the trigger, the volume is
\* the initial one moved by one for every pace + 1 steps at 64 Hz, up to the
\* end of its range and no further.
EnvelopeOnTime ==
  LET moved == faded \div (EnvPace(nr12.pace) + 1) IN
  enabled /\ ~rewritten =>
    volume = IF nr12.up
             THEN (IF nr12.vol + moved < VolMax THEN nr12.vol + moved ELSE VolMax)
             ELSE (IF nr12.vol > moved THEN nr12.vol - moved ELSE 0)

\* The sweep moves the period in its own direction; at the end of the range
\* it ends the note and never wraps round.
SweepNeverWraps ==
  [][ SequencerTick /\ period' # period =>
        IF nr10.down THEN period' < period ELSE period < period' ]_noteVars

=============================================================================
