------------------------------ MODULE ApuWave -------------------------------
(***************************************************************************)
(* Channel 3, the wave channel (lib/audio/channel.c), beside channel 1 on   *)
(* the frame sequencer.  It has a length of its own width and neither a    *)
(* sweep nor an envelope; its registers for the period, the level and the  *)
(* wave select samples and are left out.                                   *)
(*                                                                         *)
(* The two channels share the sequencer and NR52 only, so a behaviour has  *)
(* software program one of them.  Channel 2 is channel 1 whose NR10 is     *)
(* never written.                                                          *)
(***************************************************************************)
EXTENDS ApuNotes

CONSTANT WaveMax \* the values of NR31: 256

ASSUME WaveAssumption == WaveMax \in Nat \ {0, 1}

VARIABLES
  played,      \* the channel that software programs: "square" or "wave"
  wave_enabled,
  wave_length, wave_length_en, \* length_timer (8 bits); the bit of NR34
  wave_sounding, \* history: steps that the note has sounded with its length on
  wave_zeroed    \* history: the last write to NR31 in this note was a 0

waveVars == <<wave_enabled, wave_length, wave_length_en, wave_sounding, wave_zeroed>>
apuSpecVars == <<noteVars, played, waveVars>>

WaveTypeOK ==
  /\ played \in {"square", "wave"}
  /\ wave_enabled \in BOOLEAN /\ wave_length_en \in BOOLEAN /\ wave_zeroed \in BOOLEAN
  /\ wave_length \in 0..(WaveMax - 1)
  /\ wave_sounding \in Nat

-----------------------------------------------------------------------------

WaveInit ==
  /\ wave_enabled = FALSE
  /\ wave_length = 0 /\ wave_length_en = FALSE
  /\ wave_sounding = 0 /\ wave_zeroed = FALSE

WaveReset ==
  /\ wave_enabled' = FALSE
  /\ wave_length' = 0 /\ wave_length_en' = FALSE
  /\ wave_sounding' = 0 /\ wave_zeroed' = FALSE

WaveRuns == wave_enabled /\ Is256Hz /\ wave_length_en /\ wave_length > 0

\* fgb_audio_channel_3_fs_tick
WaveStep ==
  /\ wave_length' = IF WaveRuns THEN wave_length - 1 ELSE wave_length
  /\ wave_enabled' = (wave_enabled /\ ~(WaveRuns /\ wave_length = 1))
  /\ wave_sounding' = IF wave_enabled' /\ wave_length_en /\ ~wave_zeroed
                      THEN wave_sounding + 1 ELSE 0
  /\ UNCHANGED <<wave_length_en, wave_zeroed>>

\* A write to NR31: 256 less the value, in eight bits, so that a 0 leaves a
\* length of 0, with which a note that sounds already never ends.
WriteNR31(value) ==
  /\ wave_length' = (WaveMax - value) % WaveMax
  /\ wave_zeroed' = (value = 0)
  /\ wave_sounding' = 0
  /\ UNCHANGED <<wave_enabled, wave_length_en>>

\* A write to NR34 without its trigger bit.
WriteNR34(counts) ==
  /\ wave_length_en' = counts
  /\ wave_sounding' = 0
  /\ UNCHANGED <<wave_enabled, wave_length, wave_zeroed>>

\* Mutant of WaveTrigger: a length that has run out is left at 0.
WaveTriggerSpent(counts) ==
  /\ wave_enabled' = TRUE
  /\ wave_length_en' = counts
  /\ wave_sounding' = 0 /\ wave_zeroed' = FALSE
  /\ wave_length' = wave_length

\* A write to NR34 with it.
WaveTrigger(counts) ==
  /\ wave_enabled' = TRUE
  /\ wave_length_en' = counts
  /\ wave_length' = IF wave_length = 0 THEN WaveMax - 1 ELSE wave_length
  /\ wave_sounding' = 0 /\ wave_zeroed' = FALSE

WaveWrite ==
  \/ \E value \in 0..(WaveMax - 1) : WriteNR31(value)
  \/ \E counts \in BOOLEAN : WriteNR34(counts) \/ WaveTrigger(counts)

\* What a write to NR52 does to channel 3.
WaveSwitch ==
  /\ wave_enabled' = (wave_enabled /\ apu_en')
  /\ wave_sounding' = IF wave_enabled' THEN wave_sounding ELSE 0
  /\ UNCHANGED <<wave_length, wave_length_en, wave_zeroed>>

-----------------------------------------------------------------------------

\* fgb_apu_tick
BothTick ==
  \/ NoteStep /\ WaveStep
  \/ CountTick /\ Kept /\ UNCHANGED waveVars

\* A write to a register of channel 1.
SquareWrite ==
  /\ played = "square"
  /\ \/ NoteTrigger
     \/ WriteEnvelope /\ Rewritten
     \/ NoteLengthWrite
     \/ WriteSweep /\ Kept
  /\ UNCHANGED waveVars

BothSwitch == SwitchApu /\ Kept /\ WaveSwitch

BothReset == ResetApu /\ Rewritten /\ WaveReset

ApuWaveInit == NoteInit /\ WaveInit /\ played \in {"square", "wave"}

ApuWaveNext ==
  /\ \/ BothTick
     \/ SquareWrite
     \/ played = "wave" /\ WaveWrite /\ UNCHANGED noteVars
     \/ BothSwitch
     \/ BothReset
  /\ played' = played

ApuWaveSpec == ApuWaveInit /\ [][ApuWaveNext]_apuSpecVars

-----------------------------------------------------------------------------

\* A note of channel 3 whose length is enabled ends, like one of channel 1:
\* left alone, it sounds for less than two steps per count of the largest
\* length.  The one exception is a 0 written to NR31 while it sounds; a 0
\* written before the trigger, or a length that ran out, is none.
WaveNoteEnds ==
  wave_enabled /\ wave_length_en /\ ~wave_zeroed =>
    wave_length > 0 /\ wave_sounding < 2 * (WaveMax - 1)

=============================================================================
