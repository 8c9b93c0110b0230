-------------------------------- MODULE Apu ---------------------------------
(***************************************************************************)
(* The APU's frame sequencer (lib/apu.c) and the three units it drives in  *)
(* channel 1 (lib/audio/channel.c): the length counter, which ends a note, *)
(* the sweep, which moves its period, and the envelope, which moves its    *)
(* volume.                                                                 *)
(*                                                                         *)
(* The waveform, the mixing of samples and the master volume are left out: *)
(* they only read what is modelled here.  Channel 2 is channel 1 without a *)
(* sweep.  The registers of channel 1 can be written with the APU off.     *)
(***************************************************************************)
EXTENDS Integers

CONSTANTS
  SeqCycles,   \* FRAME_SEQUENCER_CYCLES: 8192
  LengthMax,   \* 64
  VolMax,      \* 15
  SlowPace,    \* what an envelope pace of 0 stands for: 8
  LowSize,     \* values of NR13: 256
  HighSize,    \* values of the period bits in NR14: 8
  ResetPace,   \* the envelope pace in NR12 after a reset: 3
  SweepPaces,  \* the paces software writes to NR10
  Shifts,      \* and the shifts
  EnvPaces,    \* the paces it writes to NR12
  Volumes      \* and the initial volumes

PeriodSize == LowSize * HighSize

ASSUME ApuAssumption ==
  /\ SeqCycles \in Nat
  /\ LengthMax \in Nat \ {0}
  /\ VolMax \in Nat \ {0}
  /\ SlowPace \in Nat \ {0}
  /\ LowSize \in Nat \ {0}
  /\ HighSize \in Nat \ {0}
  /\ ResetPace \in Nat
  /\ SweepPaces \subseteq Nat /\ Shifts \subseteq 0..7 /\ EnvPaces \subseteq Nat
  /\ Volumes \subseteq 0..VolMax

VARIABLES
  apu_en,      \* nr52.apu_en
  cycles,      \* cycle_counter
  step,        \* sequencer_step
  enabled,
  length, length_en, init_length, \* length_timer; the fields of NR14 and NR11
  volume, env_timer, env_done, nr12,
  period,      \* NR13 and the low bits of NR14
  nr10, sweep_pace, sweep_timer

lengthVars == <<length, length_en, init_length>>
envVars == <<volume, env_timer, env_done>>
sweepVars == <<sweep_pace, sweep_timer>>
apuVars == <<apu_en, cycles, step, enabled, lengthVars, envVars, nr12, period, nr10,
             sweepVars>>

EnvRegister == [pace : EnvPaces \union {ResetPace}, up : BOOLEAN, vol : Volumes \union {VolMax}]
SweepRegister == [pace : SweepPaces \union {0}, down : BOOLEAN, shift : Shifts \union {0}]

ApuTypeOK ==
  /\ apu_en \in BOOLEAN /\ enabled \in BOOLEAN
  /\ cycles \in 0..SeqCycles
  /\ step \in 0..7
  /\ length \in 0..LengthMax /\ length_en \in BOOLEAN /\ init_length \in 0..(LengthMax - 1)
  /\ volume \in 0..VolMax /\ env_timer \in Nat /\ env_done \in BOOLEAN
  /\ nr12 \in EnvRegister
  /\ period \in 0..(PeriodSize - 1)
  /\ nr10 \in SweepRegister
  /\ sweep_pace \in SweepPaces \union Shifts \union {0}
  /\ sweep_timer \in Nat

-----------------------------------------------------------------------------

\* The steps of the sequencer at which the units run.
Is256Hz == step % 2 = 0
Is128Hz == step % 4 = 2
Is64Hz == step = 7

\* What is left of fgb_apu_create and fgb_apu_reset; the sequencer starts once.
ResetChannel ==
  /\ apu_en' = TRUE
  /\ enabled' = FALSE
  /\ length' = 0 /\ length_en' = FALSE /\ init_length' = LengthMax - 1
  /\ volume' = 0 /\ env_timer' = 0 /\ env_done' = FALSE
  /\ nr12' = [pace |-> ResetPace, up |-> FALSE, vol |-> VolMax]
  /\ period' = PeriodSize - 1
  /\ nr10' = [pace |-> 0, down |-> FALSE, shift |-> 0]
  /\ sweep_pace' = 0 /\ sweep_timer' = 0

ApuInit ==
  /\ cycles = 0 /\ step = 0
  /\ apu_en = TRUE
  /\ enabled = FALSE
  /\ length = 0 /\ length_en = FALSE /\ init_length = LengthMax - 1
  /\ volume = 0 /\ env_timer = 0 /\ env_done = FALSE
  /\ nr12 = [pace |-> ResetPace, up |-> FALSE, vol |-> VolMax]
  /\ period = PeriodSize - 1
  /\ nr10 = [pace |-> 0, down |-> FALSE, shift |-> 0]
  /\ sweep_pace = 0 /\ sweep_timer = 0

\* Mutant of LengthRuns: the counter runs at every second of its ticks.
LengthRunsSlow == enabled /\ Is128Hz /\ length_en /\ length > 0

\* The length counter counts down.
LengthRuns == enabled /\ Is256Hz /\ length_en /\ length > 0

SweepRuns == enabled /\ Is128Hz /\ sweep_pace > 0

\* The period that a sweep computes.
Scale == <<1, 2, 4, 8, 16, 32, 64, 128>>
Shifted == period \div Scale[nr10.shift + 1]
Target == IF nr10.down THEN period - Shifted ELSE period + Shifted

Sweeps == SweepRuns /\ sweep_timer = 0

\* Mutant of Overflows: the period register's width is the only bound.
OverflowsNever == FALSE

\* A sweep beyond the largest period ends the note.
Overflows == Sweeps /\ Target >= PeriodSize

EnvRuns == enabled /\ Is64Hz /\ ~env_done

\* The volume one level further in its direction.
Faded ==
  IF nr12.up THEN (IF volume < VolMax THEN volume + 1 ELSE volume)
             ELSE (IF volume > 0 THEN volume - 1 ELSE volume)

EnvPace(pace) == IF pace = 0 THEN SlowPace ELSE pace

\* fgb_audio_channel_1_fs_tick at the current step.
UnitsStep ==
  /\ length' = IF LengthRuns THEN length - 1 ELSE length
  /\ enabled' = (enabled /\ ~(LengthRuns /\ length = 1) /\ ~Overflows)
  /\ sweep_timer' = IF Sweeps THEN sweep_pace
                    ELSE IF SweepRuns THEN sweep_timer - 1 ELSE sweep_timer
  /\ period' = IF Sweeps /\ ~Overflows THEN Target % PeriodSize ELSE period
  /\ IF EnvRuns /\ env_timer = 0
     THEN /\ volume' = Faded
          /\ env_timer' = EnvPace(nr12.pace)
          /\ env_done' = (volume' \in {0, VolMax})
     ELSE /\ env_timer' = IF EnvRuns THEN env_timer - 1 ELSE env_timer
          /\ UNCHANGED <<volume, env_done>>
  /\ UNCHANGED <<length_en, init_length, nr12, nr10, sweep_pace>>

\* A tick of fgb_apu_tick that does not reach the sequencer.
CountTick ==
  /\ apu_en
  /\ cycles < SeqCycles
  /\ cycles' = cycles + 1
  /\ UNCHANGED <<apu_en, step, enabled, lengthVars, envVars, nr12, period, nr10, sweepVars>>

\* A tick that does.  The counter is tested before it is incremented, so
\* SeqCycles + 1 ticks lie between two steps.
SequencerTick ==
  /\ apu_en
  /\ cycles = SeqCycles
  /\ cycles' = 0
  /\ step' = (step + 1) % 8
  /\ UnitsStep
  /\ apu_en' = apu_en

ApuTick == CountTick \/ SequencerTick

\* A write to NR10.  After a pace of 0 the code takes the low bits of the
\* value, which are the shift, for the new pace.
WriteNR10(pace, down, shift) ==
  LET early == nr10.pace = 0 /\ shift # 0 IN
  /\ nr10' = [pace |-> pace, down |-> down, shift |-> shift]
  /\ sweep_pace' = CASE pace = 0 -> 0
                     [] pace # 0 /\ early -> shift
                     [] OTHER -> sweep_pace
  /\ sweep_timer' = IF early THEN shift ELSE sweep_timer
  /\ UNCHANGED <<apu_en, cycles, step, enabled, lengthVars, envVars, nr12, period>>

WriteNR11(init) ==
  /\ init_length' = init
  /\ length' = LengthMax - init
  /\ UNCHANGED <<apu_en, cycles, step, enabled, length_en, envVars, nr12, period, nr10,
                 sweepVars>>

WriteNR12(pace, up, vol) ==
  /\ nr12' = [pace |-> pace, up |-> up, vol |-> vol]
  /\ UNCHANGED <<apu_en, cycles, step, enabled, lengthVars, envVars, period, nr10, sweepVars>>

WriteNR13(low) ==
  /\ period' = (period - (period % LowSize)) + low
  /\ UNCHANGED <<apu_en, cycles, step, enabled, lengthVars, envVars, nr12, nr10, sweepVars>>

\* A write to NR14 without its trigger bit.
WriteNR14(high, counts) ==
  /\ period' = (period % LowSize) + high * LowSize
  /\ length_en' = counts
  /\ UNCHANGED <<apu_en, cycles, step, enabled, length, init_length, envVars, nr12, nr10,
                 sweepVars>>

\* Mutant of Trigger: the envelope goes on where the last note left it.
TriggerKeepsTimer(high, counts) ==
  /\ period' = (period % LowSize) + high * LowSize
  /\ length_en' = counts
  /\ enabled' = TRUE
  /\ length' = IF length = 0 THEN LengthMax - init_length ELSE length
  /\ volume' = nr12.vol
  /\ env_done' = FALSE
  /\ sweep_pace' = nr10.pace
  /\ sweep_timer' = IF nr10.pace = 0 THEN SlowPace ELSE nr10.pace
  /\ UNCHANGED <<apu_en, cycles, step, init_length, env_timer, nr12, nr10>>

\* A write to NR14 with it: a note starts.
Trigger(high, counts) ==
  /\ period' = (period % LowSize) + high * LowSize
  /\ length_en' = counts
  /\ enabled' = TRUE
  /\ length' = IF length = 0 THEN LengthMax - init_length ELSE length
  /\ volume' = nr12.vol
  /\ env_timer' = EnvPace(nr12.pace)
  /\ env_done' = FALSE
  /\ sweep_pace' = nr10.pace
  /\ sweep_timer' = IF nr10.pace = 0 THEN SlowPace ELSE nr10.pace
  /\ UNCHANGED <<apu_en, cycles, step, init_length, nr12, nr10>>

\* A write to NR52; the length counters keep their values.
WriteNR52(on) ==
  /\ apu_en' = on
  /\ enabled' = (enabled /\ on)
  /\ UNCHANGED <<cycles, step, lengthVars, envVars, nr12, period, nr10, sweepVars>>

\* fgb_apu_reset
ResetApu == ResetChannel /\ UNCHANGED <<cycles, step>>

TriggerAny == \E high \in 0..(HighSize - 1), counts \in BOOLEAN : Trigger(high, counts)

WriteSweep ==
  \E pace \in SweepPaces, down \in BOOLEAN, shift \in Shifts : WriteNR10(pace, down, shift)

WriteLength == \E init \in 0..(LengthMax - 1) : WriteNR11(init)

WriteEnvelope ==
  \E pace \in EnvPaces, up \in BOOLEAN, vol \in Volumes : WriteNR12(pace, up, vol)

WritePeriod ==
  \/ \E low \in 0..(LowSize - 1) : WriteNR13(low)
  \/ \E high \in 0..(HighSize - 1), counts \in BOOLEAN : WriteNR14(high, counts)

SwitchApu == \E on \in BOOLEAN : WriteNR52(on)

ApuNext ==
  \/ ApuTick \/ TriggerAny \/ WriteSweep \/ WriteLength \/ WriteEnvelope \/ WritePeriod
  \/ SwitchApu \/ ResetApu

ApuSpec == ApuInit /\ [][ApuNext]_apuVars

=============================================================================
