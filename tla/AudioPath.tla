----------------------------- MODULE AudioPath ------------------------------
(***************************************************************************)
(* The emulator thread from the APU's sample clock (lib/apu.c) to the ring *)
(* of AudioRing.  On each of its cycles the clock adds the sample rate to  *)
(* an accumulator; a frame is due whenever that reaches the frequency of   *)
(* the CPU.  Frames are collected until there is a chunk of them, which is *)
(* pushed by the thread itself: the clock stands while it pushes.          *)
(*                                                                         *)
(* The history variables read no counter of the code:                      *)
(*   second  cycles with the APU on, less Clock for each whole second;     *)
(*   handed  frames handed to fgb_audio_push_samples, less Rate for each.  *)
(***************************************************************************)
EXTENDS AudioRing

CONSTANTS
  Clock, \* FGB_CPU_CLOCK_SPEED: 4194304
  Rate   \* sample_rate: 48000

ASSUME PathAssumption ==
  /\ Clock \in Nat \ {0}
  /\ Rate \in 1..Clock

VARIABLES
  apu_on,       \* apu_en, the bit of NR52
  accumulator,
  sample_chunk, \* as fgb_apu_create computes it
  sample_count, \* frames collected
  second, handed

clockVars == <<apu_on, accumulator, sample_chunk, sample_count, second, handed>>
pathVars == <<ringVars, clockVars>>

PathTypeOK ==
  /\ apu_on \in BOOLEAN
  /\ accumulator \in 0..(Clock - 1)
  /\ sample_chunk \in Batches
  /\ sample_count \in 0..(sample_chunk - 1)
  /\ second \in 0..(Clock - 1)
  /\ handed \in Int

-----------------------------------------------------------------------------

\* A console is created, and then reset before it runs.
NewClock ==
  /\ apu_on' = TRUE
  /\ accumulator' = 0 /\ sample_count' = 0
  /\ second' = 0 /\ handed' = 0

PathInit ==
  /\ RingInit
  /\ sample_chunk \in Batches
  /\ apu_on = TRUE
  /\ accumulator = 0 /\ sample_count = 0
  /\ second = 0 /\ handed = 0

FrameDue == accumulator + Rate >= Clock

ChunkFull == FrameDue /\ sample_count + 1 >= sample_chunk

\* Mutant of Accumulated: what is beyond a whole frame is forgotten.
AccumulatedAnew == IF FrameDue THEN 0 ELSE accumulator + Rate

Accumulated == IF FrameDue THEN accumulator + Rate - Clock ELSE accumulator + Rate

\* The part of fgb_apu_tick that mixes.
SampleTick ==
  /\ ppc = "idle" /\ apu_on
  /\ accumulator' = Accumulated
  /\ sample_count' = IF ChunkFull THEN 0
                     ELSE IF FrameDue THEN sample_count + 1 ELSE sample_count
  /\ IF ChunkFull THEN Push(sample_chunk) ELSE UNCHANGED ringVars
  /\ LET whole == second + 1 = Clock
     IN /\ second' = IF whole THEN 0 ELSE second + 1
        /\ handed' = handed + (IF ChunkFull THEN sample_count + 1 ELSE 0)
                            - (IF whole THEN Rate ELSE 0)
  /\ UNCHANGED <<apu_on, sample_chunk>>

\* A write to NR52, or fgb_apu_reset, which sets its top bit: neither touches
\* the clock, which goes on where it stood.
SwitchClock ==
  /\ ppc = "idle"
  /\ apu_on' \in BOOLEAN
  /\ UNCHANGED <<ringVars, accumulator, sample_chunk, sample_count, second, handed>>

\* Another ROM is dropped on the window, between two frames of the emulator:
\* its console goes with the frames collected, and the ring goes on.
DropRom ==
  /\ ppc = "idle"
  /\ NewClock
  /\ UNCHANGED <<ringVars, sample_chunk>>

PathProducer == Producer /\ UNCHANGED clockVars
PathConsumer == Consumer /\ UNCHANGED clockVars

PathNext ==
  \/ SampleTick
  \/ SwitchClock
  \/ DropRom
  \/ PathProducer
  \/ (\E n \in Requests : Callback(n)) /\ UNCHANGED clockVars
  \/ PathConsumer

\* As in RingSpec: a thread that is in a call goes on.
PathSpec ==
  /\ PathInit /\ [][PathNext]_pathVars
  /\ WF_pathVars(PathProducer)
  /\ WF_pathVars(PathConsumer)

-----------------------------------------------------------------------------

\* The APU keeps the sample rate, without drift: the frames handed over and
\* the ones collected are as many as the time with the APU on makes whole
\* frames, and the collected ones never exceed the buffer of a chunk, however
\* often the APU is switched off between.
SamplesPaced ==
  /\ sample_count < sample_chunk
  /\ handed + sample_count = (second * Rate) \div Clock

=============================================================================
