\* APU: length, envelope and sweep of channel 1, and the length of channel 3,
\* under the frame sequencer.
CONSTANTS
  SeqCycles = 1
  LengthMax = 2
  VolMax = 2
  SlowPace = 1
  LowSize = 2
  HighSize = 2
  ResetPace = 2
  SweepPaces <- MCZeroOne
  Shifts <- MCZeroOne
  EnvPaces = {0}
  Volumes = {1}
  FadeMax = 6
  WaveMax = 3

SPECIFICATION ApuWaveSpec

INVARIANTS
  WaveNoteEnds
  NoteEnds
  EnvelopeOnTime

PROPERTIES
  SweepNeverWraps
