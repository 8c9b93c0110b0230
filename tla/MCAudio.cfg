\* Audio: the sample clock keeps its rate, and the ring between the two
\* threads implements a bounded queue.
CONSTANTS
  Size = 3
  Frame <- MCFrame
  Silence <- MCSilence
  Batches = {2, 4}
  ChunkMax = 2
  Requests = {2, 4}
  Clock = 3
  Rate = 2

SPECIFICATION PathSpec

INVARIANTS
  NoTornFrame
  SamplesPaced

PROPERTIES
  ImplementsQueue
  PushReturns
