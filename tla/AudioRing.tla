----------------------------- MODULE AudioRing ------------------------------
(***************************************************************************)
(* The audio path between the emulator thread, which pushes samples, and   *)
(* the device thread, which runs the audio callback (src/audio.c).  The    *)
(* two share a ring buffer and no lock: each advances its own offset and   *)
(* reads the other's once per round.                                       *)
(*                                                                         *)
(* An offset has a loop flag that flips when it passes the end of the      *)
(* buffer.  Frames are copied one at a time, so that a copy of one thread  *)
(* interleaves with everything the other does.                             *)
(*                                                                         *)
(* When the device's rate differs from the emulator's, frames pass through *)
(* a converter, which makes any number of frames up to ChunkMax from at    *)
(* least one (or makes none), and may fail.  The ring's acquire and commit *)
(* operations are those of the vendored miniaudio.                         *)
(***************************************************************************)
EXTENDS Sequences, Integers

CONSTANTS
  Size,     \* frames in the ring
  Frame,    \* what a frame may hold
  Silence,  \* the frame of zeroes
  Batches,  \* frames in one call of fgb_audio_push_samples
  ChunkMax, \* frames the converter's buffer holds: 4096
  Requests  \* frames in one call of the audio callback

ASSUME RingAssumption ==
  /\ Size \in Nat \ {0}
  /\ Batches \subseteq Nat \ {0}
  /\ ChunkMax \in Nat \ {0}
  /\ Requests \subseteq Nat \ {0}

VARIABLES
  ring,      \* the frames in the buffer
  wr, wrlap, \* encodedWriteOffset: the offset and its loop flag
  rd, rdlap, \* encodedReadOffset
  convert,   \* the rates differ
  ppc,       \* where the emulator thread is in fgb_audio_push_samples
  input,     \* in_frames_remaining
  chunk,     \* frames of the chunk that are not written yet
  room,      \* to_write, as the ring granted it
  put,       \* frames of these copied
  cpc,       \* where the device thread is in fgb_audio_callback
  wanted,    \* frames
  avail,     \* to_read, as the ring granted it
  got,       \* frames of these copied
  output     \* the device's buffer, up to the last frame copied

producer == <<ppc, input, chunk, room, put>>
consumer == <<cpc, wanted, avail, got, output>>
ringVars == <<ring, wr, wrlap, rd, rdlap, convert, producer, consumer>>

AnyFrame == Frame \union {Silence}

RingTypeOK ==
  /\ ring \in [0..(Size - 1) -> AnyFrame]
  /\ wr \in 0..(Size - 1) /\ rd \in 0..(Size - 1)
  /\ wrlap \in BOOLEAN /\ rdlap \in BOOLEAN /\ convert \in BOOLEAN
  /\ ppc \in {"idle", "convert", "acquire", "copy", "commit"}
  /\ input \in Nat /\ chunk \in Nat
  /\ room \in 0..Size /\ put \in 0..Size
  /\ cpc \in {"idle", "acquire", "copy", "commit"}
  /\ wanted \in Nat
  /\ avail \in 0..Size /\ got \in 0..Size
  /\ output \in Seq(AnyFrame)

-----------------------------------------------------------------------------

AtMost(a, b) == IF a <= b THEN a ELSE b

RingInit ==
  /\ ring = [i \in 0..(Size - 1) |-> Silence]
  /\ wr = 0 /\ wrlap = FALSE
  /\ rd = 0 /\ rdlap = FALSE
  /\ convert \in BOOLEAN
  /\ ppc = "idle" /\ input = 0 /\ chunk = 0 /\ room = 0 /\ put = 0
  /\ cpc = "idle" /\ wanted = 0 /\ avail = 0 /\ got = 0 /\ output = <<>>

\* The frames that ma_pcm_rb_acquire_write can grant at most: up to the end of
\* the buffer, or up to the frames that are not read yet.
Writable == IF wrlap = rdlap THEN Size - wr ELSE rd - wr

\* Mutant of Readable: one frame beyond the end of the buffer is granted.
ReadableWhole == IF rdlap = wrlap THEN wr - rd ELSE AtMost(Size - rd + 1, Size)

\* The same for ma_pcm_rb_acquire_read.
Readable == IF rdlap = wrlap THEN wr - rd ELSE Size - rd

\* An offset moved by n frames, as a commit moves it; a move that ends at the
\* end of the buffer goes to its start and flips the loop flag.
Moved(offset, n) == IF offset + n = Size THEN 0 ELSE offset + n

-----------------------------------------------------------------------------
(* The emulator thread *)

\* The end of a chunk: the converter goes on with its input; without one the
\* call returns.
AfterChunk == IF convert THEN "convert" ELSE "idle"

\* A call of fgb_audio_push_samples.
Push(n) ==
  /\ ppc = "idle"
  /\ IF convert
     THEN ppc' = "convert" /\ input' = n /\ chunk' = 0
     ELSE ppc' = "acquire" /\ input' = 0 /\ chunk' = n
  /\ UNCHANGED <<ring, wr, wrlap, rd, rdlap, convert, room, put, consumer>>

\* One round of the converter.
ConvertSome ==
  /\ ppc = "convert" /\ input > 0
  /\ \E used \in 0..input, made \in 0..ChunkMax :
       /\ used = 0 => made = 0
       /\ input' = input - used
       /\ chunk' = made
       /\ ppc' = CASE made > 0 -> "acquire"
                   [] made = 0 /\ used > 0 -> "convert"
                   [] OTHER -> "idle"
  /\ UNCHANGED <<ring, wr, wrlap, rd, rdlap, convert, room, put, consumer>>

\* The input is used up, or the converter failed.
ConvertEnd ==
  /\ ppc = "convert"
  /\ ppc' = "idle"
  /\ input' = 0
  /\ UNCHANGED <<ring, wr, wrlap, rd, rdlap, convert, chunk, room, put, consumer>>

\* Mutant of AcquireWrite: a full ring is waited for.
AcquireWriteWaits ==
  /\ ppc = "acquire"
  /\ room' = AtMost(chunk, Writable)
  /\ ppc' = IF room' = 0 THEN "acquire" ELSE "copy"
  /\ put' = 0
  /\ UNCHANGED <<ring, wr, wrlap, rd, rdlap, convert, input, chunk, consumer>>

\* The read offset is loaded and room is granted; without room the rest of
\* the chunk is dropped.
AcquireWrite ==
  /\ ppc = "acquire"
  /\ room' = AtMost(chunk, Writable)
  /\ IF room' = 0
     THEN ppc' = AfterChunk /\ chunk' = 0
     ELSE ppc' = "copy" /\ chunk' = chunk
  /\ put' = 0
  /\ UNCHANGED <<ring, wr, wrlap, rd, rdlap, convert, input, consumer>>

CopyIn ==
  /\ ppc = "copy"
  /\ \E f \in Frame : ring' = [ring EXCEPT ![wr + put] = f]
  /\ put' = put + 1
  /\ ppc' = IF put + 1 = room THEN "commit" ELSE "copy"
  /\ UNCHANGED <<wr, wrlap, rd, rdlap, convert, input, chunk, room, consumer>>

\* ma_pcm_rb_commit_write, and the loop's test.
CommitWrite ==
  /\ ppc = "commit"
  /\ wr' = Moved(wr, room)
  /\ wrlap' = (wrlap # (wr + room = Size))
  /\ chunk' = chunk - room
  /\ ppc' = IF chunk' = 0 THEN AfterChunk ELSE "acquire"
  /\ room' = 0 /\ put' = 0
  /\ UNCHANGED <<ring, rd, rdlap, convert, input, consumer>>

Producer == ConvertSome \/ ConvertEnd \/ AcquireWrite \/ CopyIn \/ CommitWrite

-----------------------------------------------------------------------------
(* The device thread *)

\* A call of fgb_audio_callback.
Callback(n) ==
  /\ cpc = "idle"
  /\ cpc' = "acquire"
  /\ wanted' = n
  /\ output' = <<>>
  /\ UNCHANGED <<ring, wr, wrlap, rd, rdlap, convert, avail, got, producer>>

\* The write offset is loaded and frames are granted; without any the rest of
\* the device's buffer is filled with silence.
AcquireRead ==
  /\ cpc = "acquire"
  /\ avail' = AtMost(wanted - Len(output), Readable)
  /\ IF avail' = 0
     THEN /\ cpc' = "idle"
          /\ output' = output \o [i \in 1..(wanted - Len(output)) |-> Silence]
     ELSE cpc' = "copy" /\ output' = output
  /\ got' = 0
  /\ UNCHANGED <<ring, wr, wrlap, rd, rdlap, convert, wanted, producer>>

CopyOut ==
  /\ cpc = "copy"
  /\ output' = Append(output, ring[rd + got])
  /\ got' = got + 1
  /\ cpc' = IF got + 1 = avail THEN "commit" ELSE "copy"
  /\ UNCHANGED <<ring, wr, wrlap, rd, rdlap, convert, wanted, avail, producer>>

\* Mutant of CommitRead: the loop flag is not flipped.
CommitReadNoFlag ==
  /\ cpc = "commit"
  /\ rd' = Moved(rd, avail)
  /\ cpc' = IF Len(output) = wanted THEN "idle" ELSE "acquire"
  /\ avail' = 0 /\ got' = 0
  /\ UNCHANGED <<ring, wr, wrlap, rdlap, convert, wanted, output, producer>>

\* ma_pcm_rb_commit_read, and the loop's test.
CommitRead ==
  /\ cpc = "commit"
  /\ rd' = Moved(rd, avail)
  /\ rdlap' = (rdlap # (rd + avail = Size))
  /\ cpc' = IF Len(output) = wanted THEN "idle" ELSE "acquire"
  /\ avail' = 0 /\ got' = 0
  /\ UNCHANGED <<ring, wr, wrlap, convert, wanted, output, producer>>

Consumer == AcquireRead \/ CopyOut \/ CommitRead

RingNext ==
  \/ \E n \in Batches : Push(n)
  \/ Producer
  \/ \E n \in Requests : Callback(n)
  \/ Consumer

\* Both threads run; neither has to be called again.
RingSpec ==
  /\ RingInit /\ [][RingNext]_ringVars
  /\ WF_ringVars(Producer)
  /\ WF_ringVars(Consumer)

-----------------------------------------------------------------------------

\* The frames that are written and not read yet.
Used == IF wrlap = rdlap THEN wr - rd ELSE Size - rd + wr

\* The threads never touch the same frame at the same time: what the emulator
\* thread may write ends before the frames that are not read yet, and what the
\* device thread may read ends before the frames being written, however old
\* the offset is that either has loaded.
NoTornFrame ==
  /\ Used \in 0..Size
  /\ ppc \in {"copy", "commit"} => Used + room <= Size /\ wr + room <= Size
  /\ cpc \in {"copy", "commit"} => avail <= Used /\ rd + avail <= Size

\* The place in the buffer of the i-th frame that is not read yet.
Place(i) == IF rd + i <= Size THEN rd + i - 1 ELSE rd + i - 1 - Size

\* The ring as the queue it stands for; a frame leaves it when its read is
\* committed.
Unread == [i \in 1..Used |-> ring[Place(i)]]

Delivered == SubSeq(output, 1, Len(output) - got)

Queue == INSTANCE AudioQueue WITH
  queue <- Unread,
  offered <- chunk,
  output <- Delivered,
  Chunks <- 1..ChunkMax \union Batches

\* Nothing is lost, doubled, reordered or torn between the two threads; frames
\* are dropped only when the ring is full, and silence is played only when it
\* is empty; each chunk and each request is dealt with in the end.
ImplementsQueue == Queue!QueueSpec

\* A call of fgb_audio_push_samples returns, whatever the device thread does
\* and although frames are read while it writes: the emulator is never held up.
PushReturns == ppc # "idle" ~> ppc = "idle"

=============================================================================
