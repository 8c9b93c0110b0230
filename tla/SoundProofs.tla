----------------------------- MODULE SoundProofs -----------------------------
(***************************************************************************)
(* What the sound guarantees: the notes of channels 1 and 3 for every      *)
(* length, volume, pace and period width, and the way of the samples to    *)
(* the device for every size of the ring, every length of the calls on     *)
(* both sides and every converter.                                         *)
(***************************************************************************)
EXTENDS ApuWave, AudioPath, SequenceTheorems, TLAPS

-----------------------------------------------------------------------------
(***************************************************************************)
(* The audio ring: the two threads never touch the same frame, and the     *)
(* ring implements the queue of AudioQueue.                                *)
(*                                                                         *)
(* The invariant says what each thread knows while it copies: what it was  *)
(* granted stays granted, because the other thread's offset moves only     *)
(* away from it.                                                           *)
(***************************************************************************)

\* The emulator thread: what it has been granted is part of its chunk.
Pushing ==
  /\ ppc \in {"idle", "convert"} => chunk = 0
  /\ ppc = "acquire" => chunk > 0
  /\ ppc \in {"copy", "commit"} => 0 < room /\ room <= chunk
  /\ ppc = "copy" => put < room
  /\ ppc = "commit" => put = room
  /\ ppc \notin {"copy", "commit"} => put = 0

\* The device thread: what it has been granted is part of the request.
Playing ==
  /\ cpc = "idle" => Len(output) = wanted /\ got = 0
  /\ cpc = "acquire" => Len(output) < wanted /\ got = 0
  /\ cpc \in {"copy", "commit"} =>
       0 < avail /\ got <= Len(output) /\ (Len(output) - got) + avail <= wanted
  /\ cpc = "copy" => got < avail
  /\ cpc = "commit" => got = avail

\* What has been copied so far, in either direction.
Copied ==
  /\ \A k \in 0..(put - 1) : ring[wr + k] \in Frame
  /\ \A k \in 1..got : output[(Len(output) - got) + k] = ring[(rd + k) - 1]

RingInv == RingTypeOK /\ NoTornFrame /\ Pushing /\ Playing /\ Copied

USE RingAssumption DEF RingAssumption

-----------------------------------------------------------------------------

\* The buffer starts empty.
LEMMA RingInitInv == RingInit => RingInv
<1> SUFFICES ASSUME RingInit PROVE RingInv
  OBVIOUS
<1>o. output \in Seq(AnyFrame) /\ Len(output) = 0
  BY EmptySeq DEF RingInit
<1>r. ring \in [0..(Size - 1) -> AnyFrame]
  BY DEF RingInit, AnyFrame
<1>b. wrlap \in BOOLEAN /\ rdlap \in BOOLEAN /\ convert \in BOOLEAN
  BY DEF RingInit
<1>n. /\ wr \in 0..(Size - 1) /\ rd \in 0..(Size - 1)
      /\ room \in 0..Size /\ put \in 0..Size /\ avail \in 0..Size /\ got \in 0..Size
      /\ input \in Nat /\ chunk \in Nat /\ wanted \in Nat
  BY DEF RingInit
<1>p. ppc = "idle" /\ cpc = "idle"
  BY DEF RingInit
<1>1. RingTypeOK
  BY <1>o, <1>r, <1>b, <1>n, <1>p DEF RingTypeOK
<1>2. NoTornFrame /\ Pushing
  BY DEF RingInit, NoTornFrame, Used, Pushing
<1>3. Playing /\ Copied
  BY <1>o DEF RingInit, Playing, Copied
<1> QED BY <1>1, <1>2, <1>3 DEF RingInv

\* A commit moves an offset within the buffer; its loop flag flips when it
\* returns to the start, so that the use of the ring changes by n exactly.
LEMMA MovedWrite ==
  ASSUME RingTypeOK, Used \in 0..Size, NEW n \in 1..Size, wr + n <= Size, Used + n <= Size,
         wr' = Moved(wr, n), wrlap' = (wrlap # (wr + n = Size)),
         rd' = rd, rdlap' = rdlap
  PROVE  wr' \in 0..(Size - 1) /\ wrlap' \in BOOLEAN /\ Used' = Used + n
BY DEF RingTypeOK, Used, Moved

LEMMA MovedRead ==
  ASSUME RingTypeOK, Used \in 0..Size, NEW n \in 1..Size, rd + n <= Size, n <= Used,
         rd' = Moved(rd, n), rdlap' = (rdlap # (rd + n = Size)),
         wr' = wr, wrlap' = wrlap
  PROVE  rd' \in 0..(Size - 1) /\ rdlap' \in BOOLEAN /\ Used' = Used - n
BY DEF RingTypeOK, Used, Moved

\* What the ring grants is there.
LEMMA Grants ==
  ASSUME RingTypeOK, Used \in 0..Size
  PROVE  /\ Writable \in 0..Size /\ wr + Writable <= Size /\ Used + Writable <= Size
         /\ Readable \in 0..Size /\ rd + Readable <= Size /\ Readable <= Used
BY DEF RingTypeOK, Used, Writable, Readable

\* A frame being written is none of those that are not read yet.
LEMMA Apart ==
  ASSUME RingTypeOK, Used \in 0..Size,
         NEW n \in 0..Size, wr + n <= Size, Used + n <= Size,
         NEW i \in 1..Used
  PROVE  /\ Place(i) \in 0..(Size - 1)
         /\ \A k \in 0..(n - 1) : Place(i) # wr + k
BY DEF RingTypeOK, Used, Place

-----------------------------------------------------------------------------
(* The emulator thread *)

\* Steps of the emulator thread that touch neither the buffer nor an offset
\* leave the device thread's part of the invariant alone.
LEMMA ProducerFrame ==
  ASSUME RingInv, UNCHANGED <<ring, wr, wrlap, rd, rdlap, convert, consumer>>,
         ppc' \in {"idle", "convert", "acquire", "copy", "commit"},
         input' \in Nat, chunk' \in Nat, room' \in 0..Size, put' = 0,
         Pushing',
         ppc' \in {"copy", "commit"} => Used + room' <= Size /\ wr + room' <= Size
  PROVE  RingInv'
<1>1. RingTypeOK'
  BY DEF RingInv, RingTypeOK, consumer
<1>2. NoTornFrame'
  BY DEF RingInv, NoTornFrame, Used, consumer
<1>3. Playing'
  BY DEF RingInv, Playing, consumer
<1>4. Copied'
  BY DEF RingInv, Copied, consumer
<1> QED BY <1>1, <1>2, <1>3, <1>4 DEF RingInv

LEMMA PushKeeps == ASSUME RingInv, NEW n \in Batches, Push(n) PROVE RingInv'
<1>1. /\ ppc' \in {"convert", "acquire"} /\ input' \in Nat /\ chunk' \in Nat
      /\ room' = room /\ put' = 0
  BY DEF Push, RingInv, Pushing
<1>2. Pushing'
  BY <1>1 DEF Push, Pushing
<1> QED BY <1>1, <1>2, ProducerFrame DEF Push, RingInv, RingTypeOK

LEMMA ConvertKeeps == ASSUME RingInv, ConvertSome \/ ConvertEnd PROVE RingInv'
<1>1. /\ ppc' \in {"idle", "convert", "acquire"} /\ input' \in Nat /\ chunk' \in Nat
      /\ room' = room /\ put' = 0
      /\ ppc' = "acquire" <=> chunk' > 0
      /\ UNCHANGED <<ring, wr, wrlap, rd, rdlap, convert, consumer>>
  <2>1. CASE ConvertSome
    <3>1. PICK used \in 0..input, made \in 0..ChunkMax :
            /\ input' = input - used
            /\ chunk' = made
            /\ ppc' = CASE made > 0 -> "acquire"
                        [] made = 0 /\ used > 0 -> "convert"
                        [] OTHER -> "idle"
      BY <2>1 DEF ConvertSome
    <3>2. room' = room /\ put' = put /\ UNCHANGED <<ring, wr, wrlap, rd, rdlap, convert, consumer>>
      BY <2>1 DEF ConvertSome
    <3> QED BY <2>1, <3>1, <3>2 DEF ConvertSome, RingInv, RingTypeOK, Pushing
  <2>2. CASE ConvertEnd
    BY <2>2 DEF ConvertEnd, RingInv, RingTypeOK, Pushing
  <2> QED BY <2>1, <2>2
<1>2. Pushing'
  BY <1>1 DEF Pushing
<1> QED BY <1>1, <1>2, ProducerFrame DEF RingInv, RingTypeOK

LEMMA AcquireWriteKeeps == ASSUME RingInv, AcquireWrite PROVE RingInv'
<1>1. /\ Writable \in 0..Size /\ wr + Writable <= Size /\ Used + Writable <= Size
      /\ chunk \in Nat \ {0}
  BY Grants DEF RingInv, NoTornFrame, AcquireWrite, Pushing, RingTypeOK
<1>2. /\ room' \in 0..Size /\ wr + room' <= Size /\ Used + room' <= Size
      /\ room' <= chunk /\ put' = 0 /\ input' = input
  BY <1>1 DEF AcquireWrite, AtMost, RingInv, NoTornFrame, RingTypeOK
<1>3. \/ room' = 0 /\ chunk' = 0 /\ ppc' \in {"idle", "convert"}
      \/ room' > 0 /\ chunk' = chunk /\ ppc' = "copy"
  BY <1>2 DEF AcquireWrite, AfterChunk
<1>4. Pushing'
  BY <1>2, <1>3 DEF Pushing
<1> QED BY <1>1, <1>2, <1>3, <1>4, ProducerFrame DEF AcquireWrite, RingInv, RingTypeOK

LEMMA CopyInKeeps == ASSUME RingInv, CopyIn PROVE RingInv'
<1>1. PICK f \in Frame : ring' = [ring EXCEPT ![wr + put] = f]
  BY DEF CopyIn
<1>2. /\ ppc = "copy" /\ put' = put + 1
      /\ ppc' = IF put + 1 = room THEN "commit" ELSE "copy"
      /\ UNCHANGED <<wr, wrlap, rd, rdlap, convert, input, chunk, room, consumer>>
  BY DEF CopyIn
<1>3. put \in 0..(room - 1) /\ wr + put \in 0..(Size - 1) /\ room \in 1..Size
      /\ wr \in 0..(Size - 1)
  BY <1>2 DEF RingInv, Pushing, NoTornFrame, RingTypeOK
<1>4. RingTypeOK'
  <2>1. ring' \in [0..(Size - 1) -> AnyFrame]
    BY <1>1, <1>3 DEF RingInv, RingTypeOK, AnyFrame
  <2> QED BY <1>2, <1>3, <2>1 DEF RingInv, RingTypeOK, consumer
<1>5. NoTornFrame'
  BY <1>2 DEF RingInv, NoTornFrame, Used, consumer
<1>6. Pushing' /\ Playing'
  BY <1>2, <1>3 DEF RingInv, Pushing, Playing, consumer
<1>7. \A k \in 0..(put' - 1) : ring'[wr' + k] \in Frame
  <2> SUFFICES ASSUME NEW k \in 0..put PROVE ring'[wr + k] \in Frame
    BY <1>2, <1>3
  <2>1. wr + k \in 0..(Size - 1)
    BY <1>2, <1>3 DEF RingInv, NoTornFrame
  <2>2. CASE k = put
    BY <1>1, <2>1, <2>2 DEF RingInv, RingTypeOK
  <2>3. CASE k # put
    <3>1. k \in 0..(put - 1) /\ wr + k # wr + put
      BY <1>3, <2>3
    <3>2. ring[wr + k] \in Frame
      BY <3>1, Zenon DEF RingInv, Copied
    <3>3. DOMAIN ring = 0..(Size - 1)
      BY Zenon DEF RingInv, RingTypeOK
    <3>4. ring'[wr + k] = ring[wr + k]
      BY <1>1, <2>1, <3>1, <3>3, Zenon
    <3> QED BY <3>2, <3>4, Zenon
  <2> QED BY <2>2, <2>3
<1>8. \A k \in 1..got' : output'[(Len(output') - got') + k] = ring'[(rd' + k) - 1]
  <2> SUFFICES ASSUME NEW k \in 1..got
               PROVE  output[(Len(output) - got) + k] = ring'[(rd + k) - 1]
    BY <1>2 DEF consumer
  <2>1. k \in 1..Used /\ rd + k <= Size /\ got \in 0..Size /\ rd \in 0..(Size - 1)
    BY DEF RingInv, NoTornFrame, Playing, RingTypeOK
  <2>2. Place(k) = rd + k - 1 /\ Place(k) # wr + put /\ Place(k) \in 0..(Size - 1)
    <3>1. /\ RingTypeOK /\ Used \in 0..Size /\ room \in 0..Size
          /\ wr + room <= Size /\ Used + room <= Size
      BY <1>2, <1>3 DEF RingInv, NoTornFrame
    <3>2. /\ Place(k) \in 0..(Size - 1)
          /\ \A j \in 0..(room - 1) : Place(k) # wr + j
      BY <2>1, <3>1, Apart
    <3>3. Place(k) = rd + k - 1
      BY <2>1 DEF Place
    <3> QED BY <1>3, <3>2, <3>3
  <2>3. ring'[(rd + k) - 1] = ring[(rd + k) - 1]
    BY <1>1, <2>1, <2>2 DEF RingInv, RingTypeOK
  <2> QED BY <2>3 DEF RingInv, Copied
<1>9. Copied'
  BY <1>7, <1>8 DEF Copied
<1> QED BY <1>4, <1>5, <1>6, <1>9 DEF RingInv

LEMMA CommitWriteKeeps == ASSUME RingInv, CommitWrite PROVE RingInv'
<1>1. /\ room \in 1..Size /\ room <= chunk /\ wr + room <= Size /\ Used + room <= Size
      /\ Used \in 0..Size
  BY DEF CommitWrite, RingInv, Pushing, NoTornFrame, RingTypeOK
<1>2. wr' \in 0..(Size - 1) /\ wrlap' \in BOOLEAN /\ Used' = Used + room
  BY <1>1, MovedWrite DEF CommitWrite, RingInv
<1>3. /\ chunk' = chunk - room /\ chunk' \in Nat /\ room' = 0 /\ put' = 0
      /\ ppc' = IF chunk' = 0 THEN AfterChunk ELSE "acquire"
      /\ UNCHANGED <<ring, rd, rdlap, convert, input, consumer>>
  BY <1>1 DEF CommitWrite, RingInv, RingTypeOK
<1>4. RingTypeOK'
  BY <1>2, <1>3 DEF RingInv, RingTypeOK, AfterChunk, consumer
<1>5. NoTornFrame'
  BY <1>1, <1>2, <1>3 DEF RingInv, NoTornFrame, RingTypeOK, AfterChunk, consumer
<1>6. Pushing'
  BY <1>3 DEF Pushing, AfterChunk
<1>7. Playing' /\ Copied'
  BY <1>3 DEF RingInv, Playing, Copied, consumer
<1> QED BY <1>4, <1>5, <1>6, <1>7 DEF RingInv

-----------------------------------------------------------------------------
(* The device thread *)

\* Steps of the device thread that move no offset leave the emulator thread's
\* part of the invariant alone.
LEMMA ConsumerFrame ==
  ASSUME RingInv, UNCHANGED <<ring, wr, wrlap, rd, rdlap, convert, producer>>,
         cpc' \in {"idle", "acquire", "copy", "commit"},
         wanted' \in Nat, avail' \in 0..Size, got' \in 0..Size, output' \in Seq(AnyFrame),
         Playing',
         cpc' \in {"copy", "commit"} => avail' <= Used /\ rd + avail' <= Size,
         \A k \in 1..got' : output'[(Len(output') - got') + k] = ring[(rd + k) - 1]
  PROVE  RingInv'
<1>1. RingTypeOK'
  BY DEF RingInv, RingTypeOK, producer
<1>2. NoTornFrame'
  BY DEF RingInv, NoTornFrame, Used, producer
<1>3. Pushing'
  BY DEF RingInv, Pushing, producer
<1>4. Copied'
  BY DEF RingInv, Copied, producer
<1> QED BY <1>1, <1>2, <1>3, <1>4 DEF RingInv

LEMMA CallbackKeeps == ASSUME RingInv, NEW n \in Requests, Callback(n) PROVE RingInv'
<1>1. output' = <<>> /\ output' \in Seq(AnyFrame) /\ Len(output') = 0
  BY EmptySeq DEF Callback
<1>2. /\ cpc' = "acquire" /\ wanted' = n /\ n \in Nat \ {0} /\ avail' = avail /\ got' = 0
      /\ UNCHANGED <<ring, wr, wrlap, rd, rdlap, convert, producer>>
  BY DEF Callback, RingInv, Playing
<1>3. Playing'
  BY <1>1, <1>2 DEF Playing
<1>4. avail' \in 0..Size
  BY <1>2 DEF RingInv, RingTypeOK
<1> QED BY <1>1, <1>2, <1>3, <1>4, ConsumerFrame

\* A request that is topped up with silence is complete.
LEMMA ToppedUp ==
  ASSUME RingTypeOK, Len(output) <= wanted
  PROVE  LET all == output \o [i \in 1..(wanted - Len(output)) |-> Silence]
         IN  all \in Seq(AnyFrame) /\ Len(all) = wanted
<1> DEFINE rest == [i \in 1..(wanted - Len(output)) |-> Silence]
<1>1. Len(output) \in Nat /\ wanted \in Nat /\ output \in Seq(AnyFrame)
  BY LenProperties DEF RingTypeOK
<1>2. wanted - Len(output) \in Nat /\ Silence \in AnyFrame
  BY <1>1 DEF AnyFrame
<1>3. rest \in Seq(AnyFrame) /\ Len(rest) = wanted - Len(output)
  BY <1>2
<1> HIDE DEF rest
<1>4. output \o rest \in Seq(AnyFrame) /\ Len(output \o rest) = wanted
  BY <1>1, <1>3, ConcatProperties
<1> QED BY <1>4 DEF rest

LEMMA AcquireReadKeeps == ASSUME RingInv, AcquireRead PROVE RingInv'
<1>1. /\ Readable \in 0..Size /\ rd + Readable <= Size /\ Readable <= Used
      /\ Used \in 0..Size /\ rd \in 0..(Size - 1)
  BY Grants DEF RingInv, NoTornFrame, RingTypeOK
<1>2. Len(output) \in Nat /\ wanted \in Nat /\ Len(output) < wanted
  BY LenProperties DEF RingInv, RingTypeOK, Playing, AcquireRead
<1>3. /\ avail' \in 0..Size /\ rd + avail' <= Size /\ avail' <= Used
      /\ avail' <= wanted - Len(output) /\ got' = 0 /\ wanted' = wanted
      /\ UNCHANGED <<ring, wr, wrlap, rd, rdlap, convert, producer>>
  BY <1>1, <1>2 DEF AcquireRead, AtMost
<1>4. \/ cpc' = "idle" /\ Len(output') = wanted /\ output' \in Seq(AnyFrame)
      \/ avail' > 0 /\ cpc' = "copy" /\ output' = output
  <2>1. CASE avail' = 0
    <3>1. /\ cpc' = "idle"
          /\ output' = output \o [i \in 1..(wanted - Len(output)) |-> Silence]
      BY <2>1 DEF AcquireRead
    <3>2. output' \in Seq(AnyFrame) /\ Len(output') = wanted
      BY <1>2, <3>1, ToppedUp DEF RingInv
    <3> QED BY <3>1, <3>2
  <2>2. CASE avail' # 0
    BY <1>3, <2>2 DEF AcquireRead
  <2> QED BY <2>1, <2>2
<1>5. Playing'
  BY <1>2, <1>3, <1>4 DEF Playing
<1>6. output' \in Seq(AnyFrame) /\ cpc' \in {"idle", "copy"}
  BY <1>4 DEF RingInv, RingTypeOK
<1> QED BY <1>2, <1>3, <1>5, <1>6, ConsumerFrame

LEMMA CopyOutKeeps == ASSUME RingInv, CopyOut PROVE RingInv'
<1>1. /\ output \in Seq(AnyFrame) /\ Len(output) \in Nat
      /\ got \in 0..(avail - 1) /\ avail \in 0..Size /\ rd \in 0..(Size - 1)
      /\ avail <= Used /\ rd + avail <= Size /\ got <= Len(output) /\ wanted \in Nat
      /\ (Len(output) - got) + avail <= wanted
  BY LenProperties DEF CopyOut, RingInv, RingTypeOK, Playing, NoTornFrame
<1>2. ring[rd + got] \in AnyFrame
  BY <1>1 DEF RingInv, RingTypeOK
<1>3. /\ output' = Append(output, ring[rd + got]) /\ got' = got + 1 /\ cpc = "copy"
      /\ cpc' = IF got + 1 = avail THEN "commit" ELSE "copy"
      /\ wanted' = wanted /\ avail' = avail
      /\ UNCHANGED <<ring, wr, wrlap, rd, rdlap, convert, producer>>
  BY DEF CopyOut
<1>4. /\ output' \in Seq(AnyFrame) /\ Len(output') = Len(output) + 1
      /\ \A i \in 1..Len(output) : output'[i] = output[i]
      /\ output'[Len(output) + 1] = ring[rd + got]
  BY <1>1, <1>2, <1>3, AppendProperties
<1>5. Playing'
  BY <1>1, <1>3, <1>4 DEF Playing
<1>6. \A k \in 1..got' : output'[(Len(output') - got') + k] = ring[(rd + k) - 1]
  <2> SUFFICES ASSUME NEW k \in 1..(got + 1)
               PROVE  output'[(Len(output) - got) + k] = ring[(rd + k) - 1]
    <3>1. Len(output') - got' = Len(output) - got
      BY <1>1, <1>3, <1>4
    <3> QED BY <1>3, <3>1
  <2>1. CASE k = got + 1
    BY <1>1, <1>4, <2>1
  <2>2. CASE k \in 1..got
    <3>1. (Len(output) - got) + k \in 1..Len(output)
      BY <1>1, <2>2
    <3> QED BY <1>4, <2>2, <3>1 DEF RingInv, Copied
  <2> QED BY <1>1, <2>1, <2>2
<1>7. got' \in 0..Size /\ cpc' \in {"copy", "commit"} /\ avail' \in 0..Size
  BY <1>1, <1>3
<1> QED BY <1>1, <1>3, <1>4, <1>5, <1>6, <1>7, ConsumerFrame

LEMMA CommitReadKeeps == ASSUME RingInv, CommitRead PROVE RingInv'
<1>1. /\ avail \in 1..Size /\ avail <= Used /\ rd + avail <= Size /\ Used \in 0..Size
      /\ Len(output) \in Nat /\ Len(output) <= wanted /\ wanted \in Nat
  BY LenProperties DEF CommitRead, RingInv, RingTypeOK, Playing, NoTornFrame
<1>2. rd' \in 0..(Size - 1) /\ rdlap' \in BOOLEAN /\ Used' = Used - avail
  BY <1>1, MovedRead DEF CommitRead, RingInv
<1>3. /\ cpc' = (IF Len(output) = wanted THEN "idle" ELSE "acquire")
      /\ avail' = 0 /\ got' = 0 /\ wanted' = wanted /\ output' = output
      /\ UNCHANGED <<ring, wr, wrlap, convert, producer>>
  BY DEF CommitRead
<1>4. RingTypeOK'
  BY <1>2, <1>3 DEF RingInv, RingTypeOK, producer
<1>5. NoTornFrame'
  BY <1>1, <1>2, <1>3 DEF RingInv, RingTypeOK, NoTornFrame, producer
<1>6. Pushing'
  BY <1>3 DEF RingInv, Pushing, producer
<1>7. Playing'
  BY <1>1, <1>3 DEF Playing
<1>8. Copied'
  BY <1>3 DEF RingInv, Copied, producer
<1> QED BY <1>4, <1>5, <1>6, <1>7, <1>8 DEF RingInv

-----------------------------------------------------------------------------

\* Every step of either thread keeps the invariant.
LEMMA RingStepInv == RingInv /\ [RingNext]_ringVars => RingInv'
<1> SUFFICES ASSUME RingInv, [RingNext]_ringVars PROVE RingInv'
  OBVIOUS
<1>1. CASE \E n \in Batches : Push(n)
  BY <1>1, PushKeeps
<1>2. CASE Producer
  BY <1>2, ConvertKeeps, AcquireWriteKeeps, CopyInKeeps, CommitWriteKeeps DEF Producer
<1>3. CASE \E n \in Requests : Callback(n)
  BY <1>3, CallbackKeeps
<1>4. CASE Consumer
  BY <1>4, AcquireReadKeeps, CopyOutKeeps, CommitReadKeeps DEF Consumer
<1>5. CASE UNCHANGED ringVars
  BY <1>5 DEF ringVars, producer, consumer, RingInv, RingTypeOK, NoTornFrame, Used, Pushing,
              Playing, Copied
<1> QED BY <1>1, <1>2, <1>3, <1>4, <1>5 DEF RingNext

\* The types of both threads' variables: offsets stay in the buffer and what is
\* left to do is never negative.
THEOREM RingTypeCorrect == RingSpec => []RingTypeOK
<1>1. RingInv => RingTypeOK
  BY DEF RingInv
<1> QED BY <1>1, RingInitInv, RingStepInv, PTL DEF RingSpec

\* fgb_audio_push_samples and fgb_audio_callback never touch the same frame at
\* the same time.
THEOREM NoFrameTorn == RingSpec => []NoTornFrame
<1>1. RingInv => NoTornFrame
  BY DEF RingInv
<1> QED BY <1>1, RingInitInv, RingStepInv, PTL DEF RingSpec

-----------------------------------------------------------------------------
(* The ring implements the queue *)

\* The two mapped sequences, frame by frame.
LEMMA UnreadFrames ==
  ASSUME RingTypeOK, Used \in 0..Size
  PROVE  /\ Unread \in Seq(AnyFrame) /\ Len(Unread) = Used
         /\ \A i \in 1..Used : Unread[i] = ring[Place(i)] /\ Place(i) \in 0..(Size - 1)
<1>1. \A i \in 1..Used : Place(i) \in 0..(Size - 1)
  BY DEF RingTypeOK, Used, Place
<1>2. \A i \in 1..Used : ring[Place(i)] \in AnyFrame
  BY <1>1 DEF RingTypeOK
<1> QED BY <1>1, <1>2 DEF Unread

LEMMA DeliveredFrames ==
  ASSUME RingTypeOK, got <= Len(output)
  PROVE  /\ Delivered \in Seq(AnyFrame) /\ Len(Delivered) = Len(output) - got
         /\ \A i \in 1..(Len(output) - got) : Delivered[i] = output[i]
<1>1. output \in Seq(AnyFrame) /\ Len(output) \in Nat /\ got \in Nat
  BY LenProperties DEF RingTypeOK
<1>2. \A i \in 1..(Len(output) - got) : output[i] \in AnyFrame
  BY <1>1, ElementOfSeq
<1>3. Len(output) - got \in Nat
  BY <1>1
<1> QED BY <1>2, <1>3, SubSeqProperties DEF Delivered

\* The facts about the sequences of a state that the invariant gives.
LEMMA Frames ==
  ASSUME RingInv
  PROVE  /\ Used \in 0..Size /\ Len(output) \in Nat /\ got <= Len(output)
         /\ Len(output) <= wanted /\ wanted \in Nat /\ output \in Seq(AnyFrame)
         /\ Unread \in Seq(AnyFrame) /\ Len(Unread) = Used
         /\ \A i \in 1..Used : Unread[i] = ring[Place(i)] /\ Place(i) \in 0..(Size - 1)
         /\ Delivered \in Seq(AnyFrame) /\ Len(Delivered) = Len(output) - got
         /\ \A i \in 1..(Len(output) - got) : Delivered[i] = output[i]
<1>1. Used \in 0..Size /\ RingTypeOK
  BY DEF RingInv, NoTornFrame
<1>2. output \in Seq(AnyFrame) /\ Len(output) \in Nat /\ wanted \in Nat
  BY <1>1, LenProperties DEF RingTypeOK
<1>3. got <= Len(output) /\ Len(output) <= wanted
  BY <1>2 DEF RingInv, RingTypeOK, Playing
<1> QED BY <1>1, <1>2, <1>3, UnreadFrames, DeliveredFrames

\* With nothing copied since the last commit, all of the output is delivered.
LEMMA AllDelivered == ASSUME RingTypeOK, got = 0 PROVE Delivered = output
<1>1. output \in Seq(AnyFrame)
  BY DEF RingTypeOK
<1>2. Len(output) - 0 = Len(output)
  BY <1>1, LenProperties
<1> QED BY <1>1, <1>2, SubSeqFull DEF Delivered

LEMMA PushMaps ==
  ASSUME RingInv, NEW n \in Batches, Push(n)
  PROVE  Queue!Offer \/ UNCHANGED Queue!queueVars
<1>1. /\ chunk = 0 /\ chunk' \in {0, n} /\ wanted' = wanted
      /\ Unread' = Unread /\ Delivered' = Delivered
  BY DEF Push, RingInv, Pushing, consumer, Unread, Delivered, Used, Place
<1> QED BY <1>1 DEF Queue!Offer, Queue!queueVars

LEMMA ConvertMaps ==
  ASSUME RingInv, ConvertSome \/ ConvertEnd
  PROVE  Queue!Offer \/ UNCHANGED Queue!queueVars
<1>1. chunk = 0 /\ chunk' \in 0..ChunkMax
  BY DEF ConvertSome, ConvertEnd, RingInv, Pushing
<1>2. UNCHANGED <<ring, wr, wrlap, rd, rdlap, consumer>>
  BY DEF ConvertSome, ConvertEnd
<1>3. wanted' = wanted /\ Unread' = Unread /\ Delivered' = Delivered
  BY <1>2 DEF consumer, Unread, Delivered, Used, Place
<1> QED BY <1>1, <1>3 DEF Queue!Offer, Queue!queueVars

LEMMA AcquireWriteMaps ==
  ASSUME RingInv, AcquireWrite
  PROVE  Queue!Drop \/ UNCHANGED Queue!queueVars
<1>1. /\ chunk \in Nat \ {0} /\ chunk' \in {0, chunk} /\ wanted' = wanted
      /\ Unread' = Unread /\ Delivered' = Delivered
  BY DEF AcquireWrite, RingInv, RingTypeOK, Pushing, consumer, Unread, Delivered, Used, Place
<1>2. chunk' # chunk => Len(Unread) = Size
  <2>1. chunk' # chunk => room' = 0
    BY DEF AcquireWrite
  <2>2. room' = 0 => Used = Size
    BY <1>1 DEF AcquireWrite, AtMost, Writable, RingInv, RingTypeOK, NoTornFrame, Used
  <2> QED BY <2>1, <2>2, Frames
<1> QED BY <1>1, <1>2 DEF Queue!Drop, Queue!queueVars

\* A frame is written beside the ones that are not read yet.
LEMMA CopyInMaps == ASSUME RingInv, CopyIn PROVE UNCHANGED Queue!queueVars
<1>1. /\ Used \in 0..Size /\ room \in 0..Size /\ put \in 0..(room - 1)
      /\ wr + room <= Size /\ Used + room <= Size /\ RingTypeOK
  BY DEF CopyIn, RingInv, NoTornFrame, Pushing, RingTypeOK
<1>2. PICK f \in Frame : ring' = [ring EXCEPT ![wr + put] = f]
  BY DEF CopyIn
<1>3. Used' = Used /\ \A i \in 1..Used : Place(i)' = Place(i)
  BY DEF CopyIn, Used, Place
<1>4. \A i \in 1..Used : ring'[Place(i)] = ring[Place(i)]
  <2> TAKE i \in 1..Used
  <2>1. Place(i) \in 0..(Size - 1) /\ \A j \in 0..(room - 1) : Place(i) # wr + j
    BY <1>1, Apart
  <2>2. Place(i) # wr + put
    BY <1>1, <2>1
  <2> QED BY <1>1, <1>2, <2>1, <2>2 DEF RingTypeOK
<1>5. Unread' = Unread
  BY <1>3, <1>4 DEF Unread
<1> QED BY <1>5 DEF CopyIn, consumer, Delivered, Queue!queueVars

\* A commit appends the frames that were copied.
LEMMA CommitWriteMaps == ASSUME RingInv, CommitWrite PROVE Queue!Put
<1> DEFINE frames == [i \in 1..room |-> ring[(wr + i) - 1]]
<1>1. /\ room \in 1..Size /\ room <= chunk /\ wr + room <= Size /\ Used + room <= Size
      /\ Used \in 0..Size /\ chunk \in Nat /\ put = room /\ wr \in 0..(Size - 1)
      /\ rd \in 0..(Size - 1)
  BY DEF CommitWrite, RingInv, Pushing, NoTornFrame, RingTypeOK
<1>2. Used' = Used + room
  BY <1>1, MovedWrite DEF CommitWrite, RingInv
<1>3. \A i \in 1..room : ring[(wr + i) - 1] \in Frame
  <2> TAKE i \in 1..room
  <2>1. i - 1 \in 0..(put - 1) /\ wr + (i - 1) = (wr + i) - 1
    BY <1>1
  <2> QED BY <2>1 DEF RingInv, Copied
<1>4. frames \in [1..room -> Frame]
  BY <1>3
<1>5. frames \in Seq(AnyFrame) /\ Len(frames) = room
  <2>1. \A i \in 1..room : ring[(wr + i) - 1] \in AnyFrame
    BY <1>3 DEF AnyFrame
  <2> QED BY <1>1, <2>1
<1>6. Unread' \in Seq(AnyFrame) /\ Len(Unread') = Used + room
      /\ \A i \in 1..(Used + room) : Unread'[i] = ring[Place(i)]
  <2>1. ring' = ring /\ \A i \in 1..(Used + room) : Place(i)' = Place(i)
    BY DEF CommitWrite, Place
  <2>2. Unread' = [i \in 1..(Used + room) |-> ring[Place(i)]]
    BY <1>2, <2>1 DEF Unread
  <2>3. \A i \in 1..(Used + room) : ring[Place(i)] \in AnyFrame
    <3> TAKE i \in 1..(Used + room)
    <3>1. Place(i) \in 0..(Size - 1)
      BY <1>1 DEF Place
    <3> QED BY <3>1 DEF RingInv, RingTypeOK
  <2>4. Used + room \in Nat
    BY <1>1
  <2> QED BY <2>2, <2>3, <2>4
<1>7. /\ Unread \in Seq(AnyFrame) /\ Len(Unread) = Used
      /\ \A i \in 1..Used : Unread[i] = ring[Place(i)]
  BY Frames
<1>8. \A i \in (Used + 1)..(Used + room) : Place(i) = (wr + (i - Used)) - 1
  BY <1>1 DEF Place, Used, RingInv, RingTypeOK
<1> HIDE DEF frames
<1>9. /\ Unread \o frames \in Seq(AnyFrame) /\ Len(Unread \o frames) = Used + room
      /\ \A i \in 1..(Used + room) :
           (Unread \o frames)[i] = IF i <= Used THEN Unread[i] ELSE frames[i - Used]
  BY <1>5, <1>7, ConcatProperties
<1>10. \A i \in 1..(Used + room) : (Unread \o frames)[i] = Unread'[i]
  <2> TAKE i \in 1..(Used + room)
  <2>1. CASE i <= Used
    <3>1. i \in 1..Used
      BY <1>1, <2>1
    <3>2. (Unread \o frames)[i] = ring[Place(i)]
      BY <1>7, <1>9, <2>1, <3>1, Zenon
    <3>3. Unread'[i] = ring[Place(i)]
      BY <1>1, <1>6, <2>1
    <3> QED
      BY <3>2, <3>3
  <2>2. CASE i > Used
    <3>1. i \in (Used + 1)..(Used + room) /\ i - Used \in 1..room
      BY <1>1, <2>2
    <3>2. frames[i - Used] = ring[(wr + (i - Used)) - 1]
      BY <3>1 DEF frames
    <3> QED BY <1>1, <1>6, <1>8, <1>9, <2>2, <3>1, <3>2
  <2>3. i <= Used \/ i > Used
    BY <1>1
  <2> QED BY <2>1, <2>2, <2>3, Zenon
<1>11. Unread' = Unread \o frames
  BY <1>6, <1>9, <1>10, SeqEqual
<1>12. room \in 1..chunk /\ Len(Unread) + room <= Size /\ chunk' = chunk - room
  BY <1>1, <1>7 DEF CommitWrite
<1>13. wanted' = wanted /\ Delivered' = Delivered
  BY DEF CommitWrite, consumer, Delivered
<1> QED BY <1>4, <1>11, <1>12, <1>13 DEF Queue!Put

LEMMA CallbackMaps == ASSUME RingInv, NEW n \in Requests, Callback(n) PROVE Queue!Ask
<1>1. got = 0 /\ Len(output) = wanted /\ RingTypeOK
  BY DEF Callback, RingInv, Playing
<1>2. Delivered = output
  BY <1>1, AllDelivered
<1>3. output' = <<>> /\ got' = 0 /\ wanted' = n
  BY <1>1 DEF Callback
<1>4. Delivered' = <<>>
  BY <1>3, SubSeqEmpty DEF Delivered
<1>5. Unread' = Unread /\ chunk' = chunk
  BY DEF Callback, producer, Unread, Used, Place
<1> QED BY <1>1, <1>2, <1>3, <1>4, <1>5 DEF Queue!Ask

\* Silence is played only when nothing is left to read.
LEMMA AcquireReadMaps ==
  ASSUME RingInv, AcquireRead
  PROVE  Queue!Underrun \/ UNCHANGED Queue!queueVars
<1>1. got = 0 /\ RingTypeOK /\ Len(output) < wanted /\ Len(output) \in Nat /\ wanted \in Nat
  BY LenProperties DEF AcquireRead, RingInv, Playing, RingTypeOK
<1>2. got' = 0 /\ wanted' = wanted /\ chunk' = chunk /\ Unread' = Unread
  BY DEF AcquireRead, producer, Unread, Used, Place
<1>3. Delivered = output
  BY <1>1, AllDelivered
<1>4. RingTypeOK'
  BY AcquireReadKeeps DEF RingInv
<1>5. Delivered' = output'
  <2>1. output' \in Seq(AnyFrame)
    BY <1>4 DEF RingTypeOK
  <2>2. Len(output') - got' = Len(output')
    BY <1>2, <2>1, LenProperties
  <2> QED BY <2>1, <2>2, SubSeqFull DEF Delivered
<1>6. CASE avail' = 0
  <2>1. Used = 0
    BY <1>1, <1>6 DEF AcquireRead, AtMost, Readable, Used, RingInv, RingTypeOK, NoTornFrame
  <2>2. Unread = <<>>
    BY <2>1 DEF Unread
  <2>3. output' = output \o [i \in 1..(wanted - Len(output)) |-> Silence]
    BY <1>6 DEF AcquireRead
  <2> QED BY <1>1, <1>2, <1>3, <1>5, <2>2, <2>3 DEF Queue!Underrun
<1>7. CASE avail' # 0
  <2>1. output' = output
    BY <1>7 DEF AcquireRead
  <2> QED BY <1>2, <1>3, <1>5, <2>1 DEF Queue!queueVars
<1> QED BY <1>6, <1>7

\* A frame that is copied is delivered by the commit only.
LEMMA CopyOutMaps == ASSUME RingInv, CopyOut PROVE UNCHANGED Queue!queueVars
<1>1. /\ output \in Seq(AnyFrame) /\ Len(output) \in Nat /\ got \in Nat /\ got <= Len(output)
      /\ rd + got \in 0..(Size - 1)
  BY LenProperties DEF CopyOut, RingInv, RingTypeOK, Playing, NoTornFrame
<1>2. ring[rd + got] \in AnyFrame
  BY <1>1 DEF RingInv, RingTypeOK
<1>3. output' = Append(output, ring[rd + got]) /\ got' = got + 1
  BY DEF CopyOut
<1>4. /\ output' \in Seq(AnyFrame) /\ Len(output') = Len(output) + 1
      /\ \A i \in 1..Len(output) : output'[i] = output[i]
  BY <1>1, <1>2, <1>3, AppendProperties
<1>5. Len(output') - got' = Len(output) - got /\ Len(output) - got \in Nat
  BY <1>1, <1>3, <1>4
<1>6. Delivered' = SubSeq(output', 1, Len(output) - got)
  BY <1>5 DEF Delivered
<1>7. \A i \in 1..(Len(output) - got) : output'[i] = output[i] /\ output[i] \in AnyFrame
  <2> TAKE i \in 1..(Len(output) - got)
  <2>1. i \in 1..Len(output)
    BY <1>1
  <2> QED BY <1>1, <1>4, <2>1, ElementOfSeq
<1>8. /\ Delivered' \in Seq(AnyFrame) /\ Len(Delivered') = Len(output) - got
      /\ \A i \in 1..(Len(output) - got) : Delivered'[i] = output'[i]
  <2> DEFINE n == Len(output) - got
  <2>1. n \in Nat /\ \A i \in 1..n : output'[i] \in AnyFrame
    BY <1>5, <1>7
  <2>2. Delivered' = SubSeq(output', 1, n)
    BY <1>6
  <2> HIDE DEF n
  <2>3. /\ Delivered' \in Seq(AnyFrame)
        /\ Len(Delivered') = IF 1 <= n THEN n - 1 + 1 ELSE 0
        /\ \A i \in 1..(n - 1 + 1) : Delivered'[i] = output'[1 + i - 1]
    BY <2>1, <2>2, SubSeqProperties
  <2>4. /\ Delivered' \in Seq(AnyFrame) /\ Len(Delivered') = n
        /\ \A i \in 1..n : Delivered'[i] = output'[i]
    BY <2>1, <2>3
  <2> QED BY <2>4 DEF n
<1>9. /\ Delivered \in Seq(AnyFrame) /\ Len(Delivered) = Len(output) - got
      /\ \A i \in 1..(Len(output) - got) : Delivered[i] = output[i]
  BY Frames
<1>10. Delivered' = Delivered
  BY <1>7, <1>8, <1>9, SeqEqual
<1>11. Unread' = Unread /\ chunk' = chunk /\ wanted' = wanted
  BY DEF CopyOut, producer, Unread, Used, Place
<1> QED BY <1>10, <1>11 DEF Queue!queueVars

\* A commit delivers the frames that were copied, the oldest ones.
LEMMA CommitReadMaps == ASSUME RingInv, CommitRead PROVE Queue!Take
<1>1. /\ avail \in 1..Size /\ avail <= Used /\ rd + avail <= Size /\ Used \in 0..Size
      /\ got = avail /\ rd \in 0..(Size - 1) /\ RingTypeOK /\ got <= Len(output)
      /\ Len(output) \in Nat /\ Len(output) <= wanted /\ wanted \in Nat
      /\ output \in Seq(AnyFrame)
  BY LenProperties DEF CommitRead, RingInv, RingTypeOK, Playing, NoTornFrame
<1>2. Used' = Used - avail
  BY <1>1, MovedRead DEF CommitRead, RingInv
<1>3. /\ Unread \in Seq(AnyFrame) /\ Len(Unread) = Used
      /\ \A i \in 1..Used : Unread[i] = ring[Place(i)]
      /\ Delivered \in Seq(AnyFrame) /\ Len(Delivered) = Len(output) - avail
      /\ \A i \in 1..(Len(output) - avail) : Delivered[i] = output[i]
  BY <1>1, Frames
<1>4. \A i \in 1..Used : Unread[i] \in AnyFrame
  BY <1>3, ElementOfSeq
<1>5. Unread' = SubSeq(Unread, avail + 1, Used)
  <2>1. \A i \in 1..(Used - avail) : Place(i)' = Place(avail + i)
    BY <1>1 DEF CommitRead, Place, Moved
  <2>2. Unread' = [i \in 1..(Used - avail) |-> ring[Place(avail + i)]]
    BY <1>2, <2>1 DEF CommitRead, Unread
  <2>3. \A i \in 1..(Used - avail) : avail + i \in 1..Used
    BY <1>1
  <2>4. \A i \in 1..(Used - avail) : Unread'[i] = Unread[avail + i] /\ Unread'[i] \in AnyFrame
    BY <1>3, <1>4, <2>2, <2>3
  <2>5. Used - avail \in Nat
    BY <1>1
  <2>6. Unread' \in Seq(AnyFrame) /\ Len(Unread') = Used - avail
    BY <2>2, <2>4, <2>5
  <2>7. \A i \in (avail + 1)..Used : Unread[i] \in AnyFrame
    BY <1>1, <1>4
  <2>8. /\ SubSeq(Unread, avail + 1, Used) \in Seq(AnyFrame)
        /\ Len(SubSeq(Unread, avail + 1, Used)) =
             IF avail + 1 <= Used THEN Used - (avail + 1) + 1 ELSE 0
        /\ \A i \in 1..(Used - (avail + 1) + 1) :
             SubSeq(Unread, avail + 1, Used)[i] = Unread[(avail + 1) + i - 1]
    BY <1>1, <2>7, SubSeqProperties
  <2>9. /\ Len(SubSeq(Unread, avail + 1, Used)) = Used - avail
        /\ \A i \in 1..(Used - avail) : SubSeq(Unread, avail + 1, Used)[i] = Unread[avail + i]
    BY <1>1, <2>8
  <2> QED BY <2>4, <2>6, <2>8, <2>9, SeqEqual
<1>6. Delivered' = output
  <2>1. Len(output') - got' = Len(output) /\ output' = output
    BY <1>1 DEF CommitRead
  <2> QED BY <1>1, <2>1, SubSeqFull DEF Delivered
<1>7. output = Delivered \o SubSeq(Unread, 1, avail)
  <2> DEFINE taken == SubSeq(Unread, 1, avail)
  <2>1. \A i \in 1..avail : Unread[i] \in AnyFrame
    BY <1>1, <1>4
  <2>2. taken \in Seq(AnyFrame) /\ Len(taken) = avail
        /\ \A i \in 1..avail : taken[i] = Unread[i]
    BY <1>1, <2>1, SubSeqProperties
  <2> HIDE DEF taken
  <2>3. /\ Delivered \o taken \in Seq(AnyFrame) /\ Len(Delivered \o taken) = Len(output)
        /\ \A i \in 1..Len(output) :
             (Delivered \o taken)[i] =
               IF i <= Len(output) - avail THEN Delivered[i]
                                           ELSE taken[i - (Len(output) - avail)]
    <3>1. /\ Delivered \o taken \in Seq(AnyFrame)
          /\ Len(Delivered \o taken) = Len(Delivered) + Len(taken)
          /\ \A i \in 1..(Len(Delivered) + Len(taken)) :
               (Delivered \o taken)[i] =
                 IF i <= Len(Delivered) THEN Delivered[i] ELSE taken[i - Len(Delivered)]
      BY <1>3, <2>2, ConcatProperties
    <3>2. Len(Delivered) = Len(output) - avail /\ Len(Delivered) + Len(taken) = Len(output)
      BY <1>1, <1>3, <2>2
    <3> QED BY <3>1, <3>2
  <2>4. \A i \in 1..avail : taken[i] = output[(Len(output) - avail) + i]
    <3> TAKE i \in 1..avail
    <3>1. Place(i) = (rd + i) - 1 /\ i \in 1..Used /\ i \in 1..got
      BY <1>1 DEF Place
    <3>2. output[(Len(output) - got) + i] = ring[(rd + i) - 1]
      BY <3>1 DEF RingInv, Copied
    <3> QED BY <1>1, <1>3, <2>2, <3>1, <3>2
  <2>5. \A i \in 1..Len(output) : (Delivered \o taken)[i] = output[i]
    <3> TAKE i \in 1..Len(output)
    <3>1. CASE i <= Len(output) - avail
      BY <1>1, <1>3, <2>3, <3>1
    <3>2. CASE ~(i <= Len(output) - avail)
      <4>1. i - (Len(output) - avail) \in 1..avail
            /\ (Len(output) - avail) + (i - (Len(output) - avail)) = i
        BY <1>1, <3>2
      <4>2. taken[i - (Len(output) - avail)] = output[i]
        BY <2>4, <4>1
      <4> QED BY <2>3, <3>2, <4>2
    <3> QED BY <3>1, <3>2
  <2>6. output = Delivered \o taken
    BY <1>1, <2>3, <2>5, SeqEqual
  <2> QED BY <2>6 DEF taken
<1>8. /\ avail \in 1..(wanted - Len(Delivered)) /\ avail <= Len(Unread)
      /\ chunk' = chunk /\ wanted' = wanted
  BY <1>1, <1>3 DEF CommitRead, producer
<1> QED BY <1>3, <1>5, <1>6, <1>7, <1>8 DEF Queue!Take

\* The ring of fgb_audio_push_samples and fgb_audio_callback behaves like a
\* bounded queue: frames arrive once and in order, are dropped only when it is
\* full, and silence is played only when it is empty.
THEOREM RingIsAQueue == RingSpec => Queue!QueueSafe
<1>1. RingInit => Queue!QueueInit
  <2> SUFFICES ASSUME RingInit PROVE Queue!QueueInit
    OBVIOUS
  <2>1. Used = 0 /\ chunk = 0 /\ wanted = 0 /\ got = 0 /\ output = <<>>
    BY DEF RingInit, Used
  <2>2. Unread = <<>>
    BY <2>1 DEF Unread
  <2>3. Delivered = <<>>
    BY <2>1, SubSeqEmpty DEF Delivered
  <2> QED BY <2>1, <2>2, <2>3 DEF Queue!QueueInit
<1>2. RingInv /\ [RingNext]_ringVars => [Queue!QueueNext]_Queue!queueVars
  <2> SUFFICES ASSUME RingInv, [RingNext]_ringVars
               PROVE  Queue!QueueNext \/ UNCHANGED Queue!queueVars
    OBVIOUS
  <2>1. CASE \E n \in Batches : Push(n)
    BY <2>1, PushMaps DEF Queue!QueueNext
  <2>2. CASE Producer
    BY <2>2, ConvertMaps, AcquireWriteMaps, CopyInMaps, CommitWriteMaps
       DEF Producer, Queue!QueueNext
  <2>3. CASE \E n \in Requests : Callback(n)
    BY <2>3, CallbackMaps DEF Queue!QueueNext
  <2>4. CASE Consumer
    BY <2>4, AcquireReadMaps, CopyOutMaps, CommitReadMaps DEF Consumer, Queue!QueueNext
  <2>5. CASE UNCHANGED ringVars
    BY <2>5 DEF ringVars, producer, consumer, Unread, Delivered, Used, Place, Queue!queueVars
  <2> QED BY <2>1, <2>2, <2>3, <2>4, <2>5 DEF RingNext
<1> QED BY <1>1, <1>2, RingInitInv, RingStepInv, PTL DEF RingSpec, Queue!QueueSafe

-----------------------------------------------------------------------------
(* The sample clock. *)

\* A step of the sample clock is a call of fgb_audio_push_samples or none.
LEMMA PathStep == sample_chunk \in Batches /\ [PathNext]_pathVars => [RingNext]_ringVars
<1> SUFFICES ASSUME sample_chunk \in Batches, [PathNext]_pathVars PROVE [RingNext]_ringVars
  OBVIOUS
<1>1. CASE SampleTick
  BY <1>1 DEF SampleTick, RingNext
<1>2. CASE SwitchClock \/ DropRom
  BY <1>2 DEF SwitchClock, DropRom
<1>3. CASE PathProducer \/ PathConsumer \/ \E n \in Requests : Callback(n)
  BY <1>3 DEF PathProducer, PathConsumer, RingNext
<1>4. CASE UNCHANGED pathVars
  BY <1>4 DEF pathVars
<1> QED
  BY <1>1, <1>2, <1>3, <1>4 DEF PathNext

\* Products stay folded: the steps below need two facts about them.
Times(a, b) == a * b

LEMMA TimesFacts ==
  ASSUME NEW a \in Int, NEW b \in Int
  PROVE  /\ Times(a, b) \in Int
         /\ Times(a, b) = a * b
         /\ Times(a + 1, b) = Times(a, b) + b
         /\ Times(0, b) = 0
         /\ Times(a, b) = Times(b, a)
BY SMT DEF Times

LEMMA TimesTakes ==
  ASSUME NEW a \in Int, NEW b \in Int, NEW c \in Int
  PROVE  Times(a - c, b) = Times(a, b) - Times(c, b)
BY SMT DEF Times

LEMMA TimesQuotient ==
  ASSUME NEW c \in Nat \ {0}, NEW f \in Int, NEW a \in 0..(c - 1), a + f * c \in Nat
  PROVE  (a + f * c) \div c = f
<1> DEFINE x == a + f * c
           d == x \div c
<1>1. x \in Nat
  OBVIOUS
<1>2. x = c * d + (x % c) /\ d \in Int /\ x % c \in 0..(c - 1)
  <2> HIDE DEF x
  <2> QED
    BY <1>1, SMT
<1>3. x = Times(f, c) + a /\ Times(f, c) \in Int
  BY SMT DEF Times
<1>4. c * d = Times(d, c) /\ Times(d, c) \in Int
  <2> HIDE DEF d
  <2> QED
    BY <1>2, SMT DEF Times
<1> DEFINE r == x % c
<1>5. Times(f, c) + a = Times(d, c) + r /\ r \in 0..(c - 1)
  BY <1>2, <1>3, <1>4
<1> HIDE DEF d, r, x
<1>6. Times(f, c) - Times(d, c) = Times(f - d, c)
  BY <1>2, SMT DEF Times
<1>7. CASE f - d >= 1
  <2>1. Times(f - d, c) >= c
    BY <1>2, <1>7, SMT DEF Times
  <2> QED
    BY <1>3, <1>4, <1>5, <1>6, <2>1
<1>8. CASE f - d <= -1
  <2>1. Times(f - d, c) <= -c
    BY <1>2, <1>8, SMT DEF Times
  <2> QED
    BY <1>3, <1>4, <1>5, <1>6, <2>1
<1>9. CASE f = d
  BY <1>9 DEF d, x
<1> QED
  BY <1>2, <1>7, <1>8, <1>9

\* The numbers of the clock, and what they say of each other: the accumulator
\* holds what the frames of so far leave of the time that has passed.
PathInv ==
  /\ accumulator \in 0..(Clock - 1)
  /\ sample_chunk \in Batches
  /\ sample_count \in 0..(sample_chunk - 1)
  /\ second \in 0..(Clock - 1)
  /\ handed \in Int
  /\ accumulator + Times(handed + sample_count, Clock) = Times(second, Rate)

LEMMA PathInitInv == PathInit => PathInv
<1> USE PathAssumption, RingAssumption DEF PathAssumption, RingAssumption
<1> SUFFICES ASSUME PathInit PROVE PathInv
  OBVIOUS
<1>1. sample_chunk \in Nat \ {0}
  BY DEF PathInit
<1> QED
  BY <1>1, TimesFacts DEF PathInit, PathInv

LEMMA TickInv ==
  ASSUME PathInv, SampleTick
  PROVE  PathInv'
<1> USE PathAssumption, RingAssumption DEF PathAssumption, RingAssumption
<1> DEFINE frames == handed + sample_count
           whole == second + 1 = Clock
           due == IF FrameDue THEN 1 ELSE 0
<1>1. /\ accumulator \in 0..(Clock - 1) /\ sample_chunk \in Nat \ {0}
      /\ sample_count \in 0..(sample_chunk - 1) /\ second \in 0..(Clock - 1) /\ handed \in Int
      /\ frames \in Int
  BY DEF PathInv
<1>2. accumulator' = accumulator + Rate - due * Clock /\ accumulator' \in 0..(Clock - 1)
  BY <1>1 DEF SampleTick, Accumulated, FrameDue
<1>3. second' = IF whole THEN 0 ELSE second + 1
  BY DEF SampleTick
<1>4. /\ sample_chunk' = sample_chunk
      /\ sample_count' \in 0..(sample_chunk - 1)
      /\ handed' \in Int
      /\ handed' + sample_count' = (frames + due) - (IF whole THEN Rate ELSE 0)
  BY <1>1 DEF SampleTick, ChunkFull
<1>5. Times(frames + due, Clock) = Times(frames, Clock) + due * Clock
  <2>1. CASE due = 1
    BY <1>1, <2>1, TimesFacts
  <2>2. CASE due = 0
    BY <1>1, <2>2, TimesFacts
  <2> QED
    BY <2>1, <2>2
<1>6. Times(second + 1, Rate) = Times(second, Rate) + Rate
  BY <1>1, TimesFacts
<1>7. accumulator' + Times(frames + due, Clock) = Times(second + 1, Rate)
  <2>1. accumulator + Times(frames, Clock) = Times(second, Rate)
    BY DEF PathInv
  <2>2. Times(frames, Clock) \in Int /\ Times(second, Rate) \in Int
    BY <1>1, TimesFacts
  <2>3. due \in {0, 1} /\ due * Clock \in Int
    BY SMT
  <2> HIDE DEF frames, due
  <2> QED
    BY <1>1, <1>2, <1>5, <1>6, <2>1, <2>2, <2>3
<1> HIDE DEF frames, due
<1>8. accumulator' + Times(handed' + sample_count', Clock) = Times(second', Rate)
  <2>1. CASE ~whole
    <3>1. handed' + sample_count' = frames + due /\ second' = second + 1
      <4>1. due \in Int
        BY DEF due
      <4>2. second' = second + 1
        BY <1>3, <2>1
      <4>3. handed' + sample_count' = (frames + due) - 0
        BY <1>4, <2>1
      <4> QED
        BY <1>1, <4>1, <4>2, <4>3
    <3> QED
      BY <1>1, <1>2, <1>4, <1>7, <3>1
  <2>2. CASE whole
    <3>1. due \in Int
      BY DEF due
    <3>2. Times((frames + due) - Rate, Clock) = Times(frames + due, Clock) - Times(Rate, Clock)
      BY <1>1, <3>1, TimesTakes
    <3>3. Times(Rate, Clock) = Times(Clock, Rate) /\ Times(0, Rate) = 0 /\ Times(Rate, Clock) \in Int
      BY TimesFacts
    <3>4. Times(frames + due, Clock) \in Int
      BY <1>1, <3>1, TimesFacts
    <3>5. handed' + sample_count' = (frames + due) - Rate /\ second' = 0 /\ second + 1 = Clock
      BY <1>3, <1>4, <2>2
    <3>6. accumulator' + Times(frames + due, Clock) = Times(Clock, Rate)
      BY <1>7, <3>5
    <3> QED
      BY <1>2, <3>2, <3>3, <3>4, <3>5, <3>6
  <2> QED
    BY <2>1, <2>2
<1> QED
  BY <1>1, <1>2, <1>3, <1>4, <1>8 DEF PathInv

LEMMA PathNextInv ==
  ASSUME PathInv, [PathNext]_pathVars
  PROVE  PathInv'
<1>1. CASE SampleTick
  BY <1>1, TickInv
<1>2. CASE DropRom
  <2>1. sample_chunk \in Nat \ {0} /\ Clock \in Nat \ {0} /\ Rate \in Int
    BY PathAssumption, RingAssumption DEF PathAssumption, RingAssumption, PathInv
  <2>2. Times(0 + 0, Clock) = 0 /\ Times(0, Rate) = 0
    BY <2>1, TimesFacts
  <2> QED
    BY <1>2, <2>1, <2>2 DEF DropRom, NewClock, PathInv
<1>3. CASE UNCHANGED <<accumulator, sample_chunk, sample_count, second, handed>>
  BY <1>3 DEF PathInv
<1> QED
  BY <1>1, <1>2, <1>3
  DEF PathNext, PathProducer, PathConsumer, SwitchClock, pathVars, clockVars

\* The frames handed over and collected are the whole frames of the time that
\* has passed, whatever the clock and the sample rate (fgb_apu_tick).
THEOREM SamplesPacedCorrect == PathSpec => []SamplesPaced
<1>1. PathInv => SamplesPaced
  <2> USE PathAssumption, RingAssumption DEF PathAssumption, RingAssumption
  <2> SUFFICES ASSUME PathInv PROVE SamplesPaced
    OBVIOUS
  <2>1. /\ accumulator \in 0..(Clock - 1) /\ sample_chunk \in Nat \ {0}
        /\ sample_count \in 0..(sample_chunk - 1) /\ second \in 0..(Clock - 1)
        /\ handed + sample_count \in Int
    BY DEF PathInv
  <2> DEFINE frames == handed + sample_count
             time == second * Rate
  <2>2. Times(frames, Clock) = frames * Clock /\ Times(second, Rate) = time
    BY DEF Times
  <2>3. time = accumulator + frames * Clock /\ frames \in Int /\ time \in Nat
    <3>1. time \in Nat
      BY <2>1, SMT
    <3> QED
      BY <2>1, <2>2, <3>1 DEF PathInv
  <2> HIDE DEF frames, time
  <2>4. time \div Clock = frames
    BY <2>1, <2>3, TimesQuotient
  <2> QED
    BY <2>1, <2>4 DEF SamplesPaced, frames, time
<1> QED
  BY <1>1, PathInitInv, PathNextInv, PTL DEF PathSpec

\* The sample clock in front of the ring changes nothing of the ring: what is
\* proved of it holds of the whole path (fgb_apu_tick calls
\* fgb_audio_push_samples between two of its cycles).
THEOREM PathIsARing == PathSpec => RingInit /\ [][RingNext]_ringVars
<1>1. PathInv => sample_chunk \in Batches
  BY DEF PathInv
<1>2. sample_chunk \in Batches /\ [PathNext]_pathVars => [RingNext]_ringVars
  BY PathStep
<1>3. PathInit => RingInit
  BY DEF PathInit
<1> QED
  BY <1>1, <1>2, <1>3, PathInitInv, PathNextInv, PTL DEF PathSpec

\* Every field of the sample clock stays in its range; the collected frames
\* always leave room for the next in the buffer.
THEOREM PathTypeCorrect == PathSpec => []PathTypeOK
<1> DEFINE Switch == apu_on \in BOOLEAN
<1>1. PathInit => Switch
  BY DEF PathInit
<1>2. Switch /\ [PathNext]_pathVars => Switch'
  BY Zenon DEF PathNext, SampleTick, SwitchClock, DropRom, NewClock, PathProducer, PathConsumer,
     pathVars, clockVars
<1>3. PathInv /\ Switch => PathTypeOK
  BY DEF PathInv, PathTypeOK
<1> QED
  BY <1>1, <1>2, <1>3, PathInitInv, PathNextInv, PTL DEF PathSpec

-----------------------------------------------------------------------------
(***************************************************************************)
(* The notes.  A note's end rests on the parity of the frame sequencer's   *)
(* step: a counter that runs at every second step falls behind by one step *)
(* when the note starts at the wrong one (LengthInv).  The envelope's      *)
(* volume rests on the time its timer has left (EnvInv).                   *)
(***************************************************************************)

USE ApuAssumption DEF ApuAssumption

-----------------------------------------------------------------------------
(* Types, the numbers apart from the flags. *)

NoteFlags ==
  /\ apu_en \in BOOLEAN /\ enabled \in BOOLEAN /\ length_en \in BOOLEAN
  /\ env_done \in BOOLEAN /\ rewritten \in BOOLEAN

NoteRegisters ==
  /\ nr12 \in EnvRegister
  /\ nr10 \in SweepRegister
  /\ sweep_pace \in SweepPaces \union Shifts \union {0}
  /\ sweep_timer \in Nat

NoteNumbers ==
  /\ cycles \in 0..SeqCycles
  /\ step \in 0..7
  /\ length \in 0..LengthMax /\ init_length \in 0..(LengthMax - 1)
  /\ volume \in 0..VolMax /\ env_timer \in Nat
  /\ period \in 0..(PeriodSize - 1)
  /\ sounding \in Nat
  /\ faded \in 0..FadeMax

NoteTypes == NoteFlags /\ NoteRegisters /\ NoteNumbers

\* A sounding note has a length left, and at most two steps per count of it;
\* one step more when it waits for the sequencer to come to an even one.
LengthInv ==
  enabled => /\ length > 0
             /\ sounding + 2 * length <= 2 * LengthMax + (1 - (step % 2))

LEMMA PeriodSizePositive == PeriodSize \in Nat \ {0}
BY SMT DEF PeriodSize

\* A period made of its two halves.
LEMMA PeriodHalves ==
  ASSUME NEW x \in 0..(PeriodSize - 1), NEW low \in 0..(LowSize - 1), NEW high \in 0..(HighSize - 1)
  PROVE  /\ (x % LowSize) + high * LowSize \in 0..(PeriodSize - 1)
         /\ (x - (x % LowSize)) + low \in 0..(PeriodSize - 1)
<1>1. \E q \in Nat : x = q * LowSize + (x % LowSize) /\ x % LowSize \in 0..(LowSize - 1)
  <2>1. x \in Nat
    BY PeriodSizePositive
  <2>2. x = LowSize * (x \div LowSize) + (x % LowSize) /\ x \div LowSize \in Nat
        /\ x % LowSize \in 0..(LowSize - 1)
    BY <2>1, SMT
  <2>3. LowSize * (x \div LowSize) = (x \div LowSize) * LowSize
    BY <2>2, SMT
  <2> QED
    BY <2>2, <2>3
<1>2. PICK q \in Nat : x = q * LowSize + (x % LowSize) /\ x % LowSize \in 0..(LowSize - 1)
  BY <1>1
<1>3. \A n \in Nat : n <= HighSize - 1 => n * LowSize + LowSize <= LowSize * HighSize
  <2> SUFFICES ASSUME NEW n \in Nat, n <= HighSize - 1
               PROVE  n * LowSize + LowSize <= LowSize * HighSize
    OBVIOUS
  <2>1. n * LowSize + LowSize = (n + 1) * LowSize
    BY SMT
  <2>2. (n + 1) * LowSize <= HighSize * LowSize
    BY SMT
  <2>3. HighSize * LowSize = LowSize * HighSize
    BY SMT
  <2> QED
    BY <2>1, <2>2, <2>3
<1>4. q <= HighSize - 1
  <2> SUFFICES ASSUME q >= HighSize PROVE FALSE
    OBVIOUS
  <2>1. q * LowSize >= HighSize * LowSize
    BY SMT
  <2>2. HighSize * LowSize = LowSize * HighSize /\ q * LowSize \in Nat
    BY SMT
  <2> QED
    BY <1>2, <2>1, <2>2 DEF PeriodSize
<1>5. q * LowSize + LowSize <= LowSize * HighSize /\ high * LowSize + LowSize <= LowSize * HighSize
  BY <1>3, <1>4
<1>6. q * LowSize \in Nat /\ high * LowSize \in Nat
  BY SMT
<1> QED
  BY <1>2, <1>5, <1>6 DEF PeriodSize

LEMMA RegisterFields ==
  ASSUME NoteTypes
  PROVE  /\ nr12.pace \in EnvPaces \union {ResetPace} /\ nr12.vol \in 0..VolMax
         /\ nr10.shift \in 0..7 /\ nr10.pace \in SweepPaces \union {0}
<1>1. nr12.pace \in EnvPaces \union {ResetPace} /\ nr12.vol \in Volumes \union {VolMax}
  BY Zenon DEF NoteTypes, NoteRegisters, EnvRegister
<1>2. nr10.shift \in Shifts \union {0} /\ nr10.pace \in SweepPaces \union {0}
  BY Zenon DEF NoteTypes, NoteRegisters, SweepRegister
<1>3. Shifts \union {0} \subseteq 0..7
  OBVIOUS
<1>4. Volumes \union {VolMax} \subseteq 0..VolMax
  OBVIOUS
<1> QED
  BY <1>1, <1>2, <1>3, <1>4, Zenon

\* A shift halves a period some number of times.
LEMMA ShiftedInRange ==
  ASSUME NoteTypes
  PROVE  Shifted \in 0..period /\ Target \in Int
<1>1. nr10.shift \in 0..7
  BY RegisterFields
<1>2. Scale[nr10.shift + 1] \in {1, 2, 4, 8, 16, 32, 64, 128}
  BY <1>1 DEF Scale
<1>3. period \in Nat
  BY PeriodSizePositive DEF NoteTypes, NoteNumbers
<1>4. Shifted \in 0..period
  BY <1>2, <1>3 DEF Shifted
<1> QED
  BY <1>3, <1>4 DEF Target

\* A sweep that does not end the note leaves its target as the period.
LEMMA SweptPeriod ==
  ASSUME NoteTypes, Sweeps, ~Overflows
  PROVE  Target % PeriodSize = Target /\ Target \in 0..(PeriodSize - 1)
<1>1. period \in 0..(PeriodSize - 1) /\ PeriodSize \in Nat \ {0}
  BY PeriodSizePositive DEF NoteTypes, NoteNumbers
<1>2. Target \in 0..(PeriodSize - 1)
  BY <1>1, ShiftedInRange DEF Target, Overflows
<1>3. \A n \in Nat \ {0}, x \in Nat : x < n => x % n = x
  BY SMT
<1> QED
  BY <1>1, <1>2, <1>3

\* The registers after a reset.
LEMMA ResetRegisters ==
  /\ [pace |-> ResetPace, up |-> FALSE, vol |-> VolMax] \in EnvRegister
  /\ [pace |-> 0, down |-> FALSE, shift |-> 0] \in SweepRegister
BY DEF EnvRegister, SweepRegister

LEMMA NoteInitTypes == NoteInit => NoteTypes
<1> SUFFICES ASSUME NoteInit PROVE NoteTypes
  OBVIOUS
<1>1. NoteRegisters
  BY ResetRegisters DEF NoteInit, ApuInit, NoteRegisters
<1>2. NoteNumbers
  BY PeriodSizePositive, FadeAssumption DEF FadeAssumption, NoteInit, ApuInit, NoteNumbers
<1> QED
  BY <1>1, <1>2 DEF NoteInit, ApuInit, NoteTypes, NoteFlags

LEMMA FadedRange ==
  ASSUME NoteTypes
  PROVE  Faded \in 0..VolMax
BY DEF NoteTypes, NoteNumbers, Faded

LEMMA PaceRange ==
  ASSUME NEW p \in Nat
  PROVE  EnvPace(p) \in Nat \ {0}
BY DEF EnvPace

\* One step of the three units.
LEMMA UnitsTypes ==
  ASSUME NoteTypes, UnitsStep
  PROVE  /\ length' \in 0..LengthMax /\ volume' \in 0..VolMax
         /\ env_timer' \in Nat /\ sweep_timer' \in Nat
         /\ period' \in 0..(PeriodSize - 1)
         /\ env_done' \in BOOLEAN /\ enabled' \in BOOLEAN
         /\ UNCHANGED <<length_en, init_length, nr12, nr10, sweep_pace>>
<1>1. length' \in 0..LengthMax
  BY DEF UnitsStep, LengthRuns, NoteTypes, NoteNumbers
<1>2. volume' \in 0..VolMax
  BY FadedRange DEF UnitsStep, NoteTypes, NoteNumbers
<1>3. nr12.pace \in Nat
  BY RegisterFields
<1>4. EnvPace(nr12.pace) \in Nat
  BY <1>3, PaceRange
<1>5. env_timer' \in Nat
  BY <1>4 DEF UnitsStep, NoteTypes, NoteNumbers
<1>6. sweep_timer' \in Nat
  BY DEF UnitsStep, Sweeps, NoteTypes, NoteRegisters
<1>7. period' \in 0..(PeriodSize - 1)
  BY SweptPeriod DEF UnitsStep, NoteTypes, NoteNumbers
<1>8. enabled' \in BOOLEAN
  BY Zenon DEF UnitsStep
<1>9. env_done' \in BOOLEAN
  <2>1. CASE EnvRuns /\ env_timer = 0
    <3>1. env_done' = (volume' \in {0, VolMax})
      BY <2>1 DEF UnitsStep
    <3>2. (volume' \in {0, VolMax}) \in BOOLEAN
      OBVIOUS
    <3> QED
      BY <3>1, <3>2
  <2>2. CASE ~(EnvRuns /\ env_timer = 0)
    BY <2>2 DEF UnitsStep, NoteTypes, NoteFlags
  <2> QED
    BY <2>1, <2>2
<1>10. UNCHANGED <<length_en, init_length, nr12, nr10, sweep_pace>>
  BY DEF UnitsStep
<1> QED
  BY <1>1, <1>2, <1>5, <1>6, <1>7, <1>8, <1>9, <1>10

LEMMA NoteNextTypes ==
  ASSUME NoteTypes, [NoteNext]_noteVars
  PROVE  NoteTypes'
<1> USE FadeAssumption DEF FadeAssumption
<1>1. CASE NoteStep
  <2>1. UnitsStep /\ cycles' = 0 /\ step' = (step + 1) % 8 /\ apu_en' = apu_en
    BY <1>1 DEF NoteStep, SequencerTick
  <2>2. NoteRegisters'
    BY <2>1, UnitsTypes DEF NoteTypes, NoteRegisters
  <2>3. /\ sounding' \in Nat /\ faded' \in 0..FadeMax
    BY <1>1 DEF NoteStep, NoteTypes, NoteNumbers
  <2>4. NoteNumbers'
    BY <2>1, <2>3, UnitsTypes DEF NoteTypes, NoteNumbers
  <2>5. rewritten' = rewritten
    BY <1>1 DEF NoteStep
  <2>6. NoteFlags'
    BY <2>1, <2>5, UnitsTypes DEF NoteTypes, NoteFlags
  <2> QED
    BY <2>2, <2>4, <2>6 DEF NoteTypes
<1>2. CASE NoteTrigger
  <2>1. PICK high \in 0..(HighSize - 1), counts \in BOOLEAN : Trigger(high, counts)
    BY <1>2 DEF NoteTrigger, TriggerAny
  <2>2. period' \in 0..(PeriodSize - 1)
    <3>1. 0 \in 0..(LowSize - 1)
      OBVIOUS
    <3> QED
      BY <2>1, <3>1, PeriodHalves DEF Trigger, NoteTypes, NoteNumbers
  <2>3. nr12.pace \in Nat /\ nr12.vol \in 0..VolMax
    BY RegisterFields
  <2>4. env_timer' \in Nat /\ volume' \in 0..VolMax
    BY <2>1, <2>3, PaceRange DEF Trigger
  <2>5. length' \in 0..LengthMax
    BY <2>1 DEF Trigger, NoteTypes, NoteNumbers
  <2>6. NoteNumbers'
    BY <1>2, <2>1, <2>2, <2>4, <2>5 DEF NoteTrigger, Trigger, NoteTypes, NoteNumbers
  <2>7. NoteRegisters'
    BY <2>1 DEF Trigger, NoteTypes, NoteRegisters, SweepRegister
  <2>8. NoteFlags'
    BY <1>2, <2>1 DEF NoteTrigger, Trigger, NoteTypes, NoteFlags
  <2> QED
    BY <2>6, <2>7, <2>8 DEF NoteTypes
<1>3. CASE NoteEnvelope
  <2>1. sounding' \in Nat /\ faded' = faded /\ rewritten' = TRUE
    BY <1>3 DEF NoteEnvelope, Rewritten, NoteTypes, NoteNumbers
  <2>2. CASE WriteEnvelope
    <3>1. PICK pace \in EnvPaces, up \in BOOLEAN, vol \in Volumes : WriteNR12(pace, up, vol)
      BY <2>2 DEF WriteEnvelope
    <3>2. nr12' \in EnvRegister
      BY <3>1 DEF WriteNR12, EnvRegister
    <3>3. UNCHANGED <<apu_en, cycles, step, enabled, lengthVars, envVars, period, nr10, sweepVars>>
      BY <3>1 DEF WriteNR12
    <3> QED
      BY <2>1, <3>2, <3>3 DEF lengthVars, envVars, sweepVars, NoteTypes, NoteFlags,
         NoteRegisters, NoteNumbers
  <2>3. CASE ResetApu
    <3>1. NoteRegisters'
      BY <2>3, ResetRegisters DEF ResetApu, ResetChannel, NoteRegisters
    <3>2. NoteNumbers'
      BY <2>1, <2>3, PeriodSizePositive DEF ResetApu, ResetChannel, NoteTypes, NoteNumbers
    <3> QED
      BY <2>1, <2>3, <3>1, <3>2 DEF ResetApu, ResetChannel, NoteTypes, NoteFlags
  <2> QED
    BY <1>3, <2>2, <2>3 DEF NoteEnvelope, Rewritten
<1>4. CASE NoteLengthWrite
  <2>1. sounding' \in Nat /\ faded' = faded /\ rewritten' = rewritten
    BY <1>4 DEF NoteLengthWrite, NoteTypes, NoteNumbers
  <2>2. CASE WriteLength
    <3>1. PICK init \in 0..(LengthMax - 1) : WriteNR11(init)
      BY <2>2 DEF WriteLength
    <3>2. UNCHANGED <<apu_en, cycles, step, enabled, length_en, envVars, nr12, period, nr10,
                      sweepVars>> /\ length' \in 0..LengthMax /\ init_length' = init
      BY <3>1 DEF WriteNR11
    <3> QED
      BY <2>1, <3>2 DEF envVars, sweepVars, NoteTypes, NoteFlags, NoteRegisters, NoteNumbers
  <2>3. CASE \E low \in 0..(LowSize - 1) : WriteNR13(low)
    <3>1. PICK low \in 0..(LowSize - 1) : WriteNR13(low)
      BY <2>3
    <3>2. 0 \in 0..(HighSize - 1)
      OBVIOUS
    <3>3. period' \in 0..(PeriodSize - 1)
      BY <3>1, <3>2, PeriodHalves DEF WriteNR13, NoteTypes, NoteNumbers
    <3>4. UNCHANGED <<apu_en, cycles, step, enabled, lengthVars, envVars, nr12, nr10, sweepVars>>
      BY <3>1 DEF WriteNR13
    <3> QED
      BY <2>1, <3>3, <3>4 DEF lengthVars, envVars, sweepVars, NoteTypes, NoteFlags,
         NoteRegisters, NoteNumbers
  <2>4. CASE \E high \in 0..(HighSize - 1), counts \in BOOLEAN : WriteNR14(high, counts)
    <3>1. PICK high \in 0..(HighSize - 1), counts \in BOOLEAN : WriteNR14(high, counts)
      BY <2>4
    <3>2. period' \in 0..(PeriodSize - 1)
      <4>1. 0 \in 0..(LowSize - 1)
        OBVIOUS
      <4> QED
        BY <3>1, <4>1, PeriodHalves DEF WriteNR14, NoteTypes, NoteNumbers
    <3>3. UNCHANGED <<apu_en, cycles, step, enabled, length, init_length, envVars, nr12, nr10,
                      sweepVars>> /\ length_en' = counts
      BY <3>1 DEF WriteNR14
    <3> QED
      BY <2>1, <3>2, <3>3 DEF envVars, sweepVars, NoteTypes, NoteFlags,
         NoteRegisters, NoteNumbers
  <2> QED
    BY <1>4, <2>2, <2>3, <2>4 DEF NoteLengthWrite, WritePeriod
<1>5. CASE NoteOther
  <2>1. sounding' \in Nat /\ faded' = faded /\ rewritten' = rewritten
    BY <1>5 DEF NoteOther, Kept, NoteTypes, NoteNumbers
  <2>2. CASE CountTick
    BY <2>1, <2>2 DEF CountTick, lengthVars, envVars, sweepVars, NoteTypes, NoteFlags,
       NoteRegisters, NoteNumbers
  <2>3. CASE WriteSweep
    <3>1. PICK pace \in SweepPaces, down \in BOOLEAN, shift \in Shifts :
            WriteNR10(pace, down, shift)
      BY <2>3 DEF WriteSweep
    <3>2. NoteRegisters'
      BY <3>1 DEF WriteNR10, NoteTypes, NoteRegisters, SweepRegister
    <3>3. UNCHANGED <<apu_en, cycles, step, enabled, lengthVars, envVars, period>>
      BY <3>1 DEF WriteNR10
    <3> QED
      BY <2>1, <3>2, <3>3 DEF lengthVars, envVars, NoteTypes, NoteFlags, NoteNumbers
  <2>4. CASE SwitchApu
    <3>1. PICK on \in BOOLEAN : WriteNR52(on)
      BY <2>4 DEF SwitchApu
    <3>2. UNCHANGED <<cycles, step, lengthVars, envVars, nr12, period, nr10, sweepVars>>
      BY <3>1 DEF WriteNR52
    <3>3. apu_en' \in BOOLEAN /\ enabled' \in BOOLEAN
      BY <3>1 DEF WriteNR52
    <3> QED
      BY <2>1, <3>2, <3>3 DEF lengthVars, envVars, sweepVars, NoteTypes, NoteFlags,
         NoteRegisters, NoteNumbers
  <2> QED
    BY <1>5, <2>2, <2>3, <2>4 DEF NoteOther, Kept
<1>6. CASE UNCHANGED noteVars
  BY <1>6 DEF noteVars, noteHistory, apuVars, lengthVars, envVars, sweepVars, NoteTypes,
     NoteFlags, NoteRegisters, NoteNumbers
<1> QED
  BY <1>1, <1>2, <1>3, <1>4, <1>5, <1>6 DEF NoteNext

-----------------------------------------------------------------------------
(* Length and sweep. *)

\* With the record of a silent channel.
SoundInv == LengthInv /\ (~enabled => sounding = 0)

\* The record starts again, or goes on with nothing of the length changed.
LEMMA SoundKeeps ==
  ASSUME NoteTypes, SoundInv, enabled' => enabled, UNCHANGED <<step, length>>,
         sounding' = IF enabled' THEN sounding ELSE 0
  PROVE  SoundInv'
BY DEF SoundInv, LengthInv

LEMMA SoundNextInv ==
  ASSUME NoteTypes, SoundInv, [NoteNext]_noteVars
  PROVE  SoundInv'
<1>1. CASE NoteStep
  <2>1. /\ length' = IF LengthRuns THEN length - 1 ELSE length
        /\ enabled' => enabled /\ ~(LengthRuns /\ length = 1)
        /\ step' = (step + 1) % 8
        /\ sounding' = IF enabled' /\ length_en THEN sounding + 1 ELSE 0
    BY <1>1 DEF NoteStep, SequencerTick, UnitsStep
  <2>2. step' \in 0..7 /\ step' % 2 = 1 - (step % 2)
    BY <2>1 DEF NoteTypes, NoteNumbers
  <2>3. SUFFICES ASSUME enabled'
                 PROVE  LengthInv'
    BY <2>1 DEF SoundInv, LengthInv
  <2>4. enabled /\ length > 0 /\ sounding + 2 * length <= 2 * LengthMax + (1 - (step % 2))
    BY <2>1, <2>3 DEF SoundInv, LengthInv
  <2>5. CASE LengthRuns
    BY <2>1, <2>2, <2>3, <2>4, <2>5 DEF LengthInv, LengthRuns, Is256Hz, NoteTypes, NoteNumbers
  <2>6. CASE ~LengthRuns /\ length_en
    <3>1. step % 2 = 1
      BY <2>4, <2>6 DEF LengthRuns, Is256Hz, NoteTypes, NoteNumbers
    <3> QED
      BY <2>1, <2>2, <2>3, <2>4, <2>6, <3>1 DEF LengthInv, NoteTypes, NoteNumbers
  <2>7. CASE ~LengthRuns /\ ~length_en
    BY <2>1, <2>2, <2>3, <2>4, <2>7 DEF LengthInv, NoteTypes, NoteNumbers
  <2> QED
    BY <2>5, <2>6, <2>7
<1>2. CASE NoteTrigger
  <2>1. PICK high \in 0..(HighSize - 1), counts \in BOOLEAN : Trigger(high, counts)
    BY <1>2 DEF NoteTrigger, TriggerAny
  <2> QED
    BY <1>2, <2>1 DEF NoteTrigger, Trigger, SoundInv, LengthInv, NoteTypes, NoteNumbers
<1>3. CASE NoteEnvelope
  <2>1. CASE WriteEnvelope
    BY <1>3, <2>1, SoundKeeps DEF NoteEnvelope, Rewritten, WriteEnvelope, WriteNR12, lengthVars,
       SoundInv
  <2>2. CASE ResetApu
    BY <1>3, <2>2 DEF NoteEnvelope, Rewritten, ResetApu, ResetChannel, SoundInv, LengthInv
  <2> QED
    BY <1>3, <2>1, <2>2 DEF NoteEnvelope, Rewritten
<1>4. CASE NoteLengthWrite
  <2>1. UNCHANGED <<enabled, step>>
    BY <1>4 DEF NoteLengthWrite, WriteLength, WriteNR11, WritePeriod, WriteNR13, WriteNR14
  <2>2. length' = length \/ (length' \in 1..LengthMax /\ WriteLength)
    BY <1>4 DEF NoteLengthWrite, WriteLength, WriteNR11, WritePeriod, WriteNR13, WriteNR14,
       lengthVars
  <2>3. /\ sounding' = sounding /\ length' = length
        \/ sounding' = 0
    BY <1>4 DEF NoteLengthWrite
  <2> QED
    BY <2>1, <2>2, <2>3 DEF SoundInv, LengthInv, NoteTypes, NoteNumbers
<1>5. CASE NoteOther
  <2>1. UNCHANGED <<step, length>> /\ (enabled' => enabled)
    <3>1. CASE CountTick \/ WriteSweep
      BY <3>1 DEF CountTick, WriteSweep, WriteNR10, lengthVars
    <3>2. CASE SwitchApu
      <4>1. PICK on \in BOOLEAN : WriteNR52(on)
        BY <3>2 DEF SwitchApu
      <4>2. enabled' => enabled
        BY <4>1, Zenon DEF WriteNR52
      <4> QED
        BY <4>1, <4>2 DEF WriteNR52, lengthVars
    <3> QED
      BY <1>5, <3>1, <3>2 DEF NoteOther, Kept
  <2> QED
    BY <1>5, <2>1, SoundKeeps DEF NoteOther, Kept
<1>6. CASE UNCHANGED noteVars
  BY <1>6 DEF noteVars, noteHistory, apuVars, lengthVars, SoundInv, LengthInv
<1> QED
  BY <1>1, <1>2, <1>3, <1>4, <1>5, <1>6 DEF NoteNext

LEMMA SoundInitInv == NoteInit => SoundInv
BY DEF NoteInit, ApuInit, SoundInv, LengthInv

\* A note with its length enabled ends in time, at whichever step of the
\* sequencer it starts (fgb_audio_channel_1_fs_tick and the writes to NR11,
\* NR14 and NR52).
THEOREM NoteEndsCorrect == NoteSpec => []NoteEnds
<1>1. NoteTypes /\ [NoteNext]_noteVars => NoteTypes'
  BY NoteNextTypes
<1>2. NoteTypes /\ SoundInv /\ [NoteNext]_noteVars => SoundInv'
  BY SoundNextInv
<1>3. NoteTypes /\ SoundInv => NoteEnds
  BY DEF NoteTypes, NoteNumbers, SoundInv, LengthInv, NoteEnds
<1> QED
  BY <1>1, <1>2, <1>3, NoteInitTypes, SoundInitInv, PTL DEF NoteSpec

\* Every field of the channel stays in its range.
THEOREM NoteTypeCorrect == NoteSpec => []NoteTypeOK
<1>1. NoteTypes /\ [NoteNext]_noteVars => NoteTypes'
  BY NoteNextTypes
<1>2. NoteTypes /\ SoundInv /\ [NoteNext]_noteVars => SoundInv'
  BY SoundNextInv
<1>3. NoteTypes /\ SoundInv => NoteTypeOK
  <2> SUFFICES ASSUME NoteTypes, SoundInv PROVE NoteTypeOK
    OBVIOUS
  <2>1. sounding \in 0..(2 * LengthMax)
    BY DEF NoteTypes, NoteNumbers, SoundInv, LengthInv
  <2> QED
    BY <2>1 DEF NoteTypes, NoteFlags, NoteRegisters, NoteNumbers, NoteTypeOK, ApuTypeOK
<1> QED
  BY <1>1, <1>2, <1>3, NoteInitTypes, SoundInitInv, PTL DEF NoteSpec

\* The sweep never wraps the period round (the sweep of
\* fgb_audio_channel_1_fs_tick).
THEOREM SweepCorrect == NoteSpec => SweepNeverWraps
<1>1. NoteTypes /\ [NoteNext]_noteVars => NoteTypes'
  BY NoteNextTypes
<1>2. NoteTypes /\ [NoteNext]_noteVars =>
        [ SequencerTick /\ period' # period =>
            IF nr10.down THEN period' < period ELSE period < period' ]_noteVars
  <2> SUFFICES ASSUME NoteTypes, SequencerTick, period' # period
               PROVE  IF nr10.down THEN period' < period ELSE period < period'
    OBVIOUS
  <2>1. Sweeps /\ ~Overflows /\ period' = Target % PeriodSize
    BY DEF SequencerTick, UnitsStep
  <2>2. period' = Target
    BY <2>1, SweptPeriod
  <2>3. period \in Nat
    BY PeriodSizePositive DEF NoteTypes, NoteNumbers
  <2> QED
    BY <2>2, <2>3, ShiftedInRange DEF Target
<1> QED
  BY <1>1, <1>2, NoteInitTypes, PTL DEF NoteSpec, SweepNeverWraps

-----------------------------------------------------------------------------
(* The envelope. *)

\* Products stay folded: the steps below need three facts about them.
Spans(k, q) == k * q

LEMMA SpanFacts ==
  ASSUME NEW q \in Nat \ {0}, NEW k \in Nat
  PROVE  /\ Spans(k, q) \in Nat
         /\ Spans(k + 1, q) = Spans(k, q) + q
         /\ Spans(0, q) = 0
<1>1. k * q \in Nat
  BY SMT
<1>2. (k + 1) * q = k * q + q
  BY SMT
<1>3. 0 * q = 0
  BY SMT
<1> QED
  BY <1>1, <1>2, <1>3 DEF Spans

LEMMA SpanGrows ==
  ASSUME NEW q \in Nat \ {0}, NEW a \in Nat, NEW b \in Nat, a <= b
  PROVE  Spans(a, q) <= Spans(b, q)
BY SMT DEF Spans

LEMMA SpanQuotient ==
  ASSUME NEW q \in Nat \ {0}, NEW k \in Nat, NEW x \in Nat, Spans(k, q) <= x
  PROVE  /\ x \div q \in Nat
         /\ x \div q >= k
         /\ x < Spans(k, q) + q => x \div q = k
<1>1. x = q * (x \div q) + (x % q) /\ x \div q \in Nat /\ x % q \in 0..(q - 1)
  BY SMT
<1> DEFINE d == x \div q
<1>2. q * d = Spans(d, q)
  <2>1. d \in Nat
    BY <1>1
  <2>2. q * d = d * q
    BY <2>1, SMT
  <2> QED
    BY <2>2 DEF Spans
<1>3. x = Spans(d, q) + (x % q)
  BY <1>1, <1>2
<1> HIDE DEF d
<1>4. d \in Nat /\ x % q \in 0..(q - 1)
  BY <1>1 DEF d
<1>5. Spans(d, q) \in Nat /\ Spans(d + 1, q) = Spans(d, q) + q
  BY <1>4, SpanFacts
<1>6. Spans(k, q) \in Nat /\ Spans(k + 1, q) = Spans(k, q) + q
  BY SpanFacts
<1>7. d >= k
  <2> SUFFICES ASSUME d < k PROVE FALSE
    BY <1>4
  <2>1. Spans(d + 1, q) <= Spans(k, q)
    BY <1>4, SpanGrows
  <2> QED
    BY <1>3, <1>4, <1>5, <1>6, <2>1
<1>8. ASSUME x < Spans(k, q) + q PROVE d = k
  <2> SUFFICES ASSUME d > k PROVE FALSE
    BY <1>4, <1>7
  <2>1. Spans(k + 1, q) <= Spans(d, q)
    BY <1>4, SpanGrows
  <2> QED
    BY <1>3, <1>4, <1>5, <1>6, <1>8, <2>1
<1> QED
  BY <1>4, <1>7, <1>8 DEF d

Pace == EnvPace(nr12.pace) + 1

\* How many levels the volume has moved, and where its timer stands.
EnvRising ==
  nr12.up =>
    /\ ~env_done => /\ nr12.vol <= volume
                    /\ volume = VolMax => nr12.vol = VolMax
                    /\ faded + env_timer = Spans(volume - nr12.vol, Pace) + Pace - 1
    /\ env_done => volume = VolMax /\ faded >= Spans(VolMax - nr12.vol, Pace)

EnvFalling ==
  ~nr12.up =>
    /\ ~env_done => /\ volume <= nr12.vol
                    /\ volume = 0 => nr12.vol = 0
                    /\ faded + env_timer = Spans(nr12.vol - volume, Pace) + Pace - 1
    /\ env_done => volume = 0 /\ faded >= Spans(nr12.vol, Pace)

EnvInv ==
  enabled /\ ~rewritten => env_timer < Pace /\ EnvRising /\ EnvFalling

LEMMA PaceFacts ==
  ASSUME NoteTypes
  PROVE  /\ Pace \in Nat \ {0, 1}
         /\ Spans(VolMax, Pace) <= FadeMax
<1>1. nr12.pace \in EnvPaces \union {ResetPace}
  BY RegisterFields
<1>2. EnvPace(nr12.pace) \in Nat \ {0}
  BY <1>1, PaceRange
<1>3. VolMax * (EnvPace(nr12.pace) + 1) <= FadeMax
  BY <1>1, FadeAssumption DEF FadeAssumption
<1> QED
  BY <1>2, <1>3 DEF Pace, Spans

\* The next 64 Hz step of an envelope that is still moving is counted.
LEMMA EnvCounted ==
  ASSUME NoteTypes, NEW k \in 0..VolMax, k < VolMax,
         faded + env_timer = Spans(k, Pace) + Pace - 1, env_timer < Pace
  PROVE  faded < FadeMax
<1>1. Pace \in Nat \ {0, 1} /\ Spans(VolMax, Pace) <= FadeMax
  BY PaceFacts
<1>2. Spans(k + 1, Pace) <= Spans(VolMax, Pace)
  BY <1>1, SpanGrows
<1>3. Spans(k, Pace) \in Nat /\ Spans(k + 1, Pace) = Spans(k, Pace) + Pace
  BY <1>1, SpanFacts
<1>4. Spans(VolMax, Pace) \in Nat
  BY <1>1, SpanFacts
<1> QED
  BY <1>1, <1>2, <1>3, <1>4, FadeAssumption DEF FadeAssumption, NoteTypes, NoteNumbers

LEMMA EnvStepInv ==
  ASSUME NoteTypes, EnvInv, NoteStep, enabled, ~rewritten
  PROVE  (env_timer < Pace /\ EnvRising /\ EnvFalling)'
<1> DEFINE vol == nr12.vol
<1>1. /\ Pace \in Nat \ {0, 1} /\ vol \in 0..VolMax /\ volume \in 0..VolMax
      /\ env_timer \in Nat /\ faded \in Nat /\ EnvPace(nr12.pace) = Pace - 1
  <2>1. /\ Pace \in Nat \ {0, 1} /\ vol \in 0..VolMax
    BY PaceFacts, RegisterFields
  <2>2. volume \in 0..VolMax /\ env_timer \in Nat /\ faded \in Nat
    BY FadeAssumption DEF FadeAssumption, NoteTypes, NoteNumbers
  <2>3. nr12.pace \in Nat
    BY RegisterFields
  <2>4. EnvPace(nr12.pace) = Pace - 1
    BY <2>3, PaceRange DEF Pace
  <2> QED
    BY <2>1, <2>2, <2>4
<1>2. /\ env_timer < Pace /\ EnvRising /\ EnvFalling
  BY DEF EnvInv
<1>3. nr12' = nr12 /\ Pace' = Pace
  BY DEF NoteStep, SequencerTick, UnitsStep, Pace
<1>4. faded' = IF Is64Hz /\ faded < FadeMax THEN faded + 1 ELSE faded
  BY DEF NoteStep
<1>5. EnvRuns <=> Is64Hz /\ ~env_done
  BY DEF EnvRuns
<1>6. CASE ~Is64Hz
  <2>1. faded' = faded /\ UNCHANGED <<volume, env_timer, env_done>>
    BY <1>4, <1>5, <1>6 DEF NoteStep, SequencerTick, UnitsStep
  <2> QED
    BY <1>1, <1>2, <1>3, <2>1 DEF EnvRising, EnvFalling
<1>7. CASE Is64Hz /\ env_done
  <2>1. faded' >= faded /\ faded' \in Nat /\ UNCHANGED <<volume, env_timer, env_done>>
    BY <1>1, <1>4, <1>5, <1>7 DEF NoteStep, SequencerTick, UnitsStep
  <2>2. Spans(VolMax - vol, Pace) \in Nat /\ Spans(vol, Pace) \in Nat
    <3>1. VolMax - vol \in Nat /\ vol \in Nat
      BY <1>1
    <3> QED
      BY <1>1, <3>1, SpanFacts
  <2> QED
    BY <1>1, <1>2, <1>3, <1>7, <2>1, <2>2 DEF EnvRising, EnvFalling
<1>8. CASE Is64Hz /\ ~env_done
  <2> DEFINE k == IF nr12.up THEN volume - vol ELSE vol - volume
  <2>1. k \in 0..VolMax /\ k < VolMax /\ faded + env_timer = Spans(k, Pace) + Pace - 1
    BY <1>1, <1>2, <1>8 DEF EnvRising, EnvFalling
  <2> HIDE DEF k
  <2>2. faded' = faded + 1
    BY <1>2, <1>4, <1>8, <2>1, EnvCounted
  <2>3. CASE env_timer # 0
    <3>1. env_timer' = env_timer - 1 /\ UNCHANGED <<volume, env_done>>
      BY <1>5, <1>8, <2>3 DEF NoteStep, SequencerTick, UnitsStep
    <3>2. faded' + env_timer' = Spans(k, Pace) + Pace - 1
      BY <1>1, <2>1, <2>2, <2>3, <3>1
    <3> QED
      BY <1>1, <1>2, <1>3, <1>8, <2>3, <3>1, <3>2 DEF EnvRising, EnvFalling, k
  <2>4. CASE env_timer = 0
    <3>1. /\ volume' = Faded /\ env_timer' = Pace - 1
          /\ env_done' <=> volume' \in {0, VolMax}
      BY <1>1, <1>5, <1>8, <2>4 DEF NoteStep, SequencerTick, UnitsStep
    <3>2. Spans(k, Pace) \in Nat /\ Spans(k + 1, Pace) = Spans(k, Pace) + Pace
      BY <1>1, <2>1, SpanFacts
    <3>3. faded' = Spans(k + 1, Pace)
      BY <1>1, <2>1, <2>2, <2>4, <3>2
    <3>4. CASE nr12.up
      <4>1. k = volume - vol /\ vol <= volume
        BY <1>2, <1>8, <3>4 DEF k, EnvRising
      <4>2. CASE volume = VolMax
        <5>1. volume' = VolMax /\ env_done' /\ vol = VolMax /\ k = 0
          BY <1>1, <1>2, <1>8, <3>1, <3>4, <4>1, <4>2 DEF Faded, EnvRising
        <5>2. Spans(0, Pace) = 0
          BY <1>1, SpanFacts
        <5> QED
          BY <1>1, <1>3, <2>2, <3>1, <3>4, <5>1, <5>2 DEF EnvRising, EnvFalling
      <4>3. CASE volume + 1 = VolMax
        <5>1. volume' = VolMax /\ env_done' /\ k + 1 = VolMax - vol
          BY <1>1, <3>1, <3>4, <4>1, <4>3 DEF Faded
        <5> QED
          BY <1>1, <1>3, <3>1, <3>2, <3>3, <3>4, <5>1 DEF EnvRising, EnvFalling
      <4>4. CASE volume + 1 < VolMax
        <5>1. volume' = volume + 1 /\ ~env_done' /\ k + 1 = volume' - vol
          BY <1>1, <3>1, <3>4, <4>1, <4>4 DEF Faded
        <5>2. faded' + env_timer' = Spans(volume' - vol, Pace) + Pace - 1
          BY <1>1, <3>1, <3>2, <3>3, <5>1
        <5> QED
          BY <1>1, <1>3, <3>1, <3>4, <4>1, <4>4, <5>1, <5>2 DEF EnvRising, EnvFalling
      <4> QED
        BY <1>1, <4>2, <4>3, <4>4
    <3>5. CASE ~nr12.up
      <4>1. k = vol - volume /\ volume <= vol
        BY <1>2, <1>8, <3>5 DEF k, EnvFalling
      <4>2. CASE volume = 0
        <5>1. volume' = 0 /\ env_done' /\ vol = 0 /\ k = 0
          BY <1>1, <1>2, <1>8, <3>1, <3>5, <4>1, <4>2 DEF Faded, EnvFalling
        <5>2. Spans(0, Pace) = 0
          BY <1>1, SpanFacts
        <5> QED
          BY <1>1, <1>3, <2>2, <3>1, <3>5, <5>1, <5>2 DEF EnvRising, EnvFalling
      <4>3. CASE volume = 1
        <5>1. volume' = 0 /\ env_done' /\ k + 1 = vol
          BY <1>1, <3>1, <3>5, <4>1, <4>3 DEF Faded
        <5> QED
          BY <1>1, <1>3, <3>1, <3>2, <3>3, <3>5, <5>1 DEF EnvRising, EnvFalling
      <4>4. CASE volume > 1
        <5>1. volume' = volume - 1 /\ ~env_done' /\ k + 1 = vol - volume'
          BY <1>1, <3>1, <3>5, <4>1, <4>4 DEF Faded
        <5>2. faded' + env_timer' = Spans(vol - volume', Pace) + Pace - 1
          BY <1>1, <3>1, <3>2, <3>3, <5>1
        <5> QED
          BY <1>1, <1>3, <3>1, <3>5, <4>1, <4>4, <5>1, <5>2 DEF EnvRising, EnvFalling
      <4> QED
        BY <1>1, <4>2, <4>3, <4>4
    <3> QED
      BY <3>4, <3>5
  <2> QED
    BY <2>3, <2>4
<1> QED
  BY <1>6, <1>7, <1>8

LEMMA EnvKeeps ==
  ASSUME EnvInv, enabled' => enabled,
         UNCHANGED <<volume, env_timer, env_done, nr12, faded, rewritten>>
  PROVE  EnvInv'
BY DEF EnvInv, EnvRising, EnvFalling, Pace

LEMMA EnvNextInv ==
  ASSUME NoteTypes, EnvInv, [NoteNext]_noteVars
  PROVE  EnvInv'
<1>1. CASE NoteStep
  <2>1. (enabled' => enabled) /\ rewritten' = rewritten
    BY <1>1 DEF NoteStep, SequencerTick, UnitsStep
  <2> QED
    BY <1>1, <2>1, EnvStepInv DEF EnvInv
<1>2. CASE NoteTrigger
  <2>1. PICK high \in 0..(HighSize - 1), counts \in BOOLEAN : Trigger(high, counts)
    BY <1>2 DEF NoteTrigger, TriggerAny
  <2>2. Pace \in Nat \ {0, 1} /\ nr12.vol \in 0..VolMax /\ Spans(0, Pace) = 0
    BY PaceFacts, RegisterFields, SpanFacts
  <2>3. /\ volume' = nr12.vol /\ env_timer' = Pace - 1 /\ ~env_done'
        /\ nr12' = nr12 /\ Pace' = Pace /\ faded' = 0
    <3>1. EnvPace(nr12.pace) \in Nat
      BY RegisterFields, PaceRange
    <3> QED
      BY <1>2, <2>1, <3>1 DEF NoteTrigger, Trigger, Pace
  <2> QED
    BY <2>2, <2>3 DEF EnvInv, EnvRising, EnvFalling
<1>3. CASE NoteEnvelope
  BY <1>3 DEF NoteEnvelope, Rewritten, EnvInv
<1>4. CASE NoteLengthWrite
  BY <1>4, EnvKeeps DEF NoteLengthWrite, WriteLength, WriteNR11, WritePeriod, WriteNR13,
     WriteNR14, envVars
<1>5. CASE NoteOther
  <2>1. (enabled' => enabled) /\ UNCHANGED <<nr12, envVars>>
    <3>1. CASE CountTick \/ WriteSweep
      BY <3>1 DEF CountTick, WriteSweep, WriteNR10
    <3>2. CASE SwitchApu
      <4>1. PICK on \in BOOLEAN : WriteNR52(on)
        BY <3>2 DEF SwitchApu
      <4>2. enabled' => enabled
        BY <4>1, Zenon DEF WriteNR52
      <4> QED
        BY <4>1, <4>2 DEF WriteNR52
    <3> QED
      BY <1>5, <3>1, <3>2 DEF NoteOther, Kept
  <2> QED
    BY <1>5, <2>1, EnvKeeps DEF NoteOther, Kept, envVars
<1>6. CASE UNCHANGED noteVars
  BY <1>6, EnvKeeps DEF noteVars, noteHistory, apuVars, envVars
<1> QED
  BY <1>1, <1>2, <1>3, <1>4, <1>5, <1>6 DEF NoteNext

LEMMA EnvInvMeaning == NoteTypes /\ EnvInv => EnvelopeOnTime
<1> SUFFICES ASSUME NoteTypes, EnvInv, enabled, ~rewritten
             PROVE  LET moved == faded \div Pace IN
                    volume = IF nr12.up
                             THEN (IF nr12.vol + moved < VolMax THEN nr12.vol + moved ELSE VolMax)
                             ELSE (IF nr12.vol > moved THEN nr12.vol - moved ELSE 0)
  BY DEF EnvelopeOnTime, Pace
<1> DEFINE vol == nr12.vol
           moved == faded \div Pace
<1>1. /\ Pace \in Nat \ {0, 1} /\ vol \in 0..VolMax /\ volume \in 0..VolMax
      /\ env_timer \in Nat /\ faded \in Nat
  BY PaceFacts, RegisterFields, FadeAssumption DEF FadeAssumption, NoteTypes, NoteNumbers
<1>2. env_timer < Pace /\ EnvRising /\ EnvFalling
  BY DEF EnvInv
<1>3. \A k \in Nat : /\ Spans(k, Pace) \in Nat
                     /\ faded >= Spans(k, Pace) => moved \in Nat /\ moved >= k
                     /\ faded + env_timer = Spans(k, Pace) + Pace - 1 => moved = k
  <2> SUFFICES ASSUME NEW k \in Nat
               PROVE  /\ Spans(k, Pace) \in Nat
                      /\ faded >= Spans(k, Pace) => moved \in Nat /\ moved >= k
                      /\ faded + env_timer = Spans(k, Pace) + Pace - 1 => moved = k
    OBVIOUS
  <2>1. Spans(k, Pace) \in Nat
    BY <1>1, SpanFacts
  <2>2. faded >= Spans(k, Pace) => moved \in Nat /\ moved >= k
    BY <1>1, <2>1, SpanQuotient
  <2>3. ASSUME faded + env_timer = Spans(k, Pace) + Pace - 1
        PROVE  moved = k
    <3>1. Spans(k, Pace) <= faded /\ faded < Spans(k, Pace) + Pace
      BY <1>1, <1>2, <2>1, <2>3
    <3> QED
      BY <1>1, <3>1, SpanQuotient
  <2> QED
    BY <2>1, <2>2, <2>3
<1> HIDE DEF moved
<1>4. CASE nr12.up /\ ~env_done
  <2>1. volume - vol \in Nat /\ moved = volume - vol
    BY <1>1, <1>2, <1>3, <1>4 DEF EnvRising
  <2> QED
    BY <1>1, <1>4, <2>1 DEF moved
<1>5. CASE nr12.up /\ env_done
  <2>1. VolMax - vol \in Nat /\ moved \in Nat /\ moved >= VolMax - vol /\ volume = VolMax
    BY <1>1, <1>2, <1>3, <1>5 DEF EnvRising
  <2> QED
    BY <1>1, <1>5, <2>1 DEF moved
<1>6. CASE ~nr12.up /\ ~env_done
  <2>1. vol - volume \in Nat /\ moved = vol - volume
    BY <1>1, <1>2, <1>3, <1>6 DEF EnvFalling
  <2> QED
    BY <1>1, <1>6, <2>1 DEF moved
<1>7. CASE ~nr12.up /\ env_done
  <2>1. moved \in Nat /\ moved >= vol /\ volume = 0
    BY <1>1, <1>2, <1>3, <1>7 DEF EnvFalling
  <2> QED
    BY <1>1, <1>7, <2>1 DEF moved
<1> QED
  BY <1>4, <1>5, <1>6, <1>7

LEMMA EnvInitInv == NoteInit => EnvInv
BY DEF NoteInit, ApuInit, EnvInv

\* The volume is the initial one moved once for every pace + 1 steps at 64 Hz
\* (the envelope of fgb_audio_channel_1_fs_tick and its trigger).
THEOREM EnvelopeCorrect == NoteSpec => []EnvelopeOnTime
<1>1. NoteTypes /\ [NoteNext]_noteVars => NoteTypes'
  BY NoteNextTypes
<1>2. NoteTypes /\ EnvInv /\ [NoteNext]_noteVars => EnvInv'
  BY EnvNextInv
<1> QED
  BY <1>1, <1>2, NoteInitTypes, EnvInitInv, EnvInvMeaning, PTL DEF NoteSpec

-----------------------------------------------------------------------------
(* Channel 3 beside channel 1. *)

\* Whatever happens to channel 3, channel 1 takes a step of its own or none.
LEMMA NotesStep == [ApuWaveNext]_apuSpecVars => [NoteNext]_noteVars
<1>1. BothTick => NoteNext
  BY DEF BothTick, NoteNext, NoteOther
<1>2. SquareWrite => NoteNext
  BY DEF SquareWrite, NoteNext, NoteEnvelope, NoteOther
<1>3. BothSwitch => NoteNext
  BY DEF BothSwitch, NoteNext, NoteOther
<1>4. BothReset => NoteNext
  BY DEF BothReset, NoteNext, NoteEnvelope
<1>5. (played = "wave" /\ WaveWrite /\ UNCHANGED noteVars) => UNCHANGED noteVars
  OBVIOUS
<1>6. UNCHANGED apuSpecVars => UNCHANGED noteVars
  BY DEF apuSpecVars
<1> QED
  BY <1>1, <1>2, <1>3, <1>4, <1>5, <1>6 DEF ApuWaveNext

\* The two channels together still are channel 1 as it is specified alone
\* (fgb_apu_tick, fgb_apu_write), so that what is proved of its notes holds
\* beside channel 3.
THEOREM WaveIsNotes == ApuWaveSpec => NoteSpec
BY NotesStep, PTL DEF ApuWaveSpec, ApuWaveInit, NoteSpec

WaveFlags == wave_enabled \in BOOLEAN /\ wave_length_en \in BOOLEAN /\ wave_zeroed \in BOOLEAN

WaveNumbers == wave_length \in 0..(WaveMax - 1) /\ wave_sounding \in Nat

\* As LengthInv; the largest length is one less, since it has eight bits.
WaveInv ==
  wave_enabled /\ ~wave_zeroed =>
    /\ wave_length > 0
    /\ wave_sounding + 2 * wave_length <= 2 * (WaveMax - 1) + (1 - (step % 2))

LEMMA WaveNextFlags ==
  ASSUME WaveFlags, [ApuWaveNext]_apuSpecVars
  PROVE  WaveFlags'
<1>1. CASE BothTick
  BY <1>1, Zenon DEF BothTick, WaveStep, WaveFlags, waveVars
<1>2. CASE WaveWrite
  <2>1. CASE \E value \in 0..(WaveMax - 1) : WriteNR31(value)
    BY <2>1, Zenon DEF WriteNR31, WaveFlags
  <2>2. CASE \E counts \in BOOLEAN : WriteNR34(counts) \/ WaveTrigger(counts)
    <3>1. PICK counts \in BOOLEAN : WriteNR34(counts) \/ WaveTrigger(counts)
      BY <2>2, Zenon
    <3> QED
      BY <3>1, Zenon DEF WriteNR34, WaveTrigger, WaveFlags
  <2> QED
    BY <1>2, <2>1, <2>2, Zenon DEF WaveWrite
<1>3. CASE BothSwitch \/ BothReset
  BY <1>3, Zenon DEF BothSwitch, BothReset, WaveSwitch, WaveReset, WaveFlags
<1>4. CASE UNCHANGED waveVars
  BY <1>4, Zenon DEF waveVars, WaveFlags
<1> QED
  BY <1>1, <1>2, <1>3, <1>4, Zenon DEF ApuWaveNext, SquareWrite, apuSpecVars

\* One step of the sequencer.
LEMMA WaveStepInv ==
  ASSUME NoteTypes, WaveNumbers, WaveInv, step' = (step + 1) % 8, WaveStep
  PROVE  WaveNumbers' /\ WaveInv'
<1> USE WaveAssumption DEF WaveAssumption
<1>1. /\ wave_length' = IF WaveRuns THEN wave_length - 1 ELSE wave_length
      /\ wave_enabled' => wave_enabled /\ ~(WaveRuns /\ wave_length = 1)
      /\ wave_sounding' = IF wave_enabled' /\ wave_length_en /\ ~wave_zeroed
                          THEN wave_sounding + 1 ELSE 0
      /\ wave_zeroed' = wave_zeroed
  BY DEF WaveStep
<1>2. step \in 0..7 /\ step' % 2 = 1 - (step % 2)
  BY DEF NoteTypes, NoteNumbers
<1>3. WaveNumbers'
  BY <1>1 DEF WaveNumbers, WaveRuns
<1>4. SUFFICES ASSUME wave_enabled', ~wave_zeroed'
               PROVE  /\ wave_length' > 0
                      /\ wave_sounding' + 2 * wave_length'
                           <= 2 * (WaveMax - 1) + (1 - (step' % 2))
  BY <1>3 DEF WaveInv
<1>5. /\ wave_enabled /\ ~wave_zeroed /\ wave_length > 0
      /\ wave_sounding + 2 * wave_length <= 2 * (WaveMax - 1) + (1 - (step % 2))
  BY <1>1, <1>4 DEF WaveInv
<1>6. CASE WaveRuns
  BY <1>1, <1>2, <1>4, <1>5, <1>6 DEF WaveRuns, Is256Hz, WaveNumbers
<1>7. CASE ~WaveRuns /\ wave_length_en
  <2>1. step % 2 = 1
    BY <1>2, <1>5, <1>7 DEF WaveRuns, Is256Hz
  <2> QED
    BY <1>1, <1>2, <1>4, <1>5, <1>7, <2>1 DEF WaveNumbers
<1>8. CASE ~WaveRuns /\ ~wave_length_en
  BY <1>1, <1>2, <1>5, <1>8 DEF WaveNumbers
<1> QED
  BY <1>6, <1>7, <1>8

LEMMA WaveNextInv ==
  ASSUME NoteTypes, WaveNumbers, WaveInv, [ApuWaveNext]_apuSpecVars
  PROVE  WaveNumbers' /\ WaveInv'
<1> USE WaveAssumption DEF WaveAssumption
<1>1. CASE NoteStep /\ WaveStep
  BY <1>1, WaveStepInv DEF NoteStep, SequencerTick
<1>2. CASE UNCHANGED <<step, waveVars>>
  BY <1>2 DEF waveVars, WaveNumbers, WaveInv
<1>3. CASE WaveWrite /\ UNCHANGED step
  <2>1. step \in 0..7
    BY DEF NoteTypes, NoteNumbers
  <2>2. CASE \E value \in 0..(WaveMax - 1) : WriteNR31(value)
    <3>1. PICK value \in 0..(WaveMax - 1) : WriteNR31(value)
      BY <2>2
    <3>2. value > 0 => (WaveMax - value) % WaveMax = WaveMax - value
      BY SMT
    <3>3. (WaveMax - 0) % WaveMax = 0
      BY SMT
    <3>4. CASE value = 0
      BY <3>1, <3>3, <3>4 DEF WriteNR31, WaveNumbers, WaveInv
    <3>5. CASE value > 0
      BY <1>3, <2>1, <3>1, <3>2, <3>5 DEF WriteNR31, WaveNumbers, WaveInv
    <3> QED
      BY <3>4, <3>5
  <2>3. CASE \E counts \in BOOLEAN : WriteNR34(counts) \/ WaveTrigger(counts)
    <3>1. PICK counts \in BOOLEAN : WriteNR34(counts) \/ WaveTrigger(counts)
      BY <2>3
    <3>2. CASE WriteNR34(counts)
      BY <1>3, <2>1, <3>2 DEF WriteNR34, WaveNumbers, WaveInv
    <3>3. CASE WaveTrigger(counts)
      BY <1>3, <2>1, <3>3 DEF WaveTrigger, WaveNumbers, WaveInv
    <3> QED
      BY <3>1, <3>2, <3>3
  <2> QED
    BY <1>3, <2>2, <2>3 DEF WaveWrite
<1>4. CASE WaveSwitch /\ UNCHANGED step
  BY <1>4 DEF WaveSwitch, WaveNumbers, WaveInv, NoteTypes, NoteNumbers
<1>5. CASE WaveReset
  BY <1>5 DEF WaveReset, WaveNumbers, WaveInv
<1>6. CountTick \/ SquareWrite \/ BothSwitch \/ UNCHANGED noteVars => UNCHANGED step
  BY DEF CountTick, SquareWrite, NoteTrigger, TriggerAny, Trigger, WriteEnvelope, WriteNR12,
     NoteLengthWrite, WriteLength, WriteNR11, WritePeriod, WriteNR13, WriteNR14, WriteSweep,
     WriteNR10, BothSwitch, SwitchApu, WriteNR52, noteVars, apuVars
<1>7. SquareWrite => UNCHANGED waveVars
  BY DEF SquareWrite
<1>8. CASE UNCHANGED apuSpecVars
  BY <1>2, <1>8 DEF apuSpecVars, noteVars, apuVars
<1> QED
  BY <1>1, <1>2, <1>3, <1>4, <1>5, <1>6, <1>7, <1>8
  DEF ApuWaveNext, BothTick, BothSwitch, BothReset

\* A note of channel 3 ends in time, at whichever step of the sequencer it
\* starts, unless a 0 is written to NR31 while it sounds
\* (fgb_audio_channel_3_fs_tick and the writes to NR31, NR34 and NR52).
THEOREM WaveNoteEndsCorrect == ApuWaveSpec => []WaveNoteEnds
<1>1. NoteTypes /\ [ApuWaveNext]_apuSpecVars => NoteTypes'
  BY NoteNextTypes, NotesStep
<1>2. NoteTypes /\ WaveNumbers /\ WaveInv /\ [ApuWaveNext]_apuSpecVars => (WaveNumbers /\ WaveInv)'
  BY WaveNextInv
<1>3. NoteTypes /\ WaveNumbers /\ WaveInv => WaveNoteEnds
  BY WaveAssumption DEF WaveAssumption, NoteTypes, NoteNumbers, WaveNumbers, WaveInv, WaveNoteEnds
<1>4. ApuWaveInit => NoteTypes /\ WaveNumbers /\ WaveInv
  BY NoteInitTypes, WaveAssumption DEF WaveAssumption, ApuWaveInit, WaveInit, WaveNumbers, WaveInv
<1> QED
  BY <1>1, <1>2, <1>3, <1>4, PTL DEF ApuWaveSpec

\* Every field of channel 3 stays in its range.
THEOREM WaveTypeCorrect == ApuWaveSpec => []WaveTypeOK
<1> DEFINE Played == played \in {"square", "wave"}
<1>1. NoteTypes /\ [ApuWaveNext]_apuSpecVars => NoteTypes'
  BY NoteNextTypes, NotesStep
<1>2. NoteTypes /\ WaveNumbers /\ WaveInv /\ [ApuWaveNext]_apuSpecVars => (WaveNumbers /\ WaveInv)'
  BY WaveNextInv
<1>3. WaveFlags /\ [ApuWaveNext]_apuSpecVars => WaveFlags'
  BY WaveNextFlags
<1>4. Played /\ [ApuWaveNext]_apuSpecVars => Played'
  BY Zenon DEF ApuWaveNext, apuSpecVars
<1>5. ApuWaveInit => NoteTypes /\ WaveNumbers /\ WaveInv
  BY NoteInitTypes, WaveAssumption DEF WaveAssumption, ApuWaveInit, WaveInit, WaveNumbers, WaveInv
<1>6. ApuWaveInit => WaveFlags /\ Played
  BY Zenon DEF ApuWaveInit, WaveInit, WaveFlags
<1>7. WaveNumbers /\ WaveFlags /\ Played => WaveTypeOK
  BY Zenon DEF WaveNumbers, WaveFlags, WaveTypeOK
<1> QED
  BY <1>1, <1>2, <1>3, <1>4, <1>5, <1>6, <1>7, PTL DEF ApuWaveSpec
==============================================================================
