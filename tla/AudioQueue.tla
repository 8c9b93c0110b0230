----------------------------- MODULE AudioQueue -----------------------------
(***************************************************************************)
(* What the audio path promises (src/audio.c): a bounded queue of frames   *)
(* between the emulator, which offers frames in chunks and never waits,    *)
(* and the sound device, which asks for frames and never waits either.     *)
(*                                                                         *)
(* Frames reach the device in the order they were offered, each once.      *)
(* Offered frames are dropped only when the queue is full, and silence is  *)
(* played only when it is empty.                                           *)
(***************************************************************************)
EXTENDS Sequences, Integers

CONSTANTS
  Size,    \* the frames the queue holds
  Frame,   \* what a frame may hold
  Silence, \* the frame that is played for want of another
  Chunks,  \* the lengths of the chunks the emulator offers
  Requests \* the numbers of frames the device asks for

VARIABLES
  queue,
  offered, \* frames of the current chunk that are not in the queue yet
  wanted,  \* frames the device asked for
  output   \* those it got

queueVars == <<queue, offered, wanted, output>>

QueueInit == queue = <<>> /\ offered = 0 /\ wanted = 0 /\ output = <<>>

Offer ==
  /\ offered = 0
  /\ offered' \in Chunks
  /\ UNCHANGED <<queue, wanted, output>>

Put ==
  /\ \E n \in 1..offered :
       /\ Len(queue) + n <= Size
       /\ offered' = offered - n
       /\ \E frames \in [1..n -> Frame] : queue' = queue \o frames
  /\ UNCHANGED <<wanted, output>>

Drop ==
  /\ offered > 0
  /\ Len(queue) = Size
  /\ offered' = 0
  /\ UNCHANGED <<queue, wanted, output>>

Ask ==
  /\ Len(output) = wanted
  /\ wanted' \in Requests
  /\ output' = <<>>
  /\ UNCHANGED <<queue, offered>>

Take ==
  /\ \E n \in 1..(wanted - Len(output)) :
       /\ n <= Len(queue)
       /\ output' = output \o SubSeq(queue, 1, n)
       /\ queue' = SubSeq(queue, n + 1, Len(queue))
  /\ UNCHANGED <<offered, wanted>>

Underrun ==
  /\ queue = <<>>
  /\ Len(output) < wanted
  /\ output' = output \o [i \in 1..(wanted - Len(output)) |-> Silence]
  /\ UNCHANGED <<queue, offered, wanted>>

QueueNext == Offer \/ Put \/ Drop \/ Ask \/ Take \/ Underrun

\* What a queue may do; QueueSpec adds that it deals with every chunk and with
\* every request.
QueueSafe == QueueInit /\ [][QueueNext]_queueVars

QueueSpec ==
  /\ QueueSafe
  /\ WF_queueVars(Put \/ Drop)
  /\ WF_queueVars(Take \/ Underrun)

=============================================================================
