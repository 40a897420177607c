---------------------------- MODULE UsbSoundCard ----------------------------
(***************************************************************************)
(* usb_dac.c implements SoundCard.                                         *)
(***************************************************************************)
EXTENDS UsbDac, Sequences

\* Where stream_update has read part of a selection only.
Reading == {"alt", "rate", "packet", "last", "check"}

\* What it reads counts from the moment the generation has held still.
Taken == IF pc \in Reading \cup {"generation"} THEN None ELSE generation

\* A stream lasts from audio_out_start until the stream is stopped.
Streaming == playing \/ starting
Stream == IF Streaming THEN played_generation ELSE None

\* The frame that is the k-th to be played.
Queued(k) == ring[Slot(Plus(read_index, k))]

\* What waits to be played.
Waiting == [k \in 1 .. RingLevel |-> Queued(k - 1).sent]

Card == INSTANCE SoundCard WITH
  Formats <- Alts, Capacity <- RingFrames, MaxSelections <- MaxGeneration,
  selections <- selected, made <- stream_generation, taken <- Taken, stream <- Stream,
  queue <- Waiting

\* Although stream_update reads alt and rate one by one, the interrupt changes them
\* meanwhile, and packets come late, what plays is what one selection was sent for, or
\* a later one, at its rate (usb_dac.c:700-748, 938-1010).
KeepsToSelections == Card!Spec
=============================================================================
