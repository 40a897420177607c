----------------------------- MODULE SbcPipeline -----------------------------
(***************************************************************************)
(* a2dp.c: a frame of SBC on its way from a media packet through the SBC   *)
(* ring, the decoder, the resampler and the ring of decoded audio into a   *)
(* buffer the output asks for.                                             *)
(*                                                                         *)
(* Frames are numbered.  A byte of the SBC ring is the number of its frame *)
(* and whether it is the last, with which the decoder has the frame; a     *)
(* stereo sample is the number of its frame.  All of it runs on the run    *)
(* loop: a fill is not interrupted by packets, and is a few steps here     *)
(* because it is a loop.                                                   *)
(***************************************************************************)
EXTENDS Integers, Sequences

CONSTANTS
  Sizes,        \* bytes of a frame, which follow the source's bitpool
  Samples,      \* samples in a decoded frame; the resampler may make it one more
  RingBytes,    \* _sbc_frame_storage
  PcmSamples,   \* _decoded_audio_storage
  FramesInPacket, \* frames in a packet
  Fills,        \* samples a fill may ask for
  MaxFrames     \* bound: frames the source sends

ASSUME SizeAssumption ==
  /\ Sizes \subseteq Nat \ {0} /\ Fills \subseteq Nat \ {0}
  /\ Samples \in Nat \ {0} /\ FramesInPacket \in Nat \ {0}
  /\ RingBytes \in Nat /\ MaxFrames \in Nat
\* "Room for two decoded frames", resampled.
ASSUME RoomAssumption == PcmSamples \in Nat /\ PcmSamples >= 2 * (Samples + 1)

VARIABLES
  ring,        \* _sbc_frame_ring_buffer
  frame_size,  \* _sbc_frame_size
  pcm,         \* _decoded_audio_ring_buffer
  stage,       \* "idle"; "loop": in playback_handler; "decode": in the decoder
  chunk,       \* the bytes it has read and not yet handed over as frames
  buffer, missing,   \* what the fill has written, and _request_frames
  asked,       \* num_audio_frames
  sent,        \* frames the source has sent
  refused,     \* those the SBC ring had no room for
  pcm_dropped, \* _pcm_frames_dropped
  played       \* the frame of the last sample handed over

pipelineVars == <<ring, frame_size, pcm, stage, chunk, buffer, missing, asked, sent,
                  refused, pcm_dropped, played>>

Frames == 1 .. MaxFrames
Silence == 0
SbcBytes == [frame : Frames, last : BOOLEAN]

\* Every variable has its type, no ring is overfull and no fill overruns.
PipelineTypeOK ==
  /\ ring \in Seq(SbcBytes) /\ Len(ring) <= RingBytes
  /\ frame_size \in Sizes \cup {0}
  /\ pcm \in Seq(Frames) /\ Len(pcm) <= PcmSamples
  /\ stage \in {"idle", "loop", "decode"}
  /\ chunk \in Seq(SbcBytes)
  /\ buffer \in Seq(Frames \cup {Silence}) /\ missing \in Nat /\ asked \in Fills \cup {0}
  /\ sent \in 0 .. MaxFrames /\ refused \subseteq Frames
  /\ pcm_dropped \in Nat /\ played \in 0 .. MaxFrames

PipelineInit ==
  /\ ring = <<>> /\ frame_size = 0 /\ pcm = <<>> /\ stage = "idle" /\ chunk = <<>>
  /\ buffer = <<>> /\ missing = 0 /\ asked = 0
  /\ sent = 0 /\ refused = {} /\ pcm_dropped = 0 /\ played = 0

Smaller(a, b) == IF a < b THEN a ELSE b

\* The bytes of frames first .. first + n - 1.
Bytes(first, n, size) ==
  [i \in 1 .. n * size |-> [frame |-> first + (i - 1) \div size, last |-> i % size = 0]]

\* media_handler: a packet that does not fit is refused whole, but the size of
\* its frames counts.
Media(size) ==
  /\ stage = "idle" /\ sent + FramesInPacket <= MaxFrames
  /\ sent' = sent + FramesInPacket
  /\ frame_size' = size
  /\ LET packet == Bytes(sent + 1, FramesInPacket, size)
         fits == Len(ring) + Len(packet) <= RingBytes
     IN  /\ ring' = IF fits THEN ring \o packet ELSE ring
         /\ refused' = IF fits THEN refused ELSE refused \cup (sent + 1 .. sent')
  /\ UNCHANGED <<pcm, stage, chunk, buffer, missing, asked, pcm_dropped, played>>

\* Mutant: straight to the decoder.
Begin_Decoding(n) ==
  /\ stage = "idle" /\ frame_size # 0
  /\ stage' = "loop" /\ asked' = n /\ buffer' = <<>> /\ missing' = n
  /\ UNCHANGED <<ring, frame_size, pcm, chunk, sent, refused, pcm_dropped, played>>

\* playback_handler: first what is decoded already.
Begin(n) ==
  /\ stage = "idle" /\ frame_size # 0
  /\ LET ready == Smaller(n, Len(pcm))
     IN  /\ buffer' = SubSeq(pcm, 1, ready) /\ missing' = n - ready
         /\ pcm' = SubSeq(pcm, ready + 1, Len(pcm))
  /\ stage' = "loop" /\ asked' = n
  /\ UNCHANGED <<ring, frame_size, chunk, sent, refused, pcm_dropped, played>>

\* One turn of its loop: as many bytes as the newest frames have, whatever
\* frames they belong to.
Decode ==
  /\ stage = "loop" /\ missing > 0 /\ Len(ring) >= frame_size
  /\ chunk' = SubSeq(ring, 1, frame_size)
  /\ ring' = SubSeq(ring, frame_size + 1, Len(ring))
  /\ stage' = "decode"
  /\ UNCHANGED <<frame_size, pcm, buffer, missing, asked, sent, refused, pcm_dropped, played>>

\* handle_pcm_data with n samples of a frame: what the fill lacks, and the rest
\* into the ring, or nowhere if it does not fit.
HandlePcm(frame, n) ==
  LET copied == Smaller(n, missing)
      rest == n - copied
      fits == Len(pcm) + rest <= PcmSamples
  IN  /\ buffer' = buffer \o [i \in 1 .. copied |-> frame]
      /\ missing' = missing - copied
      /\ pcm' = IF fits THEN pcm \o [i \in 1 .. rest |-> frame] ELSE pcm
      /\ pcm_dropped' = IF fits THEN pcm_dropped ELSE pcm_dropped + rest

\* The bytes of the chunk with which the decoder has a frame.
Completing == {k \in DOMAIN chunk : chunk[k].last}

\* The decoder calls it with the next frame it has whole.
Deliver ==
  /\ stage = "decode"
  /\ \E k \in Completing :
       /\ \A l \in Completing : k <= l
       /\ \E n \in {Samples, Samples + 1} : HandlePcm(chunk[k].frame, n)
       /\ chunk' = SubSeq(chunk, k + 1, Len(chunk))
  /\ UNCHANGED <<ring, frame_size, stage, asked, sent, refused, played>>

\* It keeps the start of a frame the end of which is in the SBC ring still.
Decoded ==
  /\ stage = "decode" /\ Completing = {}
  /\ stage' = "loop" /\ chunk' = <<>>
  /\ UNCHANGED <<ring, frame_size, pcm, buffer, missing, asked, sent, refused,
                 pcm_dropped, played>>

\* Its end: silence for what is missing.
Finish ==
  /\ stage = "loop" /\ (missing = 0 \/ Len(ring) < frame_size)
  /\ stage' = "idle" /\ missing' = 0
  /\ played' = IF buffer = <<>> THEN played ELSE buffer[Len(buffer)]
  /\ buffer' = buffer \o [i \in 1 .. missing |-> Silence]
  /\ UNCHANGED <<ring, frame_size, pcm, chunk, asked, sent, refused, pcm_dropped>>

PipelineNext ==
  \/ \E size \in Sizes : Media(size)
  \/ \E n \in Fills : Begin(n)
  \/ Decode \/ Deliver \/ Decoded \/ Finish

PipelineSpec == PipelineInit /\ [][PipelineNext]_pipelineVars

-----------------------------------------------------------------------------
\* The audio that is left to play, in order.
InHand ==
  (IF stage = "idle" THEN <<>> ELSE buffer) \o pcm
    \o [i \in DOMAIN (chunk \o ring) |-> (chunk \o ring)[i].frame]

\* Between the last frame handed over and the newest sent, none that the SBC ring
\* took is missing or out of place, in whichever of the four places it is.
AllInOrder ==
  /\ \A i \in 1 .. Len(InHand) - 1 : InHand[i] <= InHand[i + 1]
  /\ \A i \in DOMAIN InHand : InHand[i] >= played
  /\ (played + 1 .. sent) \ refused \subseteq {InHand[i] : i \in DOMAIN InHand}

\* A fill has written, or still lacks, exactly what it was asked for.
FillsWhole ==
  /\ stage = "idle" => Len(buffer) = asked
  /\ stage # "idle" => Len(buffer) + missing = asked

\* The comment at a2dp.c:171-174: the ring of decoded audio has "room for two
\* decoded frames", for "one read can complete two of the older, smaller frames".
RoomForDecoded == pcm_dropped = 0

\* Every frame the SBC ring took is played, once, in order and whole, and every
\* fill is filled, with silence if need be, whatever the sizes of frames and
\* wherever fills end in them (a2dp.c:171-174, 205-233, 259-289, 842-872).
NothingLost == PipelineTypeOK /\ AllInOrder /\ FillsWhole /\ RoomForDecoded
==============================================================================
