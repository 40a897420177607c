------------------------------ MODULE SbcFrames -------------------------------
(***************************************************************************)
(* a2dp.c: how large frames of SBC get under the configurations the        *)
(* source may choose, and whether the buffers sized for them hold.  The    *)
(* sizes are those of the code.                                            *)
(***************************************************************************)
EXTENDS Integers

CONSTANT Bitpools   \* the bitpools tried, of those advertised

AdvertisedMaxBitpool == 53
ASSUME BitpoolAssumption == Bitpools \subseteq 2 .. AdvertisedMaxBitpool

VARIABLES
  sbc,      \* _sbc_configuration, what matters of it
  bitpool   \* of the frames the source sends

framesVars == <<sbc, bitpool>>

OptimalFramesMax == 40
StartFrames      == 30
AdditionalFrames == 30
FullFrameSamples == 128
MaxFramesPerPacket == 15

RoundUp(bits) == (bits + 7) \div 8

\* SBC_FRAME_BYTES
FrameBytes(channels, subbands, audioBits) ==
  4 + (4 * subbands * channels) \div 8 + RoundUp(audioBits)

\* Mutant: room for joint stereo only, as in a2dp_sink_demo.
MaxFrameSize_Joint == 120

MaxFrameSize == FrameBytes(2, 8, 16 * 2 * AdvertisedMaxBitpool)

\* MAX_SBC_BYTES_PER_FULL_FRAME
MaxBytesPerFullFrame ==
  (FullFrameSamples \div 16) * FrameBytes(2, 4, 4 * 2 * AdvertisedMaxBitpool)

\* _sbc_frame_storage
Storage == OptimalFramesMax * MaxBytesPerFullFrame + AdditionalFrames * MaxFrameSize

Configurations ==
  [mode : {"mono", "dual", "stereo", "joint"}, subbands : {4, 8},
   blocks : {4, 8, 12, 16}, max_bitpool : Bitpools]

Channels(c) == IF c.mode = "mono" THEN 1 ELSE 2

\* What a frame's samples take at a bitpool: sbc_max_frame_bytes has the highest.
AudioBits(c, b) ==
  CASE c.mode = "joint" -> c.subbands + c.blocks * b
    [] c.mode = "stereo" -> c.blocks * b
    [] OTHER -> c.blocks * Channels(c) * b
SbcFrameBytes(c, b) == FrameBytes(Channels(c), c.subbands, AudioBits(c, b))

FramesInit == sbc \in Configurations /\ bitpool = sbc.max_bitpool

\* SET_CONFIGURATION or RECONFIGURE, and a source that changes its bitpool.
Reconfigure(c) == sbc' = c /\ bitpool' = c.max_bitpool
Adapt(b) == b <= sbc.max_bitpool /\ bitpool' = b /\ UNCHANGED sbc

FramesNext ==
  \/ \E b \in Bitpools : Adapt(b)
  \/ \E c \in Configurations : Reconfigure(c)
FramesSpec == FramesInit /\ [][FramesNext]_framesVars

-----------------------------------------------------------------------------
\* The most SBC the ring holds while media_handler counts fewer than so many
\* full-size frames in it.
BytesBelow(frames) ==
  LET samples == sbc.blocks * sbc.subbands
      queued == (frames * FullFrameSamples + samples - 1) \div samples
  IN  queued * SbcFrameBytes(sbc, bitpool) - 1

\* No frame of a configuration PAB offers is refused as too large, for the bound
\* is that of the largest (a2dp.c:80-92, 552-568, 861-864).
FramesFit == SbcFrameBytes(sbc, bitpool) <= MaxFrameSize

\* Whatever the frames, the ring takes a whole packet while playback has not
\* started, and while it holds no more than the target: nothing is refused
\* before the resampler is told to catch up (a2dp.c:64-76, 94-99, 165-168,
\* 870-888).
RoomAtTarget ==
  LET packet == MaxFramesPerPacket * SbcFrameBytes(sbc, bitpool)
  IN  /\ BytesBelow(StartFrames) + packet <= Storage
      /\ BytesBelow(OptimalFramesMax + 1) + packet <= Storage

\* Both: what is sized by the constants of a2dp.c takes what its sources may send.
SizesSuffice == FramesFit /\ RoomAtTarget
===============================================================================
