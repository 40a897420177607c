----------------------------- MODULE MCAudioOut -----------------------------
(***************************************************************************)
(* audio_out on a small ring.                                              *)
(***************************************************************************)
EXTENDS AudioOutQueue, AudioOutProofs

MCRates   == {1, 2}
MCOneRate == {1}

(***************************************************************************)
(* States that differ only in what dead buffers hold, or in the number the *)
(* count of blocks has reached, are one state for TLC: no action reads the *)
(* contents of a buffer, and every property only compares block numbers    *)
(* with one another.                                                       *)
(***************************************************************************)
Audio(b) ==
  IF buffer_ready[b]
    THEN <<(fresh - audio_buffer[b]) % NumBlocks, made_for[b]>>
    ELSE <<0, 0>>

LiveView ==
  <<hwVars, ints0, isrVars, sharedVars, loopVars, slack,
    [b \in Buffers |-> Audio(b)]>>
=============================================================================
