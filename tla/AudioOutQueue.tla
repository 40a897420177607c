--------------------------- MODULE AudioOutQueue ----------------------------
(***************************************************************************)
(* audio_out implements AudioQueue.                                        *)
(***************************************************************************)
EXTENDS AudioOut, Sequences

\* The buffer so many places round the ring from next_buffer, or behind it.
At(k) ==
  LET p == next_buffer + k
  IN  IF p < 0 THEN p + NumBuffers ELSE IF p < NumBuffers THEN p ELSE p - NumBuffers

\* The channels hold the two buffers behind next_buffer, the older first.
Loaded == IF Aimed(At(-2)) THEN 2 ELSE IF Aimed(At(-1)) THEN 1 ELSE 0

\* What waits behind them starts at next_buffer, and ends before the first that
\* is not queued.
Waiting ==
  CHOOSE w \in 0 .. NumBuffers :
    /\ w = NumBuffers \/ ~Queued(At(w))
    /\ \A k \in 0 .. w - 1 : Queued(At(k))

\* The blocks whose transfer has not ended, in the order they will be.
Pending == [k \in 1 .. Loaded + Waiting |-> audio_buffer[At(k - 1 - Loaded)]]

Queue == INSTANCE AudioQueue WITH pending <- Pending

\* Blocks play once and in order, whatever the DMA interrupt's timing;
\* only a change of rate drops any, and never one already loaded.
PlaysInOrder == Queue!Spec

\* A block that is handed over and not dropped is played in the end, even if
\* the run loop stops the stream or never calls audio_out_service again.
PlaysInTheEnd == Queue!Fairness
=============================================================================
