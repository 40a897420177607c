------------------------------ MODULE MCUsbDac ------------------------------
(***************************************************************************)
(* The sound card with a ring of a few frames.                             *)
(***************************************************************************)
EXTENDS UsbDacProofs

MCBothRates == {44100, 48000}
MCOneRate   == {48000}

\* What the loop has read and will read again before it uses it, and the ring's
\* slots that hold no queued frame, tell no two states apart: no action and no
\* property looks at them.
LiveView ==
  <<usbVars, packetVars, write_index, pc, playVars, refuseVars, gateVars,
    starting, left, todo, fbVars, accepting, read_index, outVars,
    generation, want,
    IF pc = "copy" THEN level ELSE 0,
    IF pc \in {"generation", "alt"} THEN 0 ELSE s_alt,
    IF pc \in {"generation", "alt", "rate"} THEN 0 ELSE s_rate,
    s_age, any_packet,
    [k \in 0 .. RingFrames - 1 |->
       IF k < RingLevel THEN ring[Slot(Plus(read_index, k))] ELSE 0]>>
=============================================================================
