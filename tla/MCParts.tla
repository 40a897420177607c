------------------------------- MODULE MCParts -------------------------------
(***************************************************************************)
(* The small components: the isochronous endpoints, the volume of either   *)
(* personality, the charger detector, the feedback loop and the way of an  *)
(* SBC frame.  They share no state, so that a behaviour of all of them is  *)
(* one of each: part says which one runs, and the others stand still.      *)
(***************************************************************************)
EXTENDS UsbStream, UsbVolume, Charger, FeedbackLoop, SbcPipeline, SbcFrames, Avrcp

CONSTANT Parts   \* those to check

VARIABLE part

\* The isochronous endpoints: two rates.
MCRates == {44, 48}

\* Volumes at the ends of the scale, past them, and on both sides of where a
\* decibel is rounded.
MCAsked ==
  {-32768, -23169, -23040, -17920, -15360, -5120, -2688, -2560, -385, -384, -257, -256,
   -129, -128, -127, -1, 0, 1, 32767}

\* A charger: with the fallback on no host off, or on after the window, and passes
\* of which the longer is a gap.
MCNoHosts == {0, 6}
MCGaps == {1, 2}

\* The loop: the rates at both ends, the drift of ordinary crystals and three
\* times that, and passes at one to four phases.
MCLoopRates == {44100, 96000}
MCDrifts == {-300, -100, 0, 100, 300}
MCPeriods == {1, 2, 4}

\* SBC: frames that at most double, and frames that grow by more, as from bitpool
\* 2 to 53; fills of less and of more than a frame.
MCSizes == 2 .. 4
MCLeaps == {1, 3}
MCFills == {1, 5}
MCBitpools == {2, 3, 19, 31, 35, 51, 52, 53}

\* AVRCP: a scale of eight, steps of three, so that both ends clamp.
MCAbsolutes == {0, 4, 7}

vars == <<part, streamVars, volumeVars, chargerVars, loopVars, pipelineVars, framesVars,
          avrcpVars>>

Largest == [mode |-> "joint", subbands |-> 8, blocks |-> 16, max_bitpool |-> 53]

\* What stands still starts in one place.
Init ==
  /\ part \in Parts
  /\ StreamInit /\ (part # "stream" => rate = 48)
  /\ VolumeInit
  /\ ChargerInit /\ (part # "charger" => no_host = 0)
  /\ LoopInit /\ (part # "loop" => dac_rate = 44100 /\ drift = 0 /\ period = 1)
  /\ PipelineInit
  /\ FramesInit /\ (part # "frames" => sbc = Largest)
  /\ AvrcpInit /\ (part # "avrcp" => slider = FullVolume)

Stream   == StreamNext /\ UNCHANGED <<volumeVars, chargerVars, loopVars, pipelineVars,
                                      framesVars, avrcpVars>>
Volume   == VolumeNext /\ UNCHANGED <<streamVars, chargerVars, loopVars, pipelineVars,
                                      framesVars, avrcpVars>>
Detector == ChargerNext /\ UNCHANGED <<streamVars, volumeVars, loopVars, pipelineVars,
                                       framesVars, avrcpVars>>
Loop     == LoopNext /\ UNCHANGED <<streamVars, volumeVars, chargerVars, pipelineVars,
                                    framesVars, avrcpVars>>
Pipeline == PipelineNext /\ UNCHANGED <<streamVars, volumeVars, chargerVars, loopVars,
                                        framesVars, avrcpVars>>
Sizing   == FramesNext /\ UNCHANGED <<streamVars, volumeVars, chargerVars, loopVars,
                                      pipelineVars, avrcpVars>>
Remote   == AvrcpNext /\ UNCHANGED <<streamVars, volumeVars, chargerVars, loopVars,
                                     pipelineVars, framesVars>>

Runs(which) == part = which /\ UNCHANGED part

Next ==
  \/ Runs("stream") /\ Stream
  \/ Runs("volume") /\ Volume
  \/ Runs("charger") /\ Detector
  \/ Runs("loop") /\ Loop
  \/ Runs("pipeline") /\ Pipeline
  \/ Runs("frames") /\ Sizing
  \/ Runs("avrcp") /\ Remote

Spec == Init /\ [][Next]_vars
==============================================================================
