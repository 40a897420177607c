-------------------------------- MODULE Avrcp --------------------------------
(***************************************************************************)
(* avrcp.c: the volume of the Bluetooth sink, set by a source that knows   *)
(* absolute volume, or stepped by the buttons of one that does not, and    *)
(* told to the source.                                                     *)
(*                                                                         *)
(* The source shows a volume (slider).  Between it and the box are two     *)
(* queues; BTstack answers an absolute volume with the volume it was       *)
(* given.  A volume is heard through btstack_audio_pico_sink_set_volume.   *)
(***************************************************************************)
EXTENDS Integers, Sequences

CONSTANTS
  FullVolume,   \* 127
  Step,         \* VOLUME_STEP
  Absolutes,    \* the absolute volumes a source sets
  MaxQueue      \* bound: messages on their way, in each direction

ASSUME VolumeAssumption ==
  /\ FullVolume \in Nat \ {0} /\ Step \in Nat \ {0} /\ MaxQueue \in Nat
  /\ Absolutes \subseteq 0 .. FullVolume

VARIABLES
  cid, playing, sink_volume,   \* _cid # 0, _playing, _volume
  sink_gain,                   \* volume_gain of audio_out, in steps of the volume
  watching,               \* the playback status notification is enabled
  connected, slider,      \* the source's side
  toBox, toSource         \* events for the box, volumes for the source

avrcpVars ==
  <<cid, playing, sink_volume, sink_gain, watching, connected, slider, toBox, toSource>>

Volumes  == 0 .. FullVolume
Statuses == {"playing", "paused"}
Buttons  == {"up", "down"}
Events   == [is : {"absolute"}, volume : Volumes] \cup [is : {"button"}, button : Buttons]
              \cup [is : {"status"}, status : Statuses] \cup [is : {"capabilities"}]
SetTo(v) == [is |-> "absolute", volume |-> v]

\* Every variable has its type: no step of a button leaves the scale.
AvrcpTypeOK ==
  /\ cid \in BOOLEAN /\ playing \in BOOLEAN /\ watching \in BOOLEAN
  /\ sink_volume \in Volumes /\ sink_gain \in 1 .. FullVolume + 1
  /\ connected \in BOOLEAN /\ slider \in Volumes
  /\ toBox \in Seq(Events) /\ toSource \in Seq(Volumes)

\* Full scale until the source says otherwise, as audio_out is.
AvrcpInit ==
  /\ cid = FALSE /\ playing = FALSE /\ sink_volume = FullVolume /\ sink_gain = FullVolume + 1
  /\ watching = FALSE
  /\ connected = FALSE /\ slider \in Volumes /\ toBox = <<>> /\ toSource = <<>>

Clamped(v) == IF v < 0 THEN 0 ELSE IF v > FullVolume THEN FullVolume ELSE v

\* set_volume_from_source, avrcp_volume_changed and the sink's set_volume.
SetSinkVolume(v) ==
  IF v = sink_volume THEN UNCHANGED <<sink_volume, sink_gain>>
  ELSE sink_volume' = v /\ sink_gain' = v + 1

\* What a press of a volume button leads to.
Stepped(button) == Clamped(IF button = "up" THEN sink_volume + Step ELSE sink_volume - Step)

-----------------------------------------------------------------------------
\* Mutant: the source is left with what BTstack says, 0.
Established_Mute ==
  /\ ~ connected /\ connected' = TRUE /\ cid' = TRUE
  /\ toSource' = <<0>> /\ toBox' = <<[is |-> "capabilities"]>>
  /\ UNCHANGED <<playing, sink_volume, sink_gain, watching, slider>>

\* AVRCP_SUBEVENT_CONNECTION_ESTABLISHED: the source is told where the volume is
\* and asked what it supports.
Established ==
  /\ ~ connected /\ connected' = TRUE /\ cid' = TRUE
  /\ toSource' = <<sink_volume>> /\ toBox' = <<[is |-> "capabilities"]>>
  /\ UNCHANGED <<playing, sink_volume, sink_gain, watching, slider>>

ConnectFails ==
  /\ ~ connected /\ cid' = FALSE
  /\ UNCHANGED <<playing, sink_volume, sink_gain, watching, connected, slider, toBox, toSource>>

Released ==
  /\ connected /\ connected' = FALSE /\ cid' = FALSE
  /\ toBox' = <<>> /\ toSource' = <<>> /\ watching' = FALSE
  /\ UNCHANGED <<playing, sink_volume, sink_gain, slider>>

\* The three handlers: each takes an absolute volume, whichever BTstack chooses.
HandleEvent ==
  /\ toBox # <<>> /\ Len(toSource) < MaxQueue
  /\ LET e == Head(toBox) IN
     \/ /\ e.is = "absolute" /\ SetSinkVolume(e.volume)
        /\ toSource' = Append(toSource, e.volume)
        /\ UNCHANGED <<playing, watching>>
     \/ /\ e.is = "button" /\ SetSinkVolume(Stepped(e.button))
        /\ toSource' = Append(toSource, sink_volume')
        /\ UNCHANGED <<playing, watching>>
     \/ /\ e.is = "capabilities" /\ cid /\ watching' = TRUE
        /\ UNCHANGED <<playing, sink_volume, sink_gain, toSource>>
     \/ /\ e.is = "status" /\ cid /\ playing' = (e.status = "playing")
        /\ UNCHANGED <<sink_volume, sink_gain, watching, toSource>>
  /\ toBox' = Tail(toBox)
  /\ UNCHANGED <<cid, connected, slider>>

\* The source: its user moves the slider, presses a button, plays or pauses.
SendToBox(e) == Len(toBox) < MaxQueue /\ toBox' = Append(toBox, e)

Slide(v) ==
  /\ connected /\ SendToBox(SetTo(v)) /\ slider' = v
  /\ UNCHANGED <<cid, playing, sink_volume, sink_gain, watching, connected, toSource>>

Press(button) ==
  /\ connected /\ SendToBox([is |-> "button", button |-> button])
  /\ UNCHANGED <<cid, playing, sink_volume, sink_gain, watching, connected, slider, toSource>>

PlayOrPause(status) ==
  /\ connected /\ watching /\ SendToBox([is |-> "status", status |-> status])
  /\ UNCHANGED <<cid, playing, sink_volume, sink_gain, watching, connected, slider, toSource>>

Show ==
  /\ toSource # <<>>
  /\ slider' = Head(toSource) /\ toSource' = Tail(toSource)
  /\ UNCHANGED <<cid, playing, sink_volume, sink_gain, watching, connected, toBox>>

AvrcpNext ==
  \/ Established \/ ConnectFails \/ Released
  \/ HandleEvent
  \/ \E v \in Absolutes : Slide(v)
  \/ \E button \in Buttons : Press(button)
  \/ \E status \in Statuses : PlayOrPause(status)
  \/ Show

AvrcpSpec == AvrcpInit /\ [][AvrcpNext]_avrcpVars

-----------------------------------------------------------------------------
\* Once nothing is on its way, what the source shows is what the box keeps and
\* what is heard, across slides that cross the box's own reports, buttons at
\* either end of the scale and a connection that comes back (avrcp.c:72-79,
\* 99-105, 195-220).
HeardAsShown ==
  /\ AvrcpTypeOK
  /\ connected /\ toBox = <<>> /\ toSource = <<>> => slider = sink_volume
  /\ sink_gain = sink_volume + 1
==============================================================================
