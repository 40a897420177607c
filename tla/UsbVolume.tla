------------------------------ MODULE UsbVolume -------------------------------
(***************************************************************************)
(* usb_dac.c and usb_dac_pcm.h: the host's volume and mute on their way to *)
(* the output.  The USB interrupt sets either; apply_volume reads the two  *)
(* on every pass of the main loop, one after the other, and turns them     *)
(* into a gain.  A volume is in 1/256 dB, as on the wire.                  *)
(***************************************************************************)
EXTENDS Integers, Sequences

CONSTANTS Asked   \* the values the host sets, 16 bit and signed

Int16 == -(2 ^ 15) .. 2 ^ 15 - 1
ASSUME AskedAssumption == Asked \subseteq Int16

VARIABLES
  volume, mute,          \* dac_state
  pc,                    \* "between" the two reads of apply_volume, or not
  seen,                  \* the volume it has read
  applied,               \* applied_volume and applied_mute; None at first
  gain,                  \* volume_gain of audio_out
  in_force               \* what the host had set at the pass's first read, and since

volumeVars == <<volume, mute, pc, seen, applied, gain, in_force>>

MinVolume == -90 * 256
MaxVolume == 0
Unity == 65536
None == <<MaxVolume + 1, FALSE>>   \* no volume the host can have set

\* usb_dac_gain_table: 65536 * 10^(-dB / 20), at -dB + 1.
GainTable ==
  <<65536, 58409, 52057, 46396, 41350, 36854, 32846, 29274, 26090, 23253, 20724, 18471,
    16462, 14672, 13076, 11654, 10387, 9257, 8250, 7353, 6554, 5841, 5206, 4640, 4135,
    3685, 3285, 2927, 2609, 2325, 2072, 1847, 1646, 1467, 1308, 1165, 1039, 926, 825, 735,
    655, 584, 521, 464, 414, 369, 328, 293, 261, 233, 207, 185, 165, 147, 131, 117, 104,
    93, 83, 74, 66, 58, 52, 46, 41, 37, 33, 29, 26, 23, 21, 18, 16, 15, 13, 12, 10, 9, 8,
    7, 7, 6, 5, 5, 4, 4, 3, 3, 3, 2, 2>>

\* usb_dac_volume_gain: the nearest whole dB below full scale.
Decibels(v) ==
  IF v >= 0 THEN 0
  ELSE IF (-v + 128) \div 256 > 90 THEN 90 ELSE (-v + 128) \div 256
VolumeGain(v) == GainTable[Decibels(v) + 1]

\* set_cur_packet clamps what it is sent.
Accepted(v) == IF v < MinVolume THEN MinVolume ELSE IF v > MaxVolume THEN MaxVolume ELSE v

GainFor(state) == IF state[2] THEN 0 ELSE VolumeGain(state[1])
Levels == {Accepted(v) : v \in Asked} \cup {MaxVolume}

\* Every variable has its type: 0x8000 and what is above 0 dB are clamped.
VolumeTypeOK ==
  /\ volume \in MinVolume .. MaxVolume /\ mute \in BOOLEAN
  /\ pc \in {"pass", "between"} /\ seen \in MinVolume .. MaxVolume
  /\ applied \in (Levels \X BOOLEAN) \cup {None}
  /\ gain \in 0 .. Unity
  /\ in_force \subseteq Levels \X BOOLEAN

VolumeInit ==
  /\ volume = MaxVolume /\ mute = FALSE
  /\ pc = "pass" /\ seen = MaxVolume /\ applied = None
  /\ gain = Unity /\ in_force = {}

\* set_cur_packet, in the interrupt.  A control transfer takes far longer than
\* the time between the two reads, so at most one ends there.
MaySet == pc = "pass" \/ in_force = {<<volume, mute>>}

SetVolume(v) ==
  /\ MaySet
  /\ volume' = Accepted(v)
  /\ in_force' = IF pc = "between" THEN in_force \cup {<<volume', mute>>} ELSE in_force
  /\ UNCHANGED <<mute, pc, seen, applied, gain>>

SetMute ==
  /\ MaySet
  /\ mute' = ~ mute
  /\ in_force' = IF pc = "between" THEN in_force \cup {<<volume, mute'>>} ELSE in_force
  /\ UNCHANGED <<volume, pc, seen, applied, gain>>

\* apply_volume.
ReadVolume ==
  /\ pc = "pass" /\ pc' = "between"
  /\ seen' = volume /\ in_force' = {<<volume, mute>>}
  /\ UNCHANGED <<volume, mute, applied, gain>>

\* Mutant: the volume is read again for the gain.
Apply_Reread ==
  /\ pc = "between" /\ pc' = "pass"
  /\ IF applied = <<seen, mute>> THEN UNCHANGED <<applied, gain>>
     ELSE applied' = <<seen, mute>> /\ gain' = GainFor(<<volume, mute>>)
  /\ UNCHANGED <<volume, mute, seen, in_force>>

Apply ==
  /\ pc = "between" /\ pc' = "pass"
  /\ IF applied = <<seen, mute>> THEN UNCHANGED <<applied, gain>>
     ELSE applied' = <<seen, mute>> /\ gain' = GainFor(applied')
  /\ UNCHANGED <<volume, mute, seen, in_force>>

VolumeNext ==
  \/ \E v \in Asked : SetVolume(v)
  \/ SetMute \/ ReadVolume \/ Apply

VolumeSpec == VolumeInit /\ [][VolumeNext]_volumeVars

-----------------------------------------------------------------------------
\* A pass leaves the output at a volume and mute the host had in force together
\* while it ran: a change that lands between the two reads is never mixed with
\* what it replaced (usb_dac.c:867-880).
NeverMixed ==
  pc = "pass" /\ applied # None => \E state \in in_force : gain = GainFor(state)

\* A volume the host sets above another never sounds below it, and the steps of
\* the table are decibels: twenty of them are a factor of ten, to within the
\* rounding, and a volume is taken to the nearest, halves down (usb_dac_pcm.h:91-117).
GainFollowsVolume ==
  /\ \A v \in Levels :
       /\ volume >= v => VolumeGain(volume) >= VolumeGain(v)
       /\ volume - v >= 256 => Decibels(volume) < Decibels(v)
  /\ VolumeGain(volume) - 10 * VolumeGain(volume - 20 * 256) \in -5 .. 5
       \/ volume < -70 * 256
  /\ 256 * Decibels(volume) + volume \in -127 .. 128

\* Both: what is heard after a pass is what the host has set, and sounds like it.
SoundsAsSet == VolumeTypeOK /\ NeverMixed /\ GainFollowsVolume
===============================================================================
