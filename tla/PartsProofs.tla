----------------------------- MODULE PartsProofs -----------------------------
(***************************************************************************)
(* The safety properties of six small components, each for every value of  *)
(* its constants: UsbVolume, Avrcp, SbcFrames, Charger, SbcPipeline for    *)
(* sizes of which none is more than twice another, and the feedback loop   *)
(* for the rates of the sound card and clocks up to 300 ppm apart.         *)
(***************************************************************************)
EXTENDS UsbVolume, Avrcp, SbcFrames, Charger, SbcPipeline, FeedbackLoop, Modulo,
        SequenceTheorems, TLAPS

(***************************************************************************)
(* UsbVolume.  The gain is that of what was applied last, and this is what *)
(* the host had in force at some time since the last pass began: the       *)
(* volume read, with the mute of now.                                      *)
(***************************************************************************)
VolumeInv ==
  /\ VolumeTypeOK /\ volume \in Levels /\ seen \in Levels
  /\ applied # None => gain = GainFor(applied)
  /\ pc = "pass" /\ applied # None => applied \in in_force
  /\ pc = "between" => <<seen, mute>> \in in_force

\* The table, entry by entry.
Entries ==
  {1, 2, 3, 4, 5, 6, 7, 8, 9, 10, 11, 12, 13, 14, 15, 16, 17, 18, 19, 20, 21,
   22, 23, 24, 25, 26, 27, 28, 29, 30, 31, 32, 33, 34, 35, 36, 37, 38, 39, 40,
   41, 42, 43, 44, 45, 46, 47, 48, 49, 50, 51, 52, 53, 54, 55, 56, 57, 58, 59,
   60, 61, 62, 63, 64, 65, 66, 67, 68, 69, 70, 71, 72, 73, 74, 75, 76, 77, 78,
   79, 80, 81, 82, 83, 84, 85, 86, 87, 88, 89, 90, 91}

LEMMA EntriesAll == \A k \in 1 .. 91 : k \in Entries
BY DEF Entries

LEMMA FirstValues ==
  /\ GainTable[1] = 65536 /\ GainTable[2] = 58409 /\ GainTable[3] = 52057 /\ GainTable[4] = 46396
  /\ GainTable[5] = 41350 /\ GainTable[6] = 36854 /\ GainTable[7] = 32846 /\ GainTable[8] = 29274
  /\ GainTable[9] = 26090 /\ GainTable[10] = 23253 /\ GainTable[11] = 20724 /\ GainTable[12] = 18471
  /\ GainTable[13] = 16462 /\ GainTable[14] = 14672 /\ GainTable[15] = 13076 /\ GainTable[16] = 11654
  /\ GainTable[17] = 10387 /\ GainTable[18] = 9257 /\ GainTable[19] = 8250 /\ GainTable[20] = 7353
  /\ GainTable[21] = 6554 /\ GainTable[22] = 5841 /\ GainTable[23] = 5206 /\ GainTable[24] = 4640
  /\ GainTable[25] = 4135 /\ GainTable[26] = 3685 /\ GainTable[27] = 3285 /\ GainTable[28] = 2927
  /\ GainTable[29] = 2609 /\ GainTable[30] = 2325 /\ GainTable[31] = 2072 /\ GainTable[32] = 1847
  /\ GainTable[33] = 1646 /\ GainTable[34] = 1467 /\ GainTable[35] = 1308 /\ GainTable[36] = 1165
  /\ GainTable[37] = 1039 /\ GainTable[38] = 926 /\ GainTable[39] = 825 /\ GainTable[40] = 735
  /\ GainTable[41] = 655 /\ GainTable[42] = 584 /\ GainTable[43] = 521 /\ GainTable[44] = 464
BY SMTT(100) DEF GainTable

LEMMA LastValues ==
  /\ GainTable[45] = 414 /\ GainTable[46] = 369 /\ GainTable[47] = 328 /\ GainTable[48] = 293
  /\ GainTable[49] = 261 /\ GainTable[50] = 233 /\ GainTable[51] = 207 /\ GainTable[52] = 185
  /\ GainTable[53] = 165 /\ GainTable[54] = 147 /\ GainTable[55] = 131 /\ GainTable[56] = 117
  /\ GainTable[57] = 104 /\ GainTable[58] = 93 /\ GainTable[59] = 83 /\ GainTable[60] = 74
  /\ GainTable[61] = 66 /\ GainTable[62] = 58 /\ GainTable[63] = 52 /\ GainTable[64] = 46
  /\ GainTable[65] = 41 /\ GainTable[66] = 37 /\ GainTable[67] = 33 /\ GainTable[68] = 29
  /\ GainTable[69] = 26 /\ GainTable[70] = 23 /\ GainTable[71] = 21 /\ GainTable[72] = 18
  /\ GainTable[73] = 16 /\ GainTable[74] = 15 /\ GainTable[75] = 13 /\ GainTable[76] = 12
  /\ GainTable[77] = 10 /\ GainTable[78] = 9 /\ GainTable[79] = 8 /\ GainTable[80] = 7
  /\ GainTable[81] = 7 /\ GainTable[82] = 6 /\ GainTable[83] = 5 /\ GainTable[84] = 5
  /\ GainTable[85] = 4 /\ GainTable[86] = 4 /\ GainTable[87] = 3 /\ GainTable[88] = 3
  /\ GainTable[89] = 3 /\ GainTable[90] = 2 /\ GainTable[91] = 2
BY SMTT(100) DEF GainTable

LEMMA TableRange ==
  ASSUME NEW k \in 1 .. 91
  PROVE  GainTable[k] \in Int /\ GainTable[k] \in 0 .. Unity
<1> DEFINE g == GainTable[k]
<1>1. g \in Int
  BY EntriesAll, FirstValues, LastValues, SMTT(60) DEF Entries
<1>2. g >= 2
  BY EntriesAll, FirstValues, LastValues, SMTT(60) DEF Entries
<1>3. g <= 65536
  BY EntriesAll, FirstValues, LastValues, SMTT(60) DEF Entries
<1> HIDE DEF g
<1>4. Unity \in Int /\ Unity >= 65536
  BY DEF Unity
<1>5. g \in 0 .. Unity
  BY <1>1, <1>2, <1>3, <1>4
<1> QED
  BY <1>1, <1>5, Zenon DEF g

LEMMA TableFalls ==
  ASSUME NEW k \in 1 .. 91, NEW j \in 1 .. 91, k <= j
  PROVE  GainTable[j] <= GainTable[k]
BY EntriesAll, FirstValues, LastValues, SMTT(60) DEF Entries

LEMMA TwentyIsTen ==
  ASSUME NEW k \in 1 .. 71
  PROVE  GainTable[k] - 10 * GainTable[k + 20] \in -5 .. 5
BY EntriesAll, FirstValues, LastValues, SMTT(60) DEF Entries

LEMMA Scale ==
  /\ -70 * 256 = -17920 /\ 20 * 256 = 5120
  /\ MinVolume \in Int /\ MaxVolume \in Int /\ MinVolume < MaxVolume
  /\ \A v : v \in MinVolume .. MaxVolume <=> v \in Int /\ v >= -23040 /\ v <= 0
<1>1. /\ -70 * 256 = -17920 /\ 20 * 256 = 5120
      /\ MinVolume \in Int /\ MinVolume <= -23040 /\ MinVolume >= -23040
      /\ MaxVolume \in Int /\ MaxVolume <= 0 /\ MaxVolume >= 0
  BY DEF MinVolume, MaxVolume
<1> QED
  BY <1>1

LEMMA LevelRange ==
  /\ Levels \subseteq MinVolume .. MaxVolume /\ MaxVolume \in Levels
  /\ \A v \in Asked : Accepted(v) \in Levels
<1>1. \A v \in Asked : v \in Int
  <2>1. \A v \in Int16 : v \in Int
    BY DEF Int16
  <2> QED
    BY AskedAssumption, <2>1
<1>2. \A v \in Int : Accepted(v) \in MinVolume .. MaxVolume
  BY Scale DEF Accepted
<1>3. MaxVolume \in MinVolume .. MaxVolume
  BY Scale
<1> QED
  BY <1>1, <1>2, <1>3 DEF Levels

LEMMA LevelsAre ==
  \A l \in Levels : l \in MinVolume .. MaxVolume /\ l \in Int /\ l <= 0
<1> SUFFICES ASSUME NEW l \in Levels
             PROVE  l \in MinVolume .. MaxVolume /\ l \in Int /\ l <= 0
  OBVIOUS
<1>1. l \in MinVolume .. MaxVolume
  BY LevelRange, Zenon
<1> QED
  BY <1>1, Scale

LEMMA DecibelsFall ==
  ASSUME NEW v \in MinVolume .. MaxVolume
  PROVE  /\ Decibels(v) \in 0 .. 90
         /\ 256 * Decibels(v) + v \in -127 .. 128
         /\ v >= -70 * 256 => Decibels(v) <= 70 /\ Decibels(v - 20 * 256) = Decibels(v) + 20
         /\ \A w \in MinVolume .. MaxVolume :
              /\ v >= w => Decibels(v) <= Decibels(w)
              /\ v - w >= 256 => Decibels(v) < Decibels(w)
<1>1. ASSUME NEW w \in Int, w >= -23040, w <= 0
      PROVE  /\ Decibels(w) = (-w + 128) \div 256 /\ Decibels(w) \in 0 .. 90
             /\ 256 * Decibels(w) + w \in -127 .. 128
  BY <1>1 DEF Decibels
<1>2. v \in Int /\ v >= -23040 /\ v <= 0
  BY Scale
<1>3. ASSUME v >= -17920 PROVE Decibels(v) <= 70 /\ Decibels(v - 5120) = Decibels(v) + 20
  <2>1. v - 5120 \in Int /\ v - 5120 >= -23040 /\ v - 5120 <= 0
    BY <1>2, <1>3
  <2>2. Decibels(v) = (-v + 128) \div 256 /\ Decibels(v - 5120) = (-(v - 5120) + 128) \div 256
    BY <1>1, <1>2, <2>1
  <2> QED
    BY <1>2, <1>3, <2>2
<1>4. ASSUME NEW w \in MinVolume .. MaxVolume
      PROVE  /\ v >= w => Decibels(v) <= Decibels(w)
             /\ v - w >= 256 => Decibels(v) < Decibels(w)
  <2>1. w \in Int /\ w >= -23040 /\ w <= 0
    BY Scale
  <2>2. Decibels(v) = (-v + 128) \div 256 /\ Decibels(w) = (-w + 128) \div 256
    BY <1>1, <1>2, <2>1
  <2> QED
    BY <1>2, <2>1, <2>2
<1>5. Decibels(v) \in 0 .. 90 /\ 256 * Decibels(v) + v \in -127 .. 128
  BY <1>1, <1>2
<1>6. v >= -70 * 256 => Decibels(v) <= 70 /\ Decibels(v - 20 * 256) = Decibels(v) + 20
  BY <1>3
<1> QED
  BY <1>4, <1>5, <1>6, Zenon

LEMMA GainRange ==
  ASSUME NEW state \in Levels \X BOOLEAN
  PROVE  GainFor(state) \in 0 .. Unity
<1>1. state[1] \in MinVolume .. MaxVolume
  BY LevelRange
<1>2. Decibels(state[1]) \in 0 .. 90
  BY <1>1, DecibelsFall
<1>3. Decibels(state[1]) + 1 \in 1 .. 91
  BY <1>2
<1>4. VolumeGain(state[1]) \in 0 .. Unity
  BY <1>3, TableRange, Zenon DEF VolumeGain
<1>5. 0 \in 0 .. Unity
  BY DEF Unity
<1> QED
  BY <1>4, <1>5, Zenon DEF GainFor

LEMMA GainFollows ==
  ASSUME volume \in Levels
  PROVE  GainFollowsVolume
<1>1. volume \in MinVolume .. MaxVolume /\ volume \in Int
  BY LevelsAre
<1>2. ASSUME NEW v \in Levels
      PROVE  /\ volume >= v => VolumeGain(volume) >= VolumeGain(v)
             /\ volume - v >= 256 => Decibels(volume) < Decibels(v)
  <2>1. v \in MinVolume .. MaxVolume /\ v \in Int
    BY LevelsAre
  <2>2. volume - v >= 256 => Decibels(volume) < Decibels(v)
    BY <1>1, <2>1, DecibelsFall
  <2>3. ASSUME volume >= v PROVE VolumeGain(volume) >= VolumeGain(v)
    <3>1. Decibels(volume) \in 0 .. 90 /\ Decibels(v) \in 0 .. 90 /\ Decibels(volume) <= Decibels(v)
      BY <1>1, <2>1, <2>3, DecibelsFall
    <3>2. Decibels(volume) + 1 \in 1 .. 91 /\ Decibels(v) + 1 \in 1 .. 91
          /\ Decibels(volume) + 1 <= Decibels(v) + 1
      BY <3>1
    <3>3. GainTable[Decibels(v) + 1] <= GainTable[Decibels(volume) + 1]
      BY <3>2, TableFalls
    <3>4. GainTable[Decibels(v) + 1] \in Int /\ GainTable[Decibels(volume) + 1] \in Int
      BY <3>2, TableRange, Zenon
    <3> QED
      BY <3>3, <3>4 DEF VolumeGain
  <2> QED
    BY <2>2, <2>3
<1>3. VolumeGain(volume) - 10 * VolumeGain(volume - 20 * 256) \in -5 .. 5 \/ volume < -70 * 256
  <2> SUFFICES ASSUME volume >= -70 * 256
               PROVE  VolumeGain(volume) - 10 * VolumeGain(volume - 20 * 256) \in -5 .. 5
    BY <1>1
  <2> DEFINE k == Decibels(volume) + 1
  <2>1. Decibels(volume) \in 0 .. 70 /\ Decibels(volume - 20 * 256) = Decibels(volume) + 20
    BY <1>1, DecibelsFall
  <2>2. k \in 1 .. 71 /\ Decibels(volume - 20 * 256) + 1 = k + 20
    BY <2>1
  <2> HIDE DEF k
  <2>3. GainTable[k] - 10 * GainTable[k + 20] \in -5 .. 5
    BY <2>2, TwentyIsTen
  <2> QED
    BY <2>2, <2>3, Zenon DEF VolumeGain, k
<1>4. 256 * Decibels(volume) + volume \in -127 .. 128
  BY <1>1, DecibelsFall
<1> QED
  BY <1>2, <1>3, <1>4 DEF GainFollowsVolume

LEMMA NoneIsNoLevel == ASSUME NEW l \in Levels, NEW m PROVE <<l, m>> # None
<1>1. l # MaxVolume + 1
  BY LevelsAre DEF MaxVolume
<1> QED
  BY <1>1, Zenon DEF None

LEMMA VolumeStep == VolumeInv /\ [VolumeNext]_volumeVars => VolumeInv'
<1> SUFFICES ASSUME VolumeInv, [VolumeNext]_volumeVars PROVE VolumeInv'
  OBVIOUS
<1> USE DEF VolumeInv, VolumeTypeOK
<1>1. \A l \in Levels : l \in MinVolume .. MaxVolume
  BY LevelRange
<1>2. ASSUME NEW v \in Asked, SetVolume(v) PROVE VolumeInv'
  <2>1. volume' \in Levels
    BY <1>2, LevelRange DEF SetVolume
  <2> QED
    BY <1>1, <1>2, <2>1 DEF SetVolume, MaySet
<1>3. CASE SetMute
  <2>1. CASE pc = "pass"
    BY <1>3, <2>1 DEF SetMute
  <2>2. CASE pc = "between"
    <3>1. in_force = {<<volume, mute>>}
      BY <1>3, <2>2 DEF SetMute, MaySet
    <3>2. seen = volume
      BY <2>2, <3>1
    <3>3. in_force' = in_force \cup {<<volume, mute'>>} /\ mute' \in BOOLEAN
      BY <1>3, <2>2 DEF SetMute
    <3>4. <<seen, mute'>> \in in_force' /\ in_force' \subseteq Levels \X BOOLEAN
      BY <3>2, <3>3
    <3> QED
      BY <1>3, <2>2, <3>4 DEF SetMute
  <2> QED
    BY <2>1, <2>2
<1>4. CASE ReadVolume
  BY <1>4 DEF ReadVolume
<1>5. CASE Apply
  <2>1. <<seen, mute>> # None /\ <<seen, mute>> \in Levels \X BOOLEAN
    BY NoneIsNoLevel
  <2>2. CASE applied = <<seen, mute>>
    BY <1>5, <2>1, <2>2 DEF Apply
  <2>3. CASE applied # <<seen, mute>>
    <3>1. applied' = <<seen, mute>> /\ gain' = GainFor(applied')
      BY <1>5, <2>3 DEF Apply
    <3>2. gain' \in 0 .. Unity
      BY <2>1, <3>1, GainRange
    <3> QED
      BY <1>5, <2>1, <3>1, <3>2 DEF Apply
  <2> QED
    BY <2>2, <2>3
<1>6. CASE UNCHANGED volumeVars
  BY <1>6 DEF volumeVars
<1> QED
  BY <1>2, <1>3, <1>4, <1>5, <1>6 DEF VolumeNext

\* What is heard after a pass is what the host has set, and sounds like it, for
\* any volumes a host may ask for.
THEOREM SetIsHeard == VolumeSpec => []SoundsAsSet
<1>1. VolumeInit => VolumeInv
  <2> SUFFICES ASSUME VolumeInit PROVE VolumeInv
    OBVIOUS
  <2>1. volume = MaxVolume /\ seen = MaxVolume /\ MaxVolume \in MinVolume .. MaxVolume
    BY DEF VolumeInit, MinVolume, MaxVolume
  <2>2. gain \in 0 .. Unity
    BY DEF VolumeInit, Unity
  <2> QED
    BY <2>1, <2>2, LevelRange DEF VolumeInit, VolumeInv, VolumeTypeOK
<1>2. VolumeInv => SoundsAsSet
  BY GainFollows DEF VolumeInv, SoundsAsSet, NeverMixed
<1> QED
  BY <1>1, <1>2, VolumeStep, PTL DEF VolumeSpec

-----------------------------------------------------------------------------
(***************************************************************************)
(* Avrcp.  Whatever asks for a volume is answered with the volume it led   *)
(* to, so that unless a question is on its way, the newest answer, or with *)
(* none on its way what is shown, is the volume.                           *)
(***************************************************************************)
AskedFor == \E k \in DOMAIN toBox : toBox[k].is \in {"absolute", "button"}
NewestShown == IF toSource = <<>> THEN slider ELSE toSource[Len(toSource)]

AvrcpInv ==
  /\ AvrcpTypeOK
  /\ sink_gain = sink_volume + 1
  /\ connected /\ ~ AskedFor => NewestShown = sink_volume

LEMMA VolumeSteps ==
  ASSUME sink_volume \in Volumes, NEW button
  PROVE  Stepped(button) \in Volumes
BY VolumeAssumption DEF Stepped, Clamped, Volumes

LEMMA GainOf == \A v \in Volumes : v + 1 \in 1 .. FullVolume + 1
BY VolumeAssumption DEF Volumes

\* The newest of a queue that has got one more.
LEMMA NewestIs ==
  ASSUME NEW S, NEW s \in Seq(S), NEW x \in S
  PROVE  /\ Append(s, x) \in Seq(S) /\ Append(s, x) # <<>>
         /\ Append(s, x)[Len(Append(s, x))] = x
OBVIOUS

\* ... and of one whose oldest is taken.
LEMMA NewestStays ==
  ASSUME NEW S, NEW s \in Seq(S), s # <<>>
  PROVE  /\ Head(s) \in S /\ Tail(s) \in Seq(S)
         /\ Tail(s) = <<>> => Head(s) = s[Len(s)]
         /\ Tail(s) # <<>> => Tail(s)[Len(Tail(s))] = s[Len(s)]
<1>1. Len(s) \in Nat \ {0} /\ Head(s) = s[1] /\ Tail(s) \in Seq(S)
  OBVIOUS
<1>2. Len(Tail(s)) = Len(s) - 1 /\ \A k \in 1 .. Len(s) - 1 : Tail(s)[k] = s[k + 1]
  BY <1>1
<1>3. CASE Len(s) = 1
  <2>1. Len(Tail(s)) = 0
    BY <1>2, <1>3
  <2>2. Tail(s) = <<>>
    BY <1>1, <2>1, EmptySeq
  <2> QED
    BY <1>1, <1>3, <2>2
<1>4. CASE Len(s) > 1
  <2>1. Len(Tail(s)) # 0 /\ Len(Tail(s)) \in 1 .. Len(s) - 1
    BY <1>1, <1>2, <1>4
  <2>2. Tail(s) # <<>>
    BY <2>1, EmptySeq
  <2>3. Tail(s)[Len(Tail(s))] = s[Len(s)]
    BY <1>1, <1>2, <2>1
  <2> QED
    BY <1>1, <2>2, <2>3
<1> QED
  BY <1>1, <1>3, <1>4

LEMMA NothingQueued == <<>> \in Seq(Events) /\ <<>> \in Seq(Volumes)
OBVIOUS

LEMMA SinkFollows ==
  ASSUME AvrcpInv, NEW v \in Volumes, SetSinkVolume(v)
  PROVE  sink_volume' = v /\ sink_gain' = v + 1 /\ sink_gain' \in 1 .. FullVolume + 1
BY GainOf DEF AvrcpInv, AvrcpTypeOK, SetSinkVolume

LEMMA AvrcpHandle == AvrcpInv /\ HandleEvent => AvrcpInv'
<1> SUFFICES ASSUME AvrcpInv, HandleEvent PROVE AvrcpInv'
  OBVIOUS
<1> DEFINE e == Head(toBox)
<1>1. /\ toBox \in Seq(Events) /\ toBox # <<>> /\ toBox' = Tail(toBox)
      /\ toSource \in Seq(Volumes) /\ UNCHANGED <<cid, connected, slider>>
  BY DEF AvrcpInv, AvrcpTypeOK, HandleEvent
<1>2. /\ e \in Events /\ toBox' \in Seq(Events) /\ e = toBox[1]
      /\ \A k \in DOMAIN toBox : k # 1 => k - 1 \in DOMAIN toBox' /\ toBox'[k - 1] = toBox[k]
  BY <1>1
<1> HIDE DEF e
<1>3. ASSUME NEW v \in Volumes, SetSinkVolume(v), toSource' = Append(toSource, v),
             UNCHANGED <<playing, watching>>
      PROVE  AvrcpInv'
  <2>1. sink_volume' = v /\ sink_gain' = v + 1 /\ sink_gain' \in 1 .. FullVolume + 1
    BY <1>3, SinkFollows
  <2>2. toSource' \in Seq(Volumes) /\ toSource' # <<>> /\ toSource'[Len(toSource')] = v
    BY <1>1, <1>3, NewestIs
  <2>3. NewestShown' = v
    BY <2>2 DEF NewestShown
  <2> QED
    BY <1>1, <1>2, <1>3, <2>1, <2>2, <2>3 DEF AvrcpInv, AvrcpTypeOK
<1>4. ASSUME e.is \notin {"absolute", "button"}, watching' \in BOOLEAN, playing' \in BOOLEAN,
             UNCHANGED <<sink_volume, sink_gain, toSource>>
      PROVE  AvrcpInv'
  <2>1. AskedFor => AskedFor'
    BY <1>2, <1>4 DEF AskedFor
  <2>2. NewestShown' = NewestShown
    BY <1>1, <1>4 DEF NewestShown
  <2> QED
    BY <1>1, <1>2, <1>4, <2>1, <2>2 DEF AvrcpInv, AvrcpTypeOK
<1>5. CASE /\ e.is = "absolute" /\ SetSinkVolume(e.volume)
           /\ toSource' = Append(toSource, e.volume) /\ UNCHANGED <<playing, watching>>
  <2>1. e.volume \in Volumes
    BY <1>2, <1>5 DEF Events
  <2> QED
    BY <1>3, <1>5, <2>1
<1>6. CASE /\ e.is = "button" /\ SetSinkVolume(Stepped(e.button))
           /\ toSource' = Append(toSource, sink_volume') /\ UNCHANGED <<playing, watching>>
  <2>1. Stepped(e.button) \in Volumes
    BY VolumeSteps DEF AvrcpInv, AvrcpTypeOK
  <2>2. sink_volume' = Stepped(e.button)
    BY <1>6, <2>1, SinkFollows
  <2> QED
    BY <1>3, <1>6, <2>1, <2>2
<1>7. CASE e.is = "capabilities" /\ cid /\ watching' = TRUE
           /\ UNCHANGED <<playing, sink_volume, sink_gain, toSource>>
  BY <1>4, <1>7 DEF AvrcpInv, AvrcpTypeOK
<1>8. CASE e.is = "status" /\ cid /\ playing' = (e.status = "playing")
           /\ UNCHANGED <<sink_volume, sink_gain, watching, toSource>>
  BY <1>4, <1>8 DEF AvrcpInv, AvrcpTypeOK
<1> QED
  BY <1>5, <1>6, <1>7, <1>8 DEF HandleEvent, e

LEMMA AvrcpStep == AvrcpInv /\ [AvrcpNext]_avrcpVars => AvrcpInv'
<1> SUFFICES ASSUME AvrcpInv, [AvrcpNext]_avrcpVars PROVE AvrcpInv'
  OBVIOUS
<1> USE DEF AvrcpInv, AvrcpTypeOK
<1>1. CASE Established
  <2>1. [is |-> "capabilities"] \in Events
    BY DEF Events
  <2>2. /\ toBox' \in Seq(Events) /\ toSource' \in Seq(Volumes)
        /\ toSource' # <<>> /\ toSource'[Len(toSource')] = sink_volume
    BY <1>1, <2>1 DEF Established
  <2>3. NewestShown' = sink_volume
    BY <2>2 DEF NewestShown
  <2> QED
    BY <1>1, <2>2, <2>3 DEF Established
<1>2. CASE ConnectFails
  BY <1>2 DEF ConnectFails
<1>3. CASE Released
  <2>1. toBox' \in Seq(Events) /\ toSource' \in Seq(Volumes)
    BY <1>3, NothingQueued DEF Released
  <2>2. connected' = FALSE /\ cid' = FALSE /\ watching' = FALSE
    BY <1>3 DEF Released
  <2>3. UNCHANGED <<playing, sink_volume, sink_gain, slider>>
    BY <1>3 DEF Released
  <2> QED
    BY <2>1, <2>2, <2>3
<1>4. CASE HandleEvent
  BY <1>4, AvrcpHandle
<1>5. ASSUME NEW e \in Events, SendToBox(e)
      PROVE  /\ toBox' \in Seq(Events)
             /\ AskedFor => AskedFor'
             /\ e.is \in {"absolute", "button"} => AskedFor'
  <2>1. /\ toBox' \in Seq(Events) /\ Len(toBox') = Len(toBox) + 1 /\ toBox'[Len(toBox) + 1] = e
        /\ \A k \in DOMAIN toBox : k \in DOMAIN toBox' /\ toBox'[k] = toBox[k]
    BY <1>5 DEF SendToBox
  <2>2. Len(toBox) + 1 \in DOMAIN toBox'
    BY <2>1
  <2> QED
    BY <2>1, <2>2 DEF AskedFor
<1>6. ASSUME NEW v \in Absolutes, Slide(v) PROVE AvrcpInv'
  <2>1. v \in Volumes /\ SetTo(v) \in Events /\ SetTo(v).is = "absolute"
    BY VolumeAssumption DEF Volumes, SetTo, Events
  <2>2. toBox' \in Seq(Events) /\ AskedFor'
    BY <1>5, <1>6, <2>1 DEF Slide
  <2> QED
    BY <1>6, <2>1, <2>2 DEF Slide
<1>7. ASSUME NEW button \in Buttons, Press(button) PROVE AvrcpInv'
  <2> DEFINE e == [is |-> "button", button |-> button]
  <2>1. e \in Events /\ e.is = "button"
    BY DEF Events
  <2>2. toBox' \in Seq(Events) /\ AskedFor'
    BY <1>5, <1>7, <2>1 DEF Press
  <2> QED
    BY <1>7, <2>2 DEF Press
<1>8. ASSUME NEW status \in Statuses, PlayOrPause(status) PROVE AvrcpInv'
  <2> DEFINE e == [is |-> "status", status |-> status]
  <2>1. e \in Events
    BY DEF Events
  <2>2. toBox' \in Seq(Events) /\ (AskedFor => AskedFor')
    BY <1>5, <1>8, <2>1 DEF PlayOrPause
  <2>3. NewestShown' = NewestShown
    BY <1>8 DEF PlayOrPause, NewestShown
  <2> QED
    BY <1>8, <2>2, <2>3 DEF PlayOrPause
<1>9. CASE Show
  <2>1. /\ toSource \in Seq(Volumes) /\ toSource # <<>>
        /\ slider' = Head(toSource) /\ toSource' = Tail(toSource)
    BY <1>9 DEF Show
  <2>2. /\ slider' \in Volumes /\ toSource' \in Seq(Volumes)
        /\ toSource' = <<>> => slider' = toSource[Len(toSource)]
        /\ toSource' # <<>> => toSource'[Len(toSource')] = toSource[Len(toSource)]
    BY <2>1, NewestStays
  <2>3. NewestShown' = NewestShown
    BY <2>1, <2>2 DEF NewestShown
  <2>4. AskedFor' <=> AskedFor
    BY <1>9 DEF Show, AskedFor
  <2> QED
    BY <1>9, <2>2, <2>3, <2>4 DEF Show
<1>10. CASE UNCHANGED avrcpVars
  BY <1>10 DEF avrcpVars, AskedFor, NewestShown
<1> QED
  BY <1>1, <1>2, <1>3, <1>4, <1>6, <1>7, <1>8, <1>9, <1>10 DEF AvrcpNext

\* Box and source are at one volume whenever nothing is on its way, for any scale,
\* any step of the buttons and any queues.
THEOREM OneVolume == AvrcpSpec => []HeardAsShown
<1>1. AvrcpInit => AvrcpInv
  <2>1. FullVolume \in Volumes /\ FullVolume + 1 \in 1 .. FullVolume + 1
    BY VolumeAssumption DEF Volumes
  <2> SUFFICES ASSUME AvrcpInit PROVE AvrcpInv
    OBVIOUS
  <2>2. toBox \in Seq(Events) /\ toSource \in Seq(Volumes)
    BY NothingQueued DEF AvrcpInit
  <2>3. connected = FALSE /\ sink_gain = sink_volume + 1
    BY DEF AvrcpInit
  <2> QED
    BY <2>1, <2>2, <2>3 DEF AvrcpInit, AvrcpInv, AvrcpTypeOK
<1>2. AvrcpInv => HeardAsShown
  BY DEF AvrcpInv, HeardAsShown, AskedFor, NewestShown
<1> QED
  BY <1>1, <1>2, AvrcpStep, PTL DEF AvrcpSpec
-----------------------------------------------------------------------------
(***************************************************************************)
(* SbcFrames.  A frame is no larger than that of two channels whose        *)
(* samples are coded on their own at the highest bitpool; the eight sizes  *)
(* of frame there are, are gone through one by one.                        *)
(***************************************************************************)
FramesInv ==
  /\ sbc \in Configurations
  /\ bitpool \in 2 .. AdvertisedMaxBitpool

Subbands == {4, 8}
Blocks   == {4, 8, 12, 16}

\* The largest frame of so many subbands and blocks.
Largest(s, n) == 4 + s + RoundUp(n * 106)

LEMMA LargestIs ==
  /\ Largest(4, 4) = 61 /\ Largest(4, 8) = 114 /\ Largest(4, 12) = 167 /\ Largest(4, 16) = 220
  /\ Largest(8, 4) = 65 /\ Largest(8, 8) = 118 /\ Largest(8, 12) = 171 /\ Largest(8, 16) = 224
BY DEF Largest, RoundUp

\* What is queued, with a packet more, for the two bounds on what playback holds.
Packets(s, n, frames) == (frames * 128 + n * s - 1) \div (n * s) + 15

LEMMA PacketsAre ==
  /\ Packets(4, 4, 30) = 255 /\ Packets(4, 4, 41) = 343
  /\ Packets(4, 8, 30) = 135 /\ Packets(4, 8, 41) = 179
  /\ Packets(4, 12, 30) = 95 /\ Packets(4, 12, 41) = 125
  /\ Packets(4, 16, 30) = 75 /\ Packets(4, 16, 41) = 97
  /\ Packets(8, 4, 30) = 135 /\ Packets(8, 4, 41) = 179
  /\ Packets(8, 8, 30) = 75 /\ Packets(8, 8, 41) = 97
  /\ Packets(8, 12, 30) = 55 /\ Packets(8, 12, 41) = 70
  /\ Packets(8, 16, 30) = 45 /\ Packets(8, 16, 41) = 56
BY DEF Packets

LEMMA SizesAre == MaxFrameSize = 224 /\ Storage = 26240
<1>1. MaxFrameSize = 224
  BY DEF MaxFrameSize, FrameBytes, RoundUp, AdvertisedMaxBitpool
<1>2. FrameBytes(2, 4, 4 * 2 * AdvertisedMaxBitpool) = 61
  BY DEF FrameBytes, RoundUp, AdvertisedMaxBitpool
<1>3. MaxBytesPerFullFrame = 488
  BY <1>2 DEF MaxBytesPerFullFrame, FullFrameSamples
<1> QED
  BY <1>1, <1>3 DEF Storage, OptimalFramesMax, AdditionalFrames

LEMMA AFrameIsAtMost ==
  ASSUME NEW s \in Subbands, NEW n \in Blocks, NEW b \in 2 .. AdvertisedMaxBitpool,
         NEW channels \in 1 .. 2,
         NEW bits \in Nat, bits <= n * 2 * b \/ bits <= s + n * b
  PROVE  FrameBytes(channels, s, bits) \in 0 .. Largest(s, n)
<1>1. bits <= n * 106
  <2>1. n * b <= n * 53 /\ n * b \in Nat /\ n * 2 * b = 2 * (n * b) /\ s <= n * 53
    BY DEF Blocks, Subbands, AdvertisedMaxBitpool
  <2> QED
    BY <2>1 DEF Blocks, Subbands
<1>2. RoundUp(bits) \in 0 .. RoundUp(n * 106)
  BY <1>1 DEF RoundUp, Blocks
<1>3. (4 * s * channels) \div 8 \in 0 .. s
  BY DEF Subbands
<1>4. s \in Nat /\ RoundUp(n * 106) \in Nat
  BY DEF Subbands, Blocks, RoundUp
<1> QED
  BY <1>2, <1>3, <1>4 DEF FrameBytes, Largest

LEMMA FrameIsAtMost ==
  FramesInv => SbcFrameBytes(sbc, bitpool) \in 0 .. Largest(sbc.subbands, sbc.blocks)
<1> SUFFICES ASSUME FramesInv
             PROVE  SbcFrameBytes(sbc, bitpool) \in 0 .. Largest(sbc.subbands, sbc.blocks)
  OBVIOUS
<1> DEFINE s == sbc.subbands
           n == sbc.blocks
           bits == AudioBits(sbc, bitpool)
<1>1. s \in Subbands /\ n \in Blocks /\ bitpool \in 2 .. AdvertisedMaxBitpool
  BY DEF FramesInv, Configurations, Subbands, Blocks
<1>2. Channels(sbc) \in 1 .. 2
  BY DEF Channels
<1>3. n * bitpool \in Nat /\ n * 2 * bitpool = 2 * (n * bitpool)
  BY <1>1 DEF Blocks, AdvertisedMaxBitpool
<1>4. n * Channels(sbc) * bitpool \in {n * bitpool, 2 * (n * bitpool)}
  BY <1>1, <1>3 DEF Channels, Blocks, AdvertisedMaxBitpool
<1>5. bits \in Nat /\ (bits <= n * 2 * bitpool \/ bits <= s + n * bitpool)
  BY <1>1, <1>3, <1>4 DEF AudioBits, Subbands
<1> HIDE DEF s, n, bits
<1>6. FrameBytes(Channels(sbc), s, bits) \in 0 .. Largest(s, n)
  BY <1>1, <1>2, <1>5, AFrameIsAtMost
<1> QED
  BY <1>6 DEF SbcFrameBytes, s, n, bits

\* Size by size: it fits, and what is queued with a packet more has room.
LEMMA SizeBySize ==
  ASSUME NEW s \in Subbands, NEW n \in Blocks, NEW f \in 0 .. Largest(s, n)
  PROVE  /\ f <= MaxFrameSize
         /\ Packets(s, n, 30) * f <= Storage /\ Packets(s, n, 41) * f <= Storage
<1>1. CASE s = 4 /\ n = 4
  BY <1>1, LargestIs, PacketsAre, SizesAre
<1>2. CASE s = 4 /\ n = 8
  BY <1>2, LargestIs, PacketsAre, SizesAre
<1>3. CASE s = 4 /\ n = 12
  BY <1>3, LargestIs, PacketsAre, SizesAre
<1>4. CASE s = 4 /\ n = 16
  BY <1>4, LargestIs, PacketsAre, SizesAre
<1>5. CASE s = 8 /\ n = 4
  BY <1>5, LargestIs, PacketsAre, SizesAre
<1>6. CASE s = 8 /\ n = 8
  BY <1>6, LargestIs, PacketsAre, SizesAre
<1>7. CASE s = 8 /\ n = 12
  BY <1>7, LargestIs, PacketsAre, SizesAre
<1>8. CASE s = 8 /\ n = 16
  BY <1>8, LargestIs, PacketsAre, SizesAre
<1> QED
  BY <1>1, <1>2, <1>3, <1>4, <1>5, <1>6, <1>7, <1>8 DEF Subbands, Blocks

LEMMA RoomForAll == FramesInv => SizesSuffice
<1> SUFFICES ASSUME FramesInv PROVE SizesSuffice
  OBVIOUS
<1> DEFINE s == sbc.subbands
           n == sbc.blocks
           f == SbcFrameBytes(sbc, bitpool)
<1>1. s \in Subbands /\ n \in Blocks /\ f \in 0 .. Largest(s, n)
  BY FrameIsAtMost DEF FramesInv, Configurations, Subbands, Blocks
<1>2. \A frames \in {30, 41} :
        BytesBelow(frames) = ((frames * 128 + n * s - 1) \div (n * s)) * f - 1
  BY DEF BytesBelow, FullFrameSamples
<1> HIDE DEF s, n, f
<1>3. f \in Nat /\ Largest(s, n) \in Nat
  BY <1>1, LargestIs DEF Subbands, Blocks
<1>4. n * s \in Nat \ {0}
  BY <1>1 DEF Subbands, Blocks
<1>5. \A frames \in {30, 41} : (frames * 128 + n * s - 1) \div (n * s) \in Nat
  BY <1>1 DEF Subbands, Blocks
<1>6. \A frames \in {30, 41} :
        BytesBelow(frames) + 15 * f = Packets(s, n, frames) * f - 1
  <2> SUFFICES ASSUME NEW frames \in {30, 41}
               PROVE  BytesBelow(frames) + 15 * f = Packets(s, n, frames) * f - 1
    OBVIOUS
  <2> DEFINE q == (frames * 128 + n * s - 1) \div (n * s)
  <2>1. q \in Nat /\ BytesBelow(frames) = q * f - 1 /\ Packets(s, n, frames) = q + 15
    BY <1>2, <1>5 DEF Packets
  <2> HIDE DEF q
  <2>2. (q + 15) * f = q * f + 15 * f
    BY <1>3, <2>1
  <2> QED
    BY <1>3, <2>1, <2>2
<1>7. /\ f <= MaxFrameSize
      /\ Packets(s, n, 30) * f <= Storage /\ Packets(s, n, 41) * f <= Storage
  BY <1>1, SizeBySize
<1>8. BytesBelow(30) + 15 * f <= Storage /\ BytesBelow(41) + 15 * f <= Storage
  <2>1. \A frames \in {30, 41} : Packets(s, n, frames) * f \in Nat
    BY <1>3, <1>5 DEF Packets
  <2> QED
    BY <1>6, <1>7, <2>1, SizesAre
<1> QED
  BY <1>7, <1>8
  DEF SizesSuffice, FramesFit, RoomAtTarget, MaxFramesPerPacket, StartFrames,
      OptimalFramesMax, f

\* Nothing of what a source may send is too large for the buffers, at any bitpool.
THEOREM BuffersSuffice == FramesSpec => []SizesSuffice
<1>1. FramesInit => FramesInv
  BY BitpoolAssumption DEF FramesInit, FramesInv, Configurations
<1>2. FramesInv /\ [FramesNext]_framesVars => FramesInv'
  BY BitpoolAssumption
  DEF FramesInv, FramesNext, framesVars, Adapt, Reconfigure, Configurations
<1> QED
  BY <1>1, <1>2, RoomForAll, PTL DEF FramesSpec
-----------------------------------------------------------------------------
(***************************************************************************)
(* Charger.  While nothing is judged the clock has not wrapped, the last   *)
(* sample is the newest, and the run of SE1 the record keeps is the        *)
(* longest there is: it began with the earliest sample of any run that     *)
(* reaches the newest.                                                     *)
(***************************************************************************)
SampleSet == [at : Nat, se1 : BOOLEAN, addressed : BOOLEAN]

\* From k on, SE1 in time and without a gap.
RunFrom(s, k) ==
  /\ \A j \in k .. Len(s) : s[j].se1 /\ s[j].at <= Window
  /\ \A j \in k .. Len(s) - 1 : s[j + 1].at - s[j].at <= MaxGap

Judging ==
  /\ ~ charger.host_seen /\ now <= LastTime /\ charger.last = now
  /\ samples # <<>> => charger.have_last /\ samples[Len(samples)].at = now
  /\ \A i \in DOMAIN samples :
       /\ ~ samples[i].addressed /\ samples[i].at <= now
       /\ no_host # 0 => samples[i].at < no_host
  /\ charger.se1_run =>
       \E i \in DOMAIN samples : RunFrom(samples, i) /\ samples[i].at = charger.se1_since
  /\ \A i \in DOMAIN samples :
       RunFrom(samples, i) => charger.se1_run /\ charger.se1_since <= samples[i].at

ChargerInv ==
  /\ VerdictIsEvidence
  /\ verdict = "keep_going" /\ ~ retired => Judging

\* A run goes on with a sample that is SE1, in time and near enough, or starts with it.
LEMMA RunGoesOn ==
  ASSUME NEW s \in Seq(SampleSet), NEW x \in SampleSet
  PROVE  LET t == Append(s, x) IN
         /\ t \in Seq(SampleSet) /\ Len(t) = Len(s) + 1 /\ t[Len(t)] = x
         /\ \A k \in DOMAIN s : t[k] = s[k]
         /\ RunFrom(t, Len(t)) <=> x.se1 /\ x.at <= Window
         /\ \A k \in DOMAIN s :
              RunFrom(t, k) <=>
                RunFrom(s, k) /\ x.se1 /\ x.at <= Window /\ x.at - s[Len(s)].at <= MaxGap
<1> DEFINE t == Append(s, x)
           n == Len(s)
<1>1. /\ t \in Seq(SampleSet) /\ n \in Nat /\ Len(t) = n + 1 /\ t[n + 1] = x
      /\ DOMAIN s = 1 .. n /\ \A k \in 1 .. n : t[k] = s[k]
  OBVIOUS
<1> HIDE DEF t, n
<1>2. RunFrom(t, n + 1) <=> x.se1 /\ x.at <= Window
  BY <1>1 DEF RunFrom
<1>3. ASSUME NEW k \in 1 .. n
      PROVE  RunFrom(t, k) <=>
               RunFrom(s, k) /\ x.se1 /\ x.at <= Window /\ x.at - s[n].at <= MaxGap
  <2>1. (\A j \in k .. n + 1 : t[j].se1 /\ t[j].at <= Window)
          <=> (\A j \in k .. n : s[j].se1 /\ s[j].at <= Window) /\ x.se1 /\ x.at <= Window
    BY <1>1
  <2>2. (\A j \in k .. n : t[j + 1].at - t[j].at <= MaxGap)
          <=> (\A j \in k .. n - 1 : s[j + 1].at - s[j].at <= MaxGap) /\ x.at - s[n].at <= MaxGap
    <3>1. t[n + 1].at - t[n].at = x.at - s[n].at /\ n \in k .. n
      BY <1>1
    <3>2. \A j \in k .. n - 1 : t[j + 1].at - t[j].at = s[j + 1].at - s[j].at /\ j \in k .. n
      BY <1>1
    <3>3. \A j \in k .. n : j = n \/ j \in k .. n - 1
      BY <1>1
    <3> QED
      BY <3>1, <3>2, <3>3
  <2> QED
    BY <1>1, <2>1, <2>2 DEF RunFrom, n
<1> QED
  BY <1>1, <1>2, <1>3 DEF t, n
\* A pass that comes while judging: the clock tells the true time.
LEMMA OnTime ==
  ASSUME ChargerTypeOK, Judging, NEW gap \in Gaps, now' = now + gap, now' <= MaxTime
  PROVE  /\ gap \in Nat \ {0} /\ now \in Nat /\ now' \in Nat /\ now' \in 0 .. MaxTime
         /\ now' % Wrap = now' /\ now' \in 0 .. Wrap - 1
         /\ now' <= LastTime + gap /\ no_host \in Nat /\ LastTime \in Nat
         /\ Window \in Nat /\ Width \in Nat \ {0} /\ now' < Width
<1>1. /\ gap \in Nat \ {0} /\ now \in Nat /\ MaxTime \in Nat /\ Wrap \in Nat /\ Width \in Nat
      /\ Window \in Nat /\ no_host \in NoHosts /\ no_host \in Nat
  BY TimeAssumption DEF ChargerTypeOK
<1>2. LastTime \in NoHosts \cup {Window} /\ LastTime \in Nat /\ now <= LastTime
  BY <1>1 DEF LastTime, Later, Judging
<1>3. LastTime + gap < Wrap /\ Wrap < Width
  BY <1>2, TimeAssumption
<1>4. now' \in 0 .. Wrap - 1 /\ Wrap \in Nat \ {0}
  BY <1>1, <1>2, <1>3
<1>5. now' % Wrap = now'
  BY <1>4, ModSmall
<1> QED
  BY <1>1, <1>2, <1>3, <1>4, <1>5

LEMMA ChargerJudges ==
  ASSUME ChargerInv, ~ retired, NEW gap \in Gaps, NEW se1 \in BOOLEAN, NEW addressed \in BOOLEAN,
         ChargerCheck(gap, se1, addressed)
  PROVE  ChargerInv'
<1> DEFINE x == [at |-> now', se1 |-> se1, addressed |-> addressed]
           n == Len(samples)
<1>1. ChargerTypeOK /\ Judging /\ now' = now + gap /\ now' <= MaxTime /\ no_host' = no_host
  BY DEF ChargerInv, VerdictIsEvidence, ChargerCheck, ChargerTypeOK
<1>2. /\ gap \in Nat \ {0} /\ now \in Nat /\ now' \in Nat /\ now' \in 0 .. MaxTime
      /\ now' % Wrap = now' /\ now' \in 0 .. Wrap - 1
      /\ now' <= LastTime + gap /\ no_host \in Nat /\ LastTime \in Nat
      /\ Window \in Nat /\ Width \in Nat \ {0} /\ now' < Width
  BY <1>1, OnTime
<1>3. LastTime' = LastTime
  BY <1>1 DEF LastTime
<1>4. /\ charger' = StepTo(charger, now', se1, addressed)
      /\ verdict' = Judge(charger, now', se1, addressed)
      /\ retired' = (verdict' = "keep_going" /\ Retire(now', addressed))
      /\ samples' = Append(samples, x)
  BY <1>2 DEF ChargerCheck
<1>5. x \in SampleSet /\ samples \in Seq(SampleSet)
  BY <1>1, <1>2 DEF SampleSet, ChargerTypeOK
<1>6. /\ samples' \in Seq(SampleSet) /\ Len(samples') = n + 1 /\ n \in Nat
      /\ samples'[n + 1] = x /\ DOMAIN samples = 1 .. n /\ DOMAIN samples' = 1 .. n + 1
      /\ \A k \in 1 .. n : samples'[k] = samples[k]
      /\ RunFrom(samples', n + 1) <=> se1 /\ now' <= Window
      /\ \A k \in 1 .. n :
           RunFrom(samples', k) <=>
             RunFrom(samples, k) /\ se1 /\ now' <= Window /\ now' - samples[n].at <= MaxGap
  <2> HIDE DEF x
  <2>1. x.at = now' /\ x.se1 = se1
    BY DEF x
  <2> QED
    BY <1>4, <1>5, <2>1, RunGoesOn
<1>7. charger.host_seen = FALSE /\ charger \in [se1_run : BOOLEAN, host_seen : BOOLEAN,
        se1_since : 0 .. Window, last : 0 .. Wrap - 1, have_last : BOOLEAN]
  BY <1>1 DEF Judging, ChargerTypeOK
<1>8. retired' \in BOOLEAN /\ no_host' \in NoHosts
  BY <1>1, <1>4 DEF ChargerTypeOK, Retire
<1>9. CASE addressed
  <2>1. charger' = [charger EXCEPT !.host_seen = TRUE] /\ verdict' = "keep_going" /\ retired'
    BY <1>4, <1>7, <1>9 DEF StepTo, Judge, Retire
  <2>2. ~ NoHostYet'
    BY <1>6, <1>9 DEF NoHostYet
  <2>3. ChargerTypeOK'
    <3>1. charger' \in [se1_run : BOOLEAN, host_seen : BOOLEAN, se1_since : 0 .. Window,
                        last : 0 .. Wrap - 1, have_last : BOOLEAN]
      BY <1>7, <2>1
    <3>2. charger'.last = charger.last
      BY <1>7, <2>1
    <3> QED
      BY <1>1, <1>2, <1>3, <1>6, <1>8, <2>1, <3>1, <3>2 DEF ChargerTypeOK, SampleSet, Verdicts
  <2> QED
    BY <2>1, <2>2, <2>3 DEF ChargerInv, VerdictIsEvidence
<1>10. CASE ~ addressed /\ no_host # 0 /\ now' >= no_host
  <2>1. charger' = charger /\ verdict' = "no_host"
    BY <1>4, <1>7, <1>10 DEF StepTo, Judge
  <2>2. ChargerTypeOK'
    BY <1>1, <1>2, <1>3, <1>6, <1>8, <2>1 DEF ChargerTypeOK, SampleSet, Verdicts
  <2>3. NoHostYet'
    BY <1>1, <1>6, <1>10 DEF NoHostYet, Judging
  <2>4. /\ \E i \in DOMAIN samples' : samples'[i].at >= no_host
        /\ ~ samples'[Len(samples')].at < no_host
    BY <1>2, <1>6, <1>10
  <2> QED
    BY <1>1, <1>10, <2>1, <2>2, <2>3, <2>4 DEF ChargerInv, VerdictIsEvidence
<1>11. CASE ~ addressed /\ ~ (no_host # 0 /\ now' >= no_host)
  <2> DEFINE run == se1 /\ now' <= Window
             since == IF Unbroken(charger, now') THEN charger.se1_since ELSE now'
  <2>1. /\ charger'.host_seen = FALSE /\ charger'.last = now' /\ charger'.have_last = TRUE
        /\ charger'.se1_run = run
        /\ charger'.se1_since = IF run THEN since ELSE charger.se1_since
    BY <1>4, <1>7, <1>11 DEF StepTo
  <2>2. charger' \in [se1_run : BOOLEAN, host_seen : BOOLEAN, se1_since : 0 .. Window,
                      last : 0 .. Wrap - 1, have_last : BOOLEAN]
    <3>1. charger' = [charger EXCEPT !.host_seen = charger.host_seen \/ addressed,
                        !.last = now', !.have_last = TRUE, !.se1_run = run,
                        !.se1_since = IF run THEN since ELSE charger.se1_since]
      BY <1>4, <1>7, <1>11 DEF StepTo
    <3>2. /\ run \in BOOLEAN /\ now' \in 0 .. Wrap - 1
          /\ (IF run THEN since ELSE charger.se1_since) \in 0 .. Window
      BY <1>2, <1>7
    <3> HIDE DEF run, since
    <3> QED
      BY <1>7, <3>1, <3>2
  <2>3. charger.se1_run =>
          \E i \in 1 .. n : RunFrom(samples, i) /\ samples[i].at = charger.se1_since
    BY <1>1, <1>6 DEF Judging
  <2>4. \A i \in 1 .. n : samples[i].at \in Nat /\ samples[i].at <= now
    <3>1. \A i \in 1 .. n : samples[i] \in SampleSet
      BY <1>5
    <3> QED
      BY <1>1, <1>6, <3>1 DEF Judging, SampleSet
  <2>5. n # 0 => charger.have_last /\ samples[n].at = now
    BY <1>1, <1>5 DEF Judging
  <2>6. Unbroken(charger, now') <=> charger.se1_run /\ gap <= MaxGap
    <3>1. Minus(now', charger.last) = gap
      <4>1. gap \in 0 .. Width - 1 /\ now' - charger.last = gap
        BY <1>1, <1>2 DEF Judging
      <4> QED
        BY <1>2, <4>1, ModSmall DEF Minus
    <3>2. charger.se1_run => charger.have_last
      BY <2>3, <2>5
    <3>3. MaxGap \in Nat
      BY TimeAssumption
    <3> QED
      BY <1>2, <3>1, <3>2, <3>3 DEF Unbroken
  <2>7. n # 0 => now' - samples[n].at = gap
    BY <1>1, <1>2, <2>5
  <2>8. charger'.se1_run =>
          \E i \in 1 .. n + 1 : RunFrom(samples', i) /\ samples'[i].at = charger'.se1_since
    <3> SUFFICES ASSUME run
                 PROVE  \E i \in 1 .. n + 1 :
                          RunFrom(samples', i) /\ samples'[i].at = charger'.se1_since
      BY <2>1
    <3>1. CASE Unbroken(charger, now')
      <4>1. PICK i \in 1 .. n : RunFrom(samples, i) /\ samples[i].at = charger.se1_since
        BY <2>3, <2>6, <3>1
      <4>2. RunFrom(samples', i) /\ samples'[i] = samples[i] /\ i \in 1 .. n + 1
        BY <1>6, <2>6, <2>7, <3>1, <4>1
      <4> QED
        BY <2>1, <3>1, <4>1, <4>2
    <3>2. CASE ~ Unbroken(charger, now')
      <4>1. RunFrom(samples', n + 1) /\ samples'[n + 1].at = now' /\ n + 1 \in 1 .. n + 1
        BY <1>6
      <4> QED
        BY <2>1, <3>2, <4>1
    <3> QED
      BY <3>1, <3>2
  <2>9. \A i \in 1 .. n + 1 :
          RunFrom(samples', i) => charger'.se1_run /\ charger'.se1_since <= samples'[i].at
    <3> SUFFICES ASSUME NEW i \in 1 .. n + 1, RunFrom(samples', i)
                 PROVE  charger'.se1_run /\ charger'.se1_since <= samples'[i].at
      OBVIOUS
    <3>1. CASE i = n + 1
      <4>1. run /\ samples'[i].at = now'
        BY <1>6, <3>1
      <4>2. Unbroken(charger, now') => charger.se1_since <= now
        BY <2>3, <2>4, <2>6
      <4>3. since <= now'
        BY <1>1, <1>2, <1>7, <4>2
      <4> QED
        BY <2>1, <4>1, <4>3
    <3>2. CASE i # n + 1
      <4>1. i \in 1 .. n
        BY <1>6, <3>2
      <4>2. RunFrom(samples, i) /\ run /\ gap <= MaxGap /\ samples'[i] = samples[i]
        BY <1>6, <2>7, <4>1
      <4>3. charger.se1_run /\ charger.se1_since <= samples[i].at
        BY <1>1, <1>6, <4>1, <4>2 DEF Judging
      <4> QED
        BY <2>1, <2>6, <4>2, <4>3
    <3> QED
      BY <3>1, <3>2
  <2>10. \A i \in 1 .. n + 1 : samples'[i].at \in Nat /\ samples'[i].at <= now'
    <3> SUFFICES ASSUME NEW i \in 1 .. n + 1
                 PROVE  samples'[i].at \in Nat /\ samples'[i].at <= now'
      OBVIOUS
    <3>1. CASE i = n + 1
      BY <1>2, <1>6, <3>1
    <3>2. CASE i # n + 1
      <4>1. i \in 1 .. n
        BY <1>6, <3>2
      <4> QED
        BY <1>1, <1>2, <1>6, <2>4, <4>1
    <3> QED
      BY <3>1, <3>2
  <2>11. Held' <=> charger'.se1_run /\ now' - charger'.se1_since >= Se1Time
    <3>1. Held' <=> \E i \in 1 .. n + 1 :
                      RunFrom(samples', i) /\ now' - samples'[i].at >= Se1Time
      <4>1. Held' <=> \E i \in DOMAIN samples' :
                        /\ RunFrom(samples', i)
                        /\ samples'[Len(samples')].at - samples'[i].at >= Se1Time
        BY DEF Held, RunFrom
      <4>2. samples'[Len(samples')].at = now' /\ DOMAIN samples' = 1 .. n + 1
        BY <1>6
      <4> QED
        BY <4>1, <4>2
    <3>2. charger'.se1_since \in Nat /\ Se1Time \in Nat
      BY <1>2, <2>2, TimeAssumption
    <3> QED
      BY <1>2, <2>8, <2>9, <2>10, <3>1, <3>2
  <2>12. NoHostYet'
    BY <1>1, <1>6, <1>11 DEF NoHostYet, Judging
  <2>13. \A i \in 1 .. n + 1 : no_host # 0 => samples'[i].at < no_host
    BY <1>2, <1>11, <2>10
  <2>14. verdict' = "charger" <=> charger'.se1_run /\ now' - charger'.se1_since >= Se1Time
    <3>1. charger'.se1_run => charger'.se1_since \in 0 .. now'
      BY <2>2, <2>8, <2>10
    <3>2. charger'.se1_run => Minus(now', charger'.se1_since) = now' - charger'.se1_since
      <4>1. ASSUME charger'.se1_run
            PROVE  now' - charger'.se1_since \in 0 .. Width - 1
        BY <1>2, <3>1, <4>1
      <4> QED
        BY <1>2, <4>1, ModSmall DEF Minus
    <3>3. Judge(charger, now', se1, addressed) =
            IF charger'.se1_run /\ Minus(now', charger'.se1_since) >= Se1Time
            THEN "charger" ELSE "keep_going"
      BY <1>4, <1>11, <2>1 DEF Judge
    <3> QED
      BY <1>4, <3>2, <3>3
  <2>15. verdict' \in {"charger", "keep_going"}
    BY <1>4, <1>11, <2>1 DEF Judge
  <2>16. ChargerTypeOK'
    <3>1. \E g \in Gaps : charger'.last <= LastTime' + g
      BY <1>2, <1>3, <2>1
    <3> QED
      BY <1>1, <1>2, <1>6, <1>8, <2>2, <2>15, <3>1 DEF ChargerTypeOK, SampleSet, Verdicts
  <2>17. VerdictIsEvidence'
    <3>1. Len(samples') \in DOMAIN samples' /\ DOMAIN samples' = 1 .. n + 1
      BY <1>6
    <3>2. no_host' # 0 => samples'[Len(samples')].at < no_host'
      BY <1>1, <1>6, <2>13, <3>1
    <3>3. ~ (no_host' # 0 /\ \E i \in DOMAIN samples' : samples'[i].at >= no_host')
      BY <1>1, <1>2, <2>10, <2>13, <3>1
    <3>4. verdict' = "charger" <=> Held'
      BY <2>11, <2>14
    <3> QED
      BY <2>12, <2>15, <2>16, <3>2, <3>3, <3>4 DEF VerdictIsEvidence
  <2>18. verdict' = "keep_going" /\ ~ retired' => now' <= LastTime'
    <3>1. verdict' = "keep_going" /\ ~ retired' => ~ Retire(now', addressed)
      BY <1>4
    <3> QED
      BY <1>2, <1>3, <3>1 DEF Retire
  <2>19. now' <= LastTime' => Judging'
    <3>1. samples' # <<>> => charger'.have_last /\ samples'[Len(samples')].at = now'
      BY <1>6, <2>1
    <3>2. \A i \in 1 .. n + 1 : ~ samples'[i].addressed
      BY <1>6, <2>12 DEF NoHostYet
    <3> QED
      BY <1>1, <1>6, <2>1, <2>8, <2>9, <2>10, <2>13, <3>1, <3>2 DEF Judging
  <2> QED
    BY <2>17, <2>18, <2>19 DEF ChargerInv
<1> QED
  BY <1>9, <1>10, <1>11

LEMMA ChargerStep == ChargerInv /\ [ChargerNext]_chargerVars => ChargerInv'
<1> SUFFICES ASSUME ChargerInv, [ChargerNext]_chargerVars PROVE ChargerInv'
  OBVIOUS
<1>1. CASE UNCHANGED chargerVars
  BY <1>1
  DEF chargerVars, ChargerInv, VerdictIsEvidence, ChargerTypeOK, LastTime, NoHostYet, Held,
      Judging, RunFrom
<1>2. CASE Stop
  BY <1>1, <1>2 DEF Stop
<1>3. ASSUME NEW gap \in Gaps, NEW se1 \in BOOLEAN, NEW addressed \in BOOLEAN,
             ChargerCheck(gap, se1, addressed)
      PROVE  ChargerInv'
  <2>1. CASE ~ retired
    BY <1>3, <2>1, ChargerJudges
  <2>2. CASE retired
    <3>1. UNCHANGED <<charger, retired, verdict, samples, no_host>> /\ now' = now + gap
          /\ now' <= MaxTime
      BY <1>3, <2>2 DEF ChargerCheck
    <3>2. now \in 0 .. MaxTime /\ MaxTime \in Nat /\ gap \in Nat
      BY TimeAssumption DEF ChargerInv, VerdictIsEvidence, ChargerTypeOK
    <3>3. now' \in 0 .. MaxTime
      BY <3>1, <3>2
    <3> QED
      BY <2>2, <3>1, <3>3
      DEF ChargerInv, VerdictIsEvidence, ChargerTypeOK, LastTime, NoHostYet, Held
  <2> QED
    BY <2>1, <2>2
<1> QED
  BY <1>1, <1>2, <1>3 DEF ChargerNext

\* The box is judged by what it has seen, for any window, times and pace of the
\* main loop that does not let a pass outlast the clock.
THEOREM JudgedByEvidence == ChargerSpec => []VerdictIsEvidence
<1>1. ChargerInit => ChargerInv
  <2> SUFFICES ASSUME ChargerInit PROVE ChargerInv
    OBVIOUS
  <2>1. samples = <<>> /\ DOMAIN samples = {} /\ samples \in Seq(SampleSet)
    BY EmptySeq DEF ChargerInit
  <2>2. PICK g \in Gaps : TRUE
    BY TimeAssumption
  <2>3. no_host \in Nat /\ Window \in Nat /\ g \in Nat /\ Wrap \in Nat \ {0} /\ MaxTime \in Nat
    <3>1. Window + g < Wrap
      BY <2>2, TimeAssumption
    <3> QED
      BY <3>1, TimeAssumption DEF ChargerInit
  <2>4. LastTime \in Nat
    BY <2>3 DEF LastTime, Later
  <2>5. ChargerTypeOK
    <3>1. charger.last = 0 /\ charger.last <= LastTime + g
      BY <2>3, <2>4 DEF ChargerInit
    <3>2. charger \in [se1_run : BOOLEAN, host_seen : BOOLEAN, se1_since : 0 .. Window,
                       last : 0 .. Wrap - 1, have_last : BOOLEAN]
      BY <2>3 DEF ChargerInit
    <3>3. now \in 0 .. MaxTime
      BY <2>3 DEF ChargerInit
    <3> QED
      BY <2>1, <3>1, <3>2, <3>3 DEF ChargerInit, ChargerTypeOK, Verdicts, SampleSet
  <2>6. Judging
    BY <2>1, <2>4 DEF ChargerInit, Judging
  <2>7. VerdictIsEvidence
    BY <2>1, <2>5 DEF ChargerInit, VerdictIsEvidence, Held
  <2> QED
    BY <2>6, <2>7 DEF ChargerInv
<1>2. ChargerInv => VerdictIsEvidence
  BY DEF ChargerInv
<1> QED
  BY <1>1, <1>2, ChargerStep, PTL DEF ChargerSpec
-----------------------------------------------------------------------------
(***************************************************************************)
(* SbcPipeline.  All that is in hand is two sequences: the samples heard   *)
(* next, which are in the buffer being filled and in the ring of decoded   *)
(* audio, and the bytes to come, which are in the decoder's chunk and in   *)
(* the SBC ring.  A step moves within one, takes from the front, adds at   *)
(* the end, or turns bytes at the front of the one into samples at the end *)
(* of the other.                                                           *)
(***************************************************************************)
Heard == (IF stage = "idle" THEN <<>> ELSE buffer) \o pcm
Coming == chunk \o ring

\* The stages of a fill: the decoder runs in the loop only, and what a fill lacks is
\* not in the ring of decoded audio.
FillInv ==
  /\ PipelineTypeOK /\ FillsWhole
  /\ stage # "decode" => chunk = <<>>
  /\ stage = "idle" => missing = 0
  /\ stage # "idle" => frame_size # 0 /\ buffer \in Seq(Frames)
  /\ missing > 0 => pcm = <<>>

\* Bytes as frames make them: in order; the last a frame's last; two frames' ends as
\* far apart as half of any size; and between bytes of two frames the end of one.
AsSent(s) ==
  /\ \A i, j \in 1 .. Len(s) : i <= j => s[i].frame <= s[j].frame
  /\ s # <<>> => s[Len(s)].last
  /\ \A i, j \in 1 .. Len(s) :
       i < j /\ s[i].last /\ s[j].last => \A size \in Sizes : size <= 2 * (j - i)
  /\ \A i, j \in 1 .. Len(s) :
       i < j /\ s[i].frame # s[j].frame => \E k \in i .. j - 1 : s[k].last

Ascending(s) == \A i, j \in 1 .. Len(s) : i <= j => s[i] <= s[j]

InOrder ==
  /\ played <= sent
  /\ Ascending(Heard) /\ AsSent(Coming)
  /\ \A i \in 1 .. Len(Heard) : Heard[i] \in played .. sent
  /\ \A i \in 1 .. Len(Coming) : Coming[i].frame \in played .. sent
  /\ \A i \in 1 .. Len(Heard), j \in 1 .. Len(Coming) : Heard[i] <= Coming[j].frame
  /\ \A f \in (played + 1 .. sent) \ refused :
       \/ \E i \in 1 .. Len(Heard) : Heard[i] = f
       \/ \E i \in 1 .. Len(Coming) : Coming[i].frame = f

\* A chunk completes two frames at most, and the ring of decoded audio has room
\* for what they leave.
Roomy ==
  /\ RoomForDecoded
  /\ \A i, j, k \in Completing : ~(i < j /\ j < k)
  /\ \A i, j \in Completing : i < j => pcm = <<>>
  /\ Completing # {} => Len(pcm) <= Samples + 1

PipelineInv == FillInv /\ InOrder /\ Roomy
-----------------------------------------------------------------------------
\* The bytes of a packet, and what their numbers say.
LEMMA ByteFrame ==
  ASSUME NEW size \in Nat \ {0}, NEW n \in Nat, NEW i \in 1 .. n * size
  PROVE  (i - 1) \div size \in 0 .. n - 1
<1> DEFINE q == (i - 1) \div size
           r == (i - 1) % size
<1>0. n * size \in Nat /\ i - 1 \in Nat
  OBVIOUS
<1>1. q \in Int /\ r \in 0 .. size - 1 /\ i - 1 = size * q + r
  BY <1>0
<1>2. i - 1 < n * size
  BY <1>0
<1> HIDE DEF q, r
<1>3. q >= n => size * q >= size * n
  BY <1>1
<1>4. q < 0 => size * q <= -size
  BY <1>1
<1>5. size * n = n * size
  OBVIOUS
<1>6. q < n
  BY <1>0, <1>1, <1>2, <1>3, <1>5
<1>7. q >= 0
  BY <1>0, <1>1, <1>4
<1> QED
  BY <1>1, <1>6, <1>7 DEF q

LEMMA BytesType ==
  ASSUME NEW first \in Nat \ {0}, NEW n \in Nat, NEW size \in Nat \ {0},
         first + n - 1 <= MaxFrames
  PROVE  /\ Bytes(first, n, size) \in Seq(SbcBytes)
         /\ Len(Bytes(first, n, size)) = n * size
         /\ \A i \in 1 .. n * size :
              /\ Bytes(first, n, size)[i].frame = first + (i - 1) \div size
              /\ Bytes(first, n, size)[i].last <=> i % size = 0
<1> DEFINE b == Bytes(first, n, size)
<1>1. n * size \in Nat /\ MaxFrames \in Nat
  BY SizeAssumption
<1>2. ASSUME NEW i \in 1 .. n * size
      PROVE  [frame |-> first + (i - 1) \div size, last |-> i % size = 0] \in SbcBytes
  <2>1. PICK q \in 0 .. n - 1 : q = (i - 1) \div size
    BY ByteFrame
  <2>2. first + q \in 1 .. MaxFrames
    BY <1>1
  <2> QED
    BY <2>1, <2>2 DEF SbcBytes, Frames
<1>3. b \in [1 .. n * size -> SbcBytes]
  BY <1>2, Zenon DEF Bytes
<1>4. b \in Seq(SbcBytes) /\ Len(b) = n * size
  BY <1>1, <1>3
<1>5. ASSUME NEW i \in 1 .. n * size
      PROVE  /\ b[i].frame = first + (i - 1) \div size
             /\ b[i].last <=> i % size = 0
  BY <1>5, Zenon DEF Bytes
<1> QED
  BY <1>4, <1>5, Zenon

\* As many samples of one frame.
LEMMA Copies ==
  ASSUME NEW S, NEW f \in S, NEW n \in Nat
  PROVE  /\ [i \in 1 .. n |-> f] \in Seq(S)
         /\ Len([i \in 1 .. n |-> f]) = n
         /\ \A i \in 1 .. n : [j \in 1 .. n |-> f][i] = f
OBVIOUS

\* The front of a sequence and the rest.
LEMMA Parted ==
  ASSUME NEW S, NEW s \in Seq(S), NEW k \in 0 .. Len(s)
  PROVE  /\ SubSeq(s, 1, k) \in Seq(S) /\ Len(SubSeq(s, 1, k)) = k
         /\ SubSeq(s, k + 1, Len(s)) \in Seq(S)
         /\ Len(SubSeq(s, k + 1, Len(s))) = Len(s) - k
         /\ \A i \in 1 .. k : SubSeq(s, 1, k)[i] = s[i]
         /\ \A i \in 1 .. Len(s) - k : SubSeq(s, k + 1, Len(s))[i] = s[i + k]
         /\ SubSeq(s, 1, k) \o SubSeq(s, k + 1, Len(s)) = s
<1>1. Len(s) \in Nat /\ \A i \in 1 .. Len(s) : s[i] \in S
  BY LenProperties, ElementOfSeq
<1>2. /\ SubSeq(s, 1, k) \in Seq(S) /\ Len(SubSeq(s, 1, k)) = k
      /\ \A i \in 1 .. k : SubSeq(s, 1, k)[i] = s[i]
  BY <1>1
<1>3. /\ SubSeq(s, k + 1, Len(s)) \in Seq(S)
      /\ Len(SubSeq(s, k + 1, Len(s))) = Len(s) - k
      /\ \A i \in 1 .. Len(s) - k : SubSeq(s, k + 1, Len(s))[i] = s[i + k]
  BY <1>1
<1>4. SubSeq(s, 1, k) \o SubSeq(s, k + 1, Len(s)) = s
  <2>1. SubSeq(s, 1, k) \o SubSeq(s, k + 1, Len(s)) = SubSeq(s, 1, Len(s))
    <3>1. 1 \in 1 .. Len(s) + 1 /\ k \in 1 - 1 .. Len(s) /\ Len(s) \in k .. Len(s)
      BY <1>1
    <3> QED
      BY <3>1, ConcatAdjacentSubSeq, ZenonT(100)
  <2> QED
    BY <2>1, SubSeqFull
<1> QED
  BY <1>2, <1>3, <1>4

LEMMA FillTypes ==
  ASSUME FillInv
  PROVE  /\ Len(pcm) \in 0 .. PcmSamples /\ Len(ring) \in 0 .. RingBytes
         /\ Len(chunk) \in Nat /\ Len(buffer) \in Nat /\ MaxFrames \in Nat
         /\ PcmSamples \in Nat /\ Samples \in Nat \ {0} /\ RingBytes \in Nat
         /\ chunk \in Seq(SbcBytes) /\ ring \in Seq(SbcBytes) /\ pcm \in Seq(Frames)
         /\ buffer \in Seq(Frames \cup {Silence})
         /\ PcmSamples >= 2 * (Samples + 1)
<1>1. /\ chunk \in Seq(SbcBytes) /\ ring \in Seq(SbcBytes) /\ pcm \in Seq(Frames)
      /\ buffer \in Seq(Frames \cup {Silence})
      /\ Len(ring) <= RingBytes /\ Len(pcm) <= PcmSamples
  BY DEF FillInv, PipelineTypeOK
<1>2. Len(chunk) \in Nat /\ Len(ring) \in Nat /\ Len(pcm) \in Nat /\ Len(buffer) \in Nat
  BY <1>1, LenProperties
<1>3. MaxFrames \in Nat /\ Samples \in Nat \ {0} /\ RingBytes \in Nat
  BY SizeAssumption
<1>4. PcmSamples \in Nat /\ PcmSamples >= 2 * (Samples + 1)
  BY RoomAssumption
<1> QED
  BY <1>1, <1>2, <1>3, <1>4

LEMMA FillMedia ==
  ASSUME FillInv, NEW size \in Sizes, Media(size)
  PROVE  FillInv'
<1> DEFINE packet == Bytes(sent + 1, FramesInPacket, size)
<1> USE DEF FillInv, PipelineTypeOK
<1>1. /\ size \in Nat \ {0} /\ FramesInPacket \in Nat \ {0} /\ MaxFrames \in Nat
      /\ sent \in Nat /\ sent + FramesInPacket <= MaxFrames
  BY SizeAssumption DEF Media
<1>2. packet \in Seq(SbcBytes)
  <2>1. /\ sent + 1 \in Nat \ {0} /\ FramesInPacket \in Nat
        /\ sent + 1 + FramesInPacket - 1 <= MaxFrames
    BY <1>1
  <2> QED
    BY <1>1, <2>1, BytesType
<1> HIDE DEF packet
<1>3. ring' \in Seq(SbcBytes) /\ Len(ring') <= RingBytes
  <2>1. CASE Len(ring) + Len(packet) <= RingBytes
    <3>1. ring' = ring \o packet
      BY <2>1 DEF Media, packet
    <3> QED
      BY <2>1, <3>1, <1>2, ConcatProperties
  <2>2. CASE ~(Len(ring) + Len(packet) <= RingBytes)
    BY <2>2 DEF Media, packet
  <2> QED
    BY <2>1, <2>2
<1>4. sent' \in 0 .. MaxFrames /\ frame_size' \in Sizes \cup {0}
  BY <1>1 DEF Media
<1>5. refused' \subseteq Frames
  BY <1>1 DEF Media, Frames
<1>6. UNCHANGED <<pcm, stage, chunk, buffer, missing, asked, pcm_dropped, played>>
  BY DEF Media
<1>7. stage = "idle"
  BY DEF Media
<1> QED
  BY <1>3, <1>4, <1>5, <1>6, <1>7 DEF FillsWhole

LEMMA FillBegin ==
  ASSUME FillInv, NEW n \in Fills, Begin(n)
  PROVE  FillInv' /\ buffer' \o pcm' = pcm
<1> DEFINE ready == Smaller(n, Len(pcm))
<1> USE DEF FillInv, PipelineTypeOK
<1>1. n \in Nat \ {0} /\ Len(pcm) \in Nat /\ PcmSamples \in Nat
  BY SizeAssumption, FillTypes
<1>2. ready \in 0 .. Len(pcm) /\ ready <= n /\ (ready = n \/ ready = Len(pcm))
  BY <1>1 DEF Smaller
<1>3. /\ buffer' = SubSeq(pcm, 1, ready) /\ pcm' = SubSeq(pcm, ready + 1, Len(pcm))
      /\ missing' = n - ready
  BY DEF Begin
<1> HIDE DEF ready
<1>4. pcm \in Seq(Frames)
  OBVIOUS
<1>5. /\ buffer' \in Seq(Frames) /\ Len(buffer') = ready
      /\ pcm' \in Seq(Frames) /\ Len(pcm') = Len(pcm) - ready
      /\ buffer' \o pcm' = pcm
  BY <1>2, <1>3, <1>4, Parted, ZenonT(60)
<1>6. buffer' \in Seq(Frames \cup {Silence})
  BY <1>5, SeqMonotonic
<1>7. missing' \in Nat /\ Len(buffer') + missing' = n
  <2>1. n - ready \in Nat /\ ready + (n - ready) = n
    BY <1>1, <1>2
  <2> QED
    BY <1>3, <1>5, <2>1
<1>8. missing' > 0 => pcm' = <<>>
  <2>1. CASE ready = n
    BY <1>1, <1>3, <2>1
  <2>2. CASE ready = Len(pcm)
    <3>1. Len(pcm') = 0
      BY <1>1, <1>5, <2>2
    <3> QED
      BY <1>5, <3>1, EmptySeq
  <2> QED
    BY <1>2, <2>1, <2>2
<1>9. stage' = "loop" /\ asked' = n /\ frame_size # 0
  BY DEF Begin
<1>10. UNCHANGED <<ring, frame_size, chunk, sent, refused, pcm_dropped, played>>
  BY DEF Begin
<1>11. stage = "idle"
  BY DEF Begin
<1>12. Len(pcm') <= PcmSamples
  BY <1>1, <1>2, <1>5
<1>13. PipelineTypeOK'
  BY <1>5, <1>6, <1>7, <1>9, <1>10, <1>12
<1>14. chunk = <<>>
  BY <1>11
<1> QED
  BY <1>5, <1>7, <1>8, <1>9, <1>10, <1>13, <1>14 DEF FillsWhole

LEMMA FillDecode ==
  ASSUME FillInv, Decode
  PROVE  /\ FillInv' /\ chunk' \o ring' = ring /\ Len(chunk') = frame_size
         /\ \A i \in 1 .. Len(chunk') : chunk'[i] = ring[i]
<1> USE DEF FillInv, PipelineTypeOK
<1>1. frame_size \in 0 .. Len(ring)
  BY SizeAssumption, FillTypes DEF Decode
<1>2. /\ chunk' = SubSeq(ring, 1, frame_size)
      /\ ring' = SubSeq(ring, frame_size + 1, Len(ring))
  BY DEF Decode
<1>3. ring \in Seq(SbcBytes)
  OBVIOUS
<1>4. /\ chunk' \in Seq(SbcBytes) /\ Len(chunk') = frame_size
      /\ ring' \in Seq(SbcBytes) /\ Len(ring') = Len(ring) - frame_size
      /\ chunk' \o ring' = ring
      /\ \A i \in 1 .. frame_size : chunk'[i] = ring[i]
  BY <1>1, <1>2, <1>3, Parted, ZenonT(60)
<1>5. stage = "loop" /\ stage' = "decode"
  BY DEF Decode
<1>6. UNCHANGED <<frame_size, pcm, buffer, missing, asked, sent, refused, pcm_dropped, played>>
  BY DEF Decode
<1>7. Len(ring') <= RingBytes
  <2>1. Len(ring) \in 0 .. RingBytes /\ RingBytes \in Nat /\ Len(ring') = Len(ring) - frame_size
    BY <1>4, FillTypes
  <2> QED
    BY <1>1, <2>1
<1> QED
  BY <1>4, <1>5, <1>6, <1>7 DEF FillsWhole

\* What handle_pcm_data does to what is heard.
LEMMA FillDeliver ==
  ASSUME FillInv, Deliver
  PROVE  /\ FillInv' /\ buffer' \in Seq(Frames)
         /\ \E k \in Completing, n \in {Samples, Samples + 1} :
              /\ \A l \in Completing : k <= l
              /\ chunk' = SubSeq(chunk, k + 1, Len(chunk))
              /\ Len(pcm) + n <= PcmSamples =>
                   /\ pcm_dropped' = pcm_dropped
                   /\ Len(pcm') <= Len(pcm) + n
                   /\ Len(buffer' \o pcm') = Len(buffer \o pcm) + n
                   /\ \A i \in 1 .. Len(buffer \o pcm) :
                        (buffer' \o pcm')[i] = (buffer \o pcm)[i]
                   /\ \A i \in Len(buffer \o pcm) + 1 .. Len(buffer \o pcm) + n :
                        (buffer' \o pcm')[i] = chunk[k].frame
<1> USE DEF FillInv
<1>1. PICK k \in Completing, n \in {Samples, Samples + 1} :
        /\ \A l \in Completing : k <= l
        /\ HandlePcm(chunk[k].frame, n)
        /\ chunk' = SubSeq(chunk, k + 1, Len(chunk))
  BY Zenon DEF Deliver
<1> DEFINE f == chunk[k].frame
           copied == Smaller(n, missing)
           rest == n - copied
           copies == [i \in 1 .. copied |-> f]
           left == [i \in 1 .. rest |-> f]
           lenB == Len(buffer)
           lenP == Len(pcm)
<1>2. /\ n \in Nat \ {0} /\ missing \in Nat /\ PcmSamples \in Nat /\ pcm_dropped \in Nat
      /\ lenB \in Nat /\ lenP \in 0 .. PcmSamples /\ chunk \in Seq(SbcBytes)
      /\ Len(chunk) \in Nat
  <2>1. n \in Nat \ {0}
    BY FillTypes
  <2>2. missing \in Nat /\ pcm_dropped \in Nat
    BY DEF PipelineTypeOK
  <2> QED
    BY <2>1, <2>2, FillTypes
<1>3. k \in 1 .. Len(chunk)
  BY <1>2, LenProperties DEF Completing
<1>4. f \in Frames
  <2>1. chunk[k] \in SbcBytes
    BY <1>2, <1>3, ElementOfSeq
  <2> QED
    BY <2>1 DEF SbcBytes
<1>5. /\ copied \in 0 .. missing /\ rest \in 0 .. n /\ copied + rest = n
      /\ (rest = 0 \/ copied = missing)
  BY <1>2 DEF Smaller
<1>6. stage = "decode" /\ UNCHANGED <<ring, frame_size, stage, asked, sent, refused, played>>
  BY DEF Deliver
<1>7. buffer \in Seq(Frames) /\ pcm \in Seq(Frames)
  BY <1>6 DEF PipelineTypeOK
<1>8. /\ buffer' = buffer \o copies /\ missing' = missing - copied
      /\ pcm' = IF lenP + rest <= PcmSamples THEN pcm \o left ELSE pcm
      /\ pcm_dropped' = IF lenP + rest <= PcmSamples THEN pcm_dropped ELSE pcm_dropped + rest
  BY <1>1, Zenon DEF HandlePcm
<1> HIDE DEF f, copied, rest, lenB, lenP
<1>9. /\ copies \in Seq(Frames) /\ Len(copies) = copied
      /\ \A i \in 1 .. copied : copies[i] = f
      /\ left \in Seq(Frames) /\ Len(left) = rest
      /\ \A i \in 1 .. rest : left[i] = f
  BY <1>4, <1>5, Copies
<1> HIDE DEF copies, left
<1>10. /\ buffer' \in Seq(Frames) /\ Len(buffer') = lenB + copied
       /\ \A i \in 1 .. lenB + copied :
            buffer'[i] = IF i <= lenB THEN buffer[i] ELSE copies[i - lenB]
  BY <1>7, <1>8, <1>9, ConcatProperties DEF lenB
<1>11. /\ pcm \o left \in Seq(Frames) /\ Len(pcm \o left) = lenP + rest
       /\ \A i \in 1 .. lenP + rest :
            (pcm \o left)[i] = IF i <= lenP THEN pcm[i] ELSE left[i - lenP]
  <2>1. /\ Len(pcm \o left) = Len(pcm) + Len(left)
        /\ \A i \in 1 .. Len(pcm) + Len(left) :
             (pcm \o left)[i] = IF i <= Len(pcm) THEN pcm[i] ELSE left[i - Len(pcm)]
    <3>1. pcm \in Seq(Frames) /\ left \in Seq(Frames)
      BY <1>7, <1>9
    <3> QED
      BY <3>1, ConcatProperties
  <2>2. pcm \o left \in Seq(Frames)
    BY <1>7, <1>9, ConcatProperties
  <2> QED
    BY <1>9, <2>1, <2>2 DEF lenP
<1>12. /\ chunk' \in Seq(SbcBytes)
  BY <1>1, <1>2, <1>3, Parted
<1>13. missing' \in Nat /\ lenB + copied + missing' = lenB + missing
  <2>1. missing - copied \in Nat /\ lenB + copied + (missing - copied) = lenB + missing
    BY <1>2, <1>5
  <2> QED
    BY <1>8, <2>1
<1>14. pcm' \in Seq(Frames) /\ Len(pcm') <= PcmSamples /\ pcm_dropped' \in Nat
  <2>1. CASE lenP + rest <= PcmSamples
    BY <1>2, <1>8, <1>11, <2>1
  <2>2. CASE ~(lenP + rest <= PcmSamples)
    <3>1. pcm' = pcm /\ pcm_dropped' = pcm_dropped + rest
      BY <1>8, <2>2
    <3> QED
      BY <1>2, <1>5, <1>7, <3>1 DEF lenP
  <2> QED
    BY <2>1, <2>2
<1>15. missing' > 0 => pcm' = <<>>
  <2> SUFFICES ASSUME missing' > 0
               PROVE  pcm' = <<>>
    OBVIOUS
  <2>1. copied # missing
    BY <1>2, <1>5, <1>8
  <2>2. rest = 0 /\ missing > 0
    BY <1>2, <1>5, <2>1
  <2>3. pcm = <<>>
    BY <2>2
  <2>4. left = <<>>
    BY <1>9, <2>2, EmptySeq
  <2>5. pcm \o left = <<>>
    BY <1>7, <2>3, <2>4, ConcatEmptySeq
  <2> QED
    BY <1>8, <2>3, <2>5
<1>16. buffer' \in Seq(Frames \cup {Silence})
  BY <1>10, SeqMonotonic
<1>17. PipelineTypeOK'
  BY <1>6, <1>12, <1>13, <1>14, <1>16 DEF PipelineTypeOK
<1>18. FillsWhole'
  BY <1>6, <1>10, <1>13 DEF FillsWhole, lenB
<1>19. FillInv'
  BY <1>6, <1>10, <1>15, <1>17, <1>18
<1>20. ASSUME lenP + n <= PcmSamples
       PROVE  /\ pcm_dropped' = pcm_dropped
              /\ Len(pcm') <= lenP + n
              /\ Len(buffer' \o pcm') = Len(buffer \o pcm) + n
              /\ \A i \in 1 .. Len(buffer \o pcm) :
                   (buffer' \o pcm')[i] = (buffer \o pcm)[i]
              /\ \A i \in Len(buffer \o pcm) + 1 .. Len(buffer \o pcm) + n :
                   (buffer' \o pcm')[i] = f
  <2>1. lenP + rest <= PcmSamples /\ lenP + rest <= lenP + n
    BY <1>2, <1>5, <1>20
  <2>2. pcm' = pcm \o left /\ pcm_dropped' = pcm_dropped
    BY <1>8, <2>1
  <2>3. /\ Len(buffer \o pcm) = lenB + lenP
        /\ \A i \in 1 .. lenB + lenP :
             (buffer \o pcm)[i] = IF i <= lenB THEN buffer[i] ELSE pcm[i - lenB]
    BY <1>7, ConcatProperties DEF lenB, lenP
  <2>4. pcm' \in Seq(Frames) /\ Len(pcm') = lenP + rest
    BY <1>11, <2>2
  <2> DEFINE total == lenB + copied + lenP + rest
  <2>5. /\ Len(buffer' \o pcm') = total
        /\ \A i \in 1 .. total :
             (buffer' \o pcm')[i] =
               IF i <= lenB + copied THEN buffer'[i] ELSE pcm'[i - (lenB + copied)]
    <3>1. total = (lenB + copied) + (lenP + rest)
      BY <1>2, <1>5
    <3> HIDE DEF total
    <3>2. /\ Len(buffer' \o pcm') = Len(buffer') + Len(pcm')
          /\ \A i \in 1 .. Len(buffer') + Len(pcm') :
               (buffer' \o pcm')[i] =
                 IF i <= Len(buffer') THEN buffer'[i] ELSE pcm'[i - Len(buffer')]
      BY <1>10, <2>4, ConcatProperties, ZenonT(100)
    <3>3. Len(buffer') = lenB + copied /\ Len(pcm') = lenP + rest
      BY <1>10, <2>4
    <3> QED
      BY <3>1, <3>2, <3>3
  <2>6. total = lenB + lenP + n /\ total \in Nat
    BY <1>2, <1>5
  <2>7. copied > 0 => lenP = 0
    <3>1. copied > 0 => missing > 0
      BY <1>2, <1>5
    <3> QED
      BY <3>1 DEF lenP
  <2>8. ASSUME NEW i \in 1 .. lenB + lenP
        PROVE  (buffer' \o pcm')[i] = (buffer \o pcm)[i]
    <3>1. i \in 1 .. total
      BY <1>2, <2>6
    <3> HIDE DEF total
    <3>2. CASE i <= lenB
      <4>1. i \in 1 .. lenB + copied /\ i <= lenB + copied
        BY <1>2, <1>5, <3>2
      <4>2. (buffer' \o pcm')[i] = buffer'[i]
        BY <2>5, <3>1, <4>1
      <4> QED
        BY <1>10, <2>3, <3>2, <4>1, <4>2
    <3>3. CASE ~(i <= lenB)
      <4>1. copied = 0
        BY <1>2, <1>5, <2>7, <3>3
      <4>2. (buffer' \o pcm')[i] = pcm'[i - lenB]
        BY <1>2, <2>5, <3>1, <3>3, <4>1
      <4>3. i - lenB \in 1 .. lenP + rest /\ i - lenB <= lenP
        BY <1>2, <1>5, <3>3
      <4>4. pcm'[i - lenB] = pcm[i - lenB]
        BY <1>11, <2>2, <4>3
      <4> QED
        BY <1>2, <2>3, <3>3, <4>2, <4>4
    <3> QED
      BY <3>2, <3>3
  <2>9. ASSUME NEW i \in lenB + lenP + 1 .. lenB + lenP + n
        PROVE  (buffer' \o pcm')[i] = f
    <3>1. i \in 1 .. total
      BY <1>2, <2>6
    <3> HIDE DEF total
    <3>2. CASE i <= lenB + copied
      <4>1. i \in 1 .. lenB + copied /\ ~(i <= lenB) /\ i - lenB \in 1 .. copied
        BY <1>2, <1>5, <3>2
      <4>2. (buffer' \o pcm')[i] = copies[i - lenB]
        BY <1>10, <2>5, <3>1, <3>2, <4>1
      <4> QED
        BY <1>9, <4>1, <4>2
    <3>3. CASE ~(i <= lenB + copied)
      <4> DEFINE j == i - (lenB + copied)
      <4>1. j \in 1 .. lenP + rest /\ ~(j <= lenP) /\ j - lenP \in 1 .. rest
        BY <1>2, <1>5, <2>7, <3>3
      <4>2. (buffer' \o pcm')[i] = pcm'[j]
        BY <1>2, <1>5, <2>5, <3>1, <3>3
      <4> HIDE DEF j
      <4>3. pcm'[j] = left[j - lenP]
        BY <1>11, <2>2, <4>1
      <4> QED
        BY <1>9, <4>1, <4>2, <4>3
    <3> QED
      BY <3>2, <3>3
  <2> HIDE DEF total
  <2> QED
    BY <2>1, <2>2, <2>3, <2>4, <2>5, <2>6, <2>8, <2>9
<1> QED
  BY <1>1, <1>10, <1>19, <1>20 DEF f, lenP

LEMMA FillDecoded ==
  ASSUME FillInv, Decoded
  PROVE  FillInv'
<1>1. chunk' = <<>> /\ stage = "decode" /\ stage' = "loop"
  BY DEF Decoded
<1>2. UNCHANGED <<ring, frame_size, pcm, buffer, missing, asked, sent, refused,
                  pcm_dropped, played>>
  BY DEF Decoded
<1>3. <<>> \in Seq(SbcBytes)
  BY EmptySeq
<1>4. PipelineTypeOK'
  BY <1>1, <1>2, <1>3 DEF FillInv, PipelineTypeOK
<1> QED
  BY <1>1, <1>2, <1>4 DEF FillInv, FillsWhole

LEMMA FillFinish ==
  ASSUME FillInv, Finish
  PROVE  FillInv'
<1> DEFINE silence == [i \in 1 .. missing |-> Silence]
<1>1. /\ stage = "loop" /\ stage' = "idle" /\ missing' = 0
      /\ buffer' = buffer \o silence
      /\ played' = IF buffer = <<>> THEN played ELSE buffer[Len(buffer)]
  BY DEF Finish
<1>2. UNCHANGED <<ring, frame_size, pcm, chunk, asked, sent, refused, pcm_dropped>>
  BY DEF Finish
<1>3. missing \in Nat /\ Silence \in Frames \cup {Silence}
  BY DEF FillInv, PipelineTypeOK
<1>4. silence \in Seq(Frames \cup {Silence}) /\ Len(silence) = missing
  BY <1>3, Copies
<1> HIDE DEF silence
<1>5. buffer \in Seq(Frames) /\ buffer \in Seq(Frames \cup {Silence})
  BY <1>1 DEF FillInv, PipelineTypeOK
<1>6. buffer' \in Seq(Frames \cup {Silence}) /\ Len(buffer') = Len(buffer) + missing
  BY <1>1, <1>4, <1>5, ConcatProperties
<1>7. played' \in 0 .. MaxFrames
  <2>1. CASE buffer = <<>>
    BY <1>1, <2>1 DEF FillInv, PipelineTypeOK
  <2>2. CASE buffer # <<>>
    <3>1. Len(buffer) \in 1 .. Len(buffer)
      BY <1>5, <2>2, EmptySeq
    <3>2. buffer[Len(buffer)] \in Frames
      BY <1>5, <3>1, ElementOfSeq
    <3> QED
      BY <1>1, <2>2, <3>2, SizeAssumption DEF Frames
  <2> QED
    BY <2>1, <2>2
<1>8. PipelineTypeOK'
  BY <1>1, <1>2, <1>6, <1>7 DEF FillInv, PipelineTypeOK
<1>9. FillsWhole'
  BY <1>1, <1>2, <1>6 DEF FillInv, FillsWhole
<1>10. chunk = <<>>
  BY <1>1 DEF FillInv
<1> QED
  BY <1>1, <1>2, <1>8, <1>9, <1>10 DEF FillInv

\* Fills are whole and nothing is overfull, whatever the sizes.
LEMMA FillInit == PipelineInit => FillInv
<1>1. SUFFICES ASSUME PipelineInit
               PROVE  FillInv
  OBVIOUS
<1>2. /\ <<>> \in Seq(SbcBytes) /\ <<>> \in Seq(Frames) /\ <<>> \in Seq(Frames \cup {Silence})
      /\ Len(<<>>) = 0
  BY EmptySeq
<1> QED
  BY <1>1, <1>2, SizeAssumption, RoomAssumption
     DEF PipelineInit, FillInv, PipelineTypeOK, FillsWhole, Frames

LEMMA FillStep == FillInv /\ [PipelineNext]_pipelineVars => FillInv'
<1> SUFFICES ASSUME FillInv, [PipelineNext]_pipelineVars
             PROVE  FillInv'
  OBVIOUS
<1>1. ASSUME NEW size \in Sizes, Media(size)
      PROVE  FillInv'
  BY <1>1, FillMedia
<1>2. ASSUME NEW n \in Fills, Begin(n)
      PROVE  FillInv'
  BY <1>2, FillBegin
<1>3. CASE Decode
  BY <1>3, FillDecode
<1>4. CASE Deliver
  BY <1>4, FillDeliver
<1>5. CASE Decoded
  BY <1>5, FillDecoded
<1>6. CASE Finish
  BY <1>6, FillFinish
<1>7. CASE UNCHANGED pipelineVars
  BY <1>7 DEF pipelineVars, FillInv, PipelineTypeOK, FillsWhole
<1> QED
  BY <1>1, <1>2, <1>3, <1>4, <1>5, <1>6, <1>7 DEF PipelineNext

\* Every fill is filled, with silence if need be, and neither ring is overfull,
\* whatever sizes frames have and however they change (a2dp.c:205-233, 259-289).
THEOREM FillsCorrect == PipelineSpec => [](PipelineTypeOK /\ FillsWhole)
<1>1. FillInv => PipelineTypeOK /\ FillsWhole
  BY DEF FillInv
<1> QED
  BY <1>1, FillInit, FillStep, PTL DEF PipelineSpec

-----------------------------------------------------------------------------
\* A packet's bytes are as frames make them, and the first ends a frame's length in.
LEMMA PacketAsSent ==
  ASSUME \A a, b \in Sizes : a <= 2 * b,
         NEW size \in Sizes, NEW first \in Nat \ {0}, first + FramesInPacket - 1 <= MaxFrames
  PROVE  LET packet == Bytes(first, FramesInPacket, size)
         IN  /\ packet \in Seq(SbcBytes) /\ Len(packet) \in Nat \ {0}
             /\ AsSent(packet)
             /\ \A j \in 1 .. Len(packet) : packet[j].last => j >= size
             /\ \A j \in 1 .. Len(packet) :
                  packet[j].frame \in first .. first + FramesInPacket - 1
             /\ \A f \in first .. first + FramesInPacket - 1 :
                  \E j \in 1 .. Len(packet) : packet[j].frame = f
<1> DEFINE n == FramesInPacket
           packet == Bytes(first, n, size)
           total == n * size
<1>1. size \in Nat \ {0} /\ n \in Nat \ {0} /\ MaxFrames \in Nat
  BY SizeAssumption
<1>2. total \in Nat \ {0}
  BY <1>1
<1>3. /\ packet \in Seq(SbcBytes) /\ Len(packet) = total
      /\ \A i \in 1 .. total :
           /\ packet[i].frame = first + (i - 1) \div size
           /\ packet[i].last <=> i % size = 0
  BY <1>1, BytesType
<1> HIDE DEF packet
<1>4. ASSUME NEW i \in 1 .. total
      PROVE  /\ (i - 1) \div size \in 0 .. n - 1
             /\ i - 1 = size * ((i - 1) \div size) + ((i - 1) % size)
             /\ (i - 1) % size \in 0 .. size - 1
  <2>1. i \in 1 .. n * size
    OBVIOUS
  <2> HIDE DEF total
  <2>2. (i - 1) \div size \in 0 .. n - 1
    BY <1>1, <2>1, ByteFrame
  <2>3. i - 1 \in Nat
    BY <1>2
  <2> QED
    BY <1>1, <2>2, <2>3
<1> HIDE DEF total
\* The last byte of a frame is a multiple of the size.
<1>5. ASSUME NEW i \in 1 .. total, packet[i].last
      PROVE  \E q \in 1 .. n : i = size * q /\ q = (i - 1) \div size + 1
  <2>1. PICK q \in 0 .. n - 1, r \in 0 .. size - 1 :
          q = (i - 1) \div size /\ r = (i - 1) % size /\ i - 1 = size * q + r
    BY <1>4
  <2>2. i % size = 0
    BY <1>3, <1>5
  <2>3. i = size * q + (r + 1)
    BY <1>1, <1>2, <2>1
  <2>4. r + 1 = size
    <3> SUFFICES ASSUME r + 1 # size
                 PROVE  FALSE
      OBVIOUS
    <3>1. r + 1 \in 0 .. size - 1 /\ r + 1 # 0 /\ q \in Int
      BY <1>1
    <3>2. (size * q + (r + 1)) % size = r + 1
      BY <1>1, <3>1, ModUnique
    <3> QED
      BY <2>2, <2>3, <3>1, <3>2
  <2>5. i = size * (q + 1)
    BY <1>1, <2>3, <2>4
  <2> QED
    BY <1>1, <2>1, <2>5
<1>6. ASSUME NEW i \in 1 .. total, NEW j \in 1 .. total, i <= j
      PROVE  packet[i].frame <= packet[j].frame
  <2>1. PICK p \in 0 .. n - 1, r \in 0 .. size - 1 : p = (i - 1) \div size /\ i - 1 = size * p + r
    BY <1>4
  <2>2. PICK q \in 0 .. n - 1, t \in 0 .. size - 1 : q = (j - 1) \div size /\ j - 1 = size * q + t
    BY <1>4
  <2>3. q < p => size * p >= size * q + size
    BY <1>1
  <2>4. p <= q
    BY <1>1, <1>2, <1>6, <2>1, <2>2, <2>3
  <2>5. packet[i].frame = first + p /\ packet[j].frame = first + q
    BY <1>3, <2>1, <2>2
  <2> QED
    BY <1>1, <2>4, <2>5
<1>7. packet[total].last
  <2>1. (size * n + 0) % size = 0
    BY <1>1, ModUnique
  <2>2. total % size = 0 /\ total \in 1 .. total
    BY <1>1, <1>2, <2>1 DEF total
  <2> QED
    BY <1>3, <2>2
<1>8. ASSUME NEW i \in 1 .. total, NEW j \in 1 .. total, i < j, packet[i].last, packet[j].last,
             NEW other \in Sizes
      PROVE  other <= 2 * (j - i)
  <2>1. PICK p \in 1 .. n : i = size * p
    BY <1>5, <1>8
  <2>2. PICK q \in 1 .. n : j = size * q
    BY <1>5, <1>8
  <2>3. p >= q => size * p >= size * q
    BY <1>1
  <2>4. q >= p + 1
    BY <1>1, <1>8, <2>1, <2>2, <2>3
  <2>5. size * q >= size * p + size
    BY <1>1, <2>4
  <2>6. j - i >= size
    BY <1>1, <2>1, <2>2, <2>5
  <2>7. other <= 2 * size /\ other \in Nat
    BY SizeAssumption
  <2> QED
    BY <1>1, <2>6, <2>7
<1>9. ASSUME NEW i \in 1 .. total, NEW j \in 1 .. total, i < j,
             packet[i].frame # packet[j].frame
      PROVE  \E k \in i .. j - 1 : packet[k].last
  <2>1. PICK p \in 0 .. n - 1, r \in 0 .. size - 1 : p = (i - 1) \div size /\ i - 1 = size * p + r
    BY <1>4
  <2>2. PICK q \in 0 .. n - 1, t \in 0 .. size - 1 : q = (j - 1) \div size /\ j - 1 = size * q + t
    BY <1>4
  <2>3. p # q
    BY <1>3, <1>9, <2>1, <2>2
  <2>4. q < p => size * p >= size * q + size
    BY <1>1
  <2>5. p < q => size * q >= size * (p + 1)
    BY <1>1
  <2>6. p < q
    BY <1>1, <1>2, <1>9, <2>1, <2>2, <2>3, <2>4
  <2> DEFINE k == size * (p + 1)
  <2>7. k \in Int /\ k = size * p + size
    BY <1>1
  <2>8. k \in i .. j - 1
    <3> HIDE DEF k
    <3> QED
      BY <1>1, <1>2, <2>1, <2>2, <2>5, <2>6, <2>7 DEF k
  <2>9. k % size = 0
    <3>1. (size * (p + 1) + 0) % size = 0
      BY <1>1, ModUnique
    <3> QED
      BY <1>1, <3>1
  <2> HIDE DEF k
  <2>10. k \in 1 .. total
    BY <1>2, <2>8
  <2> QED
    BY <1>3, <2>8, <2>9, <2>10
<1>10. AsSent(packet)
  BY <1>2, <1>3, <1>6, <1>7, <1>8, <1>9 DEF AsSent
<1>11. ASSUME NEW j \in 1 .. total, packet[j].last
       PROVE  j >= size
  <2>1. PICK q \in 1 .. n : j = size * q
    BY <1>5, <1>11
  <2>2. size * q >= size
    BY <1>1
  <2> QED
    BY <2>1, <2>2
<1>12. ASSUME NEW j \in 1 .. total
       PROVE  packet[j].frame \in first .. first + n - 1
  <2>1. PICK q \in 0 .. n - 1 : q = (j - 1) \div size
    BY <1>4
  <2>2. packet[j].frame = first + q
    BY <1>3, <2>1
  <2> QED
    BY <1>1, <2>2
<1>13. ASSUME NEW f \in first .. first + n - 1
       PROVE  \E j \in 1 .. total : packet[j].frame = f
  <2> DEFINE q == f - first
             j == size * q + 1
  <2>1. q \in 0 .. n - 1 /\ f = first + q
    BY <1>1
  <2> HIDE DEF q
  <2>2. size * q \in Nat /\ size * q + size <= size * n
    <3>1. size * (q + 1) <= size * n
      BY <1>1, <2>1
    <3> QED
      BY <1>1, <2>1, <3>1
  <2>3. j \in 1 .. total
    BY <1>1, <2>2 DEF total
  <2>4. (j - 1) \div size = q
    <3>1. PICK p \in 0 .. n - 1, r \in 0 .. size - 1 :
            p = (j - 1) \div size /\ j - 1 = size * p + r
      BY <1>4, <2>3
    <3>2. size * q = size * p + r
      BY <1>1, <2>2, <3>1
    <3>3. size * (q - p) + 0 = r /\ q - p \in Int /\ 0 \in 0 .. size - 1
      BY <1>1, <2>1, <3>2
    <3>4. q - p = 0
      BY <1>1, <3>3, MultipleBelow, SMTT(60)
    <3> QED
      BY <2>1, <3>1, <3>4
  <2> HIDE DEF j
  <2>5. packet[j].frame = f
    BY <1>3, <2>1, <2>3, <2>4
  <2> QED
    BY <2>3, <2>5
<1> QED
  BY <1>2, <1>3, <1>10, <1>11, <1>12, <1>13, <1>1 DEF packet

LEMMA AsSentRest ==
  ASSUME NEW s, NEW k \in 0 .. Len(s), NEW t, Len(s) \in Nat, Len(t) = Len(s) - k,
         \A i \in 1 .. Len(t) : t[i] = s[i + k],
         AsSent(s), Len(t) = 0 => t = <<>>
  PROVE  AsSent(t)
<1>1. ASSUME NEW i \in 1 .. Len(t)
      PROVE  i + k \in 1 .. Len(s) /\ t[i] = s[i + k]
  OBVIOUS
<1>2. ASSUME NEW i \in 1 .. Len(t), NEW j \in 1 .. Len(t), i <= j
      PROVE  t[i].frame <= t[j].frame
  <2>1. i + k <= j + k
    BY <1>2
  <2> QED
    BY <1>1, <2>1 DEF AsSent
<1>3. ASSUME t # <<>>
      PROVE  t[Len(t)].last
  <2>1. Len(t) \in 1 .. Len(t) /\ Len(t) + k = Len(s) /\ s # <<>>
    BY <1>3
  <2> QED
    BY <1>1, <2>1 DEF AsSent
<1>4. ASSUME NEW i \in 1 .. Len(t), NEW j \in 1 .. Len(t), i < j, t[i].last, t[j].last,
             NEW size \in Sizes
      PROVE  size <= 2 * (j - i)
  <2>1. i + k < j + k /\ (j + k) - (i + k) = j - i
    BY <1>4
  <2>2. size <= 2 * ((j + k) - (i + k))
    BY <1>1, <1>4, <2>1 DEF AsSent
  <2> QED
    BY <2>1, <2>2
<1>5. ASSUME NEW i \in 1 .. Len(t), NEW j \in 1 .. Len(t), i < j, t[i].frame # t[j].frame
      PROVE  \E l \in i .. j - 1 : t[l].last
  <2>1. i + k < j + k
    BY <1>5
  <2> DEFINE a == i + k
             b == j + k
  <2>4. a \in 1 .. Len(s) /\ b \in 1 .. Len(s) /\ a < b /\ s[a].frame # s[b].frame
    BY <1>1, <1>5, <2>1
  <2> HIDE DEF a, b
  <2>5. \E m \in a .. b - 1 : s[m].last
    BY <2>4 DEF AsSent
  <2>2. PICK m \in i + k .. j + k - 1 : s[m].last
    BY <2>5 DEF a, b
  <2>3. m - k \in i .. j - 1 /\ m - k \in 1 .. Len(t) /\ (m - k) + k = m
    BY <2>2
  <2> QED
    BY <2>2, <2>3
<1> QED
  BY <1>2, <1>3, <1>4, <1>5 DEF AsSent

LEMMA AsSentJoined ==
  ASSUME NEW s \in Seq(SbcBytes), NEW p \in Seq(SbcBytes), Len(p) > 0,
         AsSent(s), AsSent(p), Sizes \subseteq Nat,
         \A i \in 1 .. Len(s), j \in 1 .. Len(p) : s[i].frame <= p[j].frame,
         \A j \in 1 .. Len(p) : p[j].last => \A size \in Sizes : size <= 2 * j
  PROVE  AsSent(s \o p)
<1> DEFINE t == s \o p
           m == Len(s)
           n == Len(p)
<1>1. m \in Nat /\ n \in Nat \ {0}
  BY LenProperties
<1>2. /\ Len(t) = m + n
      /\ \A i \in 1 .. m + n : t[i] = IF i <= m THEN s[i] ELSE p[i - m]
  BY ConcatProperties
<1>3. ASSUME NEW i \in 1 .. m + n
      PROVE  \/ i \in 1 .. m /\ t[i] = s[i]
             \/ i > m /\ i - m \in 1 .. n /\ t[i] = p[i - m]
  BY <1>1, <1>2
<1>4. m > 0 => s[m].last
  <2>1. m > 0 => s # <<>>
    BY EmptySeq
  <2> QED
    BY <2>1 DEF AsSent
<1>5. p[n].last
  <2>1. p # <<>>
    BY EmptySeq
  <2> QED
    BY <2>1 DEF AsSent
<1> HIDE DEF t, m, n
<1>6. ASSUME NEW i \in 1 .. m + n, NEW j \in 1 .. m + n, i <= j
      PROVE  t[i].frame <= t[j].frame
  <2>1. CASE i <= m /\ j <= m
    <3>1. i \in 1 .. m /\ j \in 1 .. m /\ t[i] = s[i] /\ t[j] = s[j]
      BY <1>1, <1>3, <2>1
    <3> QED
      BY <1>6, <3>1 DEF AsSent, m
  <2>2. CASE i <= m /\ ~(j <= m)
    <3>1. i \in 1 .. m /\ j - m \in 1 .. n /\ t[i] = s[i] /\ t[j] = p[j - m]
      BY <1>1, <1>3, <2>2
    <3> QED
      BY <3>1 DEF m, n
  <2>3. CASE ~(i <= m)
    <3>1. i - m \in 1 .. n /\ j - m \in 1 .. n /\ t[i] = p[i - m] /\ t[j] = p[j - m]
          /\ i - m <= j - m
      BY <1>1, <1>3, <1>6, <2>3
    <3> QED
      BY <3>1 DEF AsSent, n
  <2> QED
    BY <2>1, <2>2, <2>3
<1>7. t[m + n].last
  <2> DEFINE d == m + n
  <2>1. d \in 1 .. m + n /\ ~(d \in 1 .. m) /\ d - m = n
    BY <1>1
  <2> HIDE DEF d
  <2>2. t[d] = p[n]
    BY <1>3, <2>1
  <2> QED
    BY <1>5, <2>2 DEF d
<1>8. ASSUME NEW i \in 1 .. m + n, NEW j \in 1 .. m + n, i < j, t[i].last, t[j].last,
             NEW size \in Sizes
      PROVE  size <= 2 * (j - i)
  <2>1. CASE i <= m /\ j <= m
    <3>1. i \in 1 .. m /\ j \in 1 .. m /\ t[i] = s[i] /\ t[j] = s[j]
      BY <1>1, <1>3, <2>1
    <3> QED
      BY <1>8, <3>1 DEF AsSent, m
  <2>2. CASE i <= m /\ ~(j <= m)
    <3>1. j - m \in 1 .. n /\ t[j] = p[j - m] /\ j - m <= j - i
      BY <1>1, <1>3, <2>2
    <3>2. size <= 2 * (j - m) /\ size \in Nat
      BY <1>8, <3>1 DEF n
    <3> QED
      BY <1>1, <3>1, <3>2
  <2>3. CASE ~(i <= m)
    <3>1. i - m \in 1 .. n /\ j - m \in 1 .. n /\ t[i] = p[i - m] /\ t[j] = p[j - m]
          /\ i - m < j - m /\ (j - m) - (i - m) = j - i
      BY <1>1, <1>3, <1>8, <2>3
    <3>2. size <= 2 * ((j - m) - (i - m))
      BY <1>8, <3>1 DEF AsSent, n
    <3> QED
      BY <3>1, <3>2
  <2> QED
    BY <2>1, <2>2, <2>3
<1>9. ASSUME NEW i \in 1 .. m + n, NEW j \in 1 .. m + n, i < j, t[i].frame # t[j].frame
      PROVE  \E k \in i .. j - 1 : t[k].last
  <2>1. CASE i <= m /\ j <= m
    <3>1. i \in 1 .. m /\ j \in 1 .. m /\ t[i] = s[i] /\ t[j] = s[j]
      BY <1>1, <1>3, <2>1
    <3>2. PICK k \in i .. j - 1 : s[k].last
      BY <1>9, <3>1 DEF AsSent, m
    <3>3. k \in 1 .. m + n /\ k <= m
      BY <1>1, <2>1, <3>2
    <3>4. t[k] = s[k]
      BY <1>1, <1>3, <3>3
    <3> QED
      BY <3>2, <3>4
  <2>2. CASE i <= m /\ ~(j <= m)
    <3>1. m \in i .. j - 1 /\ m \in 1 .. m + n /\ m > 0
      BY <1>1, <2>2
    <3> QED
      BY <1>3, <1>4, <3>1
  <2>3. CASE ~(i <= m)
    <3>1. i - m \in 1 .. n /\ j - m \in 1 .. n /\ t[i] = p[i - m] /\ t[j] = p[j - m]
          /\ i - m < j - m
      BY <1>1, <1>3, <1>9, <2>3
    <3>2. PICK k \in i - m .. j - m - 1 : p[k].last
      BY <1>9, <3>1 DEF AsSent, n
    <3>3. k + m \in i .. j - 1 /\ k + m \in 1 .. m + n /\ k + m > m /\ (k + m) - m = k
      BY <1>1, <2>3, <3>2
    <3>4. t[k + m] = p[k]
      BY <1>1, <1>3, <3>3
    <3> QED
      BY <3>2, <3>3, <3>4
  <2> QED
    BY <2>1, <2>2, <2>3
<1> QED
  BY <1>2, <1>6, <1>7, <1>8, <1>9 DEF AsSent, t

LEMMA HandTypes ==
  ASSUME FillInv
  PROVE  /\ Heard \in Seq(Frames) /\ Len(Heard) \in Nat
         /\ Coming \in Seq(SbcBytes) /\ Len(Coming) \in Nat
         /\ stage = "idle" => Heard = pcm
         /\ stage # "idle" => Heard = buffer \o pcm
         /\ stage # "decode" => Coming = ring
         /\ Len(Coming) = Len(chunk) + Len(ring)
         /\ \A i \in 1 .. Len(chunk) : Coming[i] = chunk[i]
         /\ \A i \in 1 .. Len(ring) : Coming[i + Len(chunk)] = ring[i]
<1>1. /\ chunk \in Seq(SbcBytes) /\ ring \in Seq(SbcBytes) /\ pcm \in Seq(Frames)
      /\ Len(chunk) \in Nat /\ Len(ring) \in Nat
      /\ stage # "idle" => buffer \in Seq(Frames)
      /\ stage # "decode" => chunk = <<>>
  BY FillTypes DEF FillInv
<1>2. <<>> \o pcm = pcm /\ <<>> \o ring = ring
  BY <1>1, ConcatEmptySeq
<1>3. Heard \in Seq(Frames)
  BY <1>1, <1>2, ConcatProperties DEF Heard
<1>4. /\ Coming \in Seq(SbcBytes) /\ Len(Coming) = Len(chunk) + Len(ring)
      /\ \A i \in 1 .. Len(chunk) + Len(ring) :
           Coming[i] = IF i <= Len(chunk) THEN chunk[i] ELSE ring[i - Len(chunk)]
  BY <1>1, ConcatProperties DEF Coming
<1>5. \A i \in 1 .. Len(chunk) : Coming[i] = chunk[i]
  BY <1>1, <1>4
<1>6. ASSUME NEW i \in 1 .. Len(ring)
      PROVE  Coming[i + Len(chunk)] = ring[i]
  <2>1. /\ i + Len(chunk) \in 1 .. Len(chunk) + Len(ring)
        /\ ~(i + Len(chunk) <= Len(chunk)) /\ i + Len(chunk) - Len(chunk) = i
    BY <1>1
  <2> QED
    BY <1>4, <2>1
<1> QED
  BY <1>1, <1>2, <1>3, <1>4, <1>5, <1>6, LenProperties DEF Heard, Coming

LEMMA OrderSame ==
  ASSUME InOrder, UNCHANGED <<Heard, Coming, played, sent, refused>>
  PROVE  InOrder'
BY DEF InOrder, Ascending

\* Nothing is in the decoder.
LEMMA RoomyIdle ==
  ASSUME FillInv', RoomForDecoded, UNCHANGED pcm_dropped, chunk' = <<>>
  PROVE  Roomy'
<1>1. Len(chunk') = 0 /\ DOMAIN chunk' = {}
  OBVIOUS
<1>2. Completing' = {}
  BY <1>1 DEF Completing
<1> QED
  BY <1>2 DEF Roomy, RoomForDecoded

LEMMA HandTypesNext ==
  ASSUME FillInv'
  PROVE  /\ Heard' \in Seq(Frames) /\ Coming' \in Seq(SbcBytes) /\ Len(pcm') \in Nat
         /\ stage' = "idle" => Heard' = pcm'
         /\ chunk' = <<>> => Coming' = ring'
<1>1. /\ chunk' \in Seq(SbcBytes) /\ ring' \in Seq(SbcBytes) /\ pcm' \in Seq(Frames)
      /\ stage' # "idle" => buffer' \in Seq(Frames)
  BY DEF FillInv, PipelineTypeOK
<1>2. <<>> \o pcm' = pcm' /\ <<>> \o ring' = ring'
  BY <1>1, ConcatEmptySeq
<1>3. Coming' \in Seq(SbcBytes)
  BY <1>1, ConcatProperties DEF Coming
<1>4. Heard' \in Seq(Frames)
  BY <1>1, <1>2, ConcatProperties DEF Heard
<1> QED
  BY <1>1, <1>2, <1>3, <1>4, LenProperties DEF Heard, Coming

LEMMA OrderBegin ==
  ASSUME FillInv, FillInv', InOrder, Roomy, NEW n \in Fills, Begin(n)
  PROVE  InOrder' /\ Roomy'
<1>1. /\ stage = "idle" /\ stage' = "loop"
      /\ UNCHANGED <<ring, frame_size, chunk, sent, refused, pcm_dropped, played>>
  BY DEF Begin
<1>2. Heard' = buffer' \o pcm' /\ Heard = pcm
  BY <1>1, HandTypes DEF Heard
<1>3. Heard' = Heard /\ Coming' = Coming
  BY <1>1, <1>2, FillBegin DEF Coming
<1>4. chunk' = <<>>
  BY <1>1 DEF FillInv
<1> QED
  BY <1>1, <1>3, <1>4, OrderSame, RoomyIdle DEF Roomy

LEMMA OrderDecode ==
  ASSUME FillInv, FillInv', InOrder, Roomy, Decode
  PROVE  InOrder' /\ Roomy'
<1>1. /\ stage = "loop" /\ stage' = "decode" /\ missing > 0
      /\ UNCHANGED <<frame_size, pcm, buffer, missing, asked, sent, refused, pcm_dropped, played>>
  BY DEF Decode
<1>2. Heard' = Heard
  BY <1>1 DEF Heard
<1>3. /\ Coming' = Coming /\ Coming = ring /\ Len(chunk') = frame_size
      /\ \A i \in 1 .. Len(chunk') : chunk'[i] = ring[i]
  BY <1>1, FillDecode, HandTypes DEF Coming
<1>4. InOrder'
  BY <1>1, <1>2, <1>3, OrderSame
<1>5. frame_size \in Sizes /\ frame_size \in Nat \ {0} /\ frame_size <= Len(ring)
      /\ Len(ring) \in Nat
  BY <1>1, SizeAssumption, FillTypes DEF FillInv, PipelineTypeOK, Decode
<1>6. pcm' = <<>> /\ Len(pcm') = 0
  BY <1>1 DEF FillInv
<1>7. DOMAIN chunk' = 1 .. frame_size
  BY <1>3, LenProperties DEF FillInv, PipelineTypeOK
<1>8. ASSUME NEW k \in Completing'
      PROVE  k \in 1 .. frame_size /\ k \in 1 .. Len(ring) /\ ring[k].last
  BY <1>3, <1>5, <1>7 DEF Completing
<1>9. ASSUME NEW i \in Completing', NEW j \in Completing', NEW k \in Completing', i < j, j < k
      PROVE  FALSE
  <2>1. AsSent(ring)
    BY <1>3 DEF InOrder
  <2>2. frame_size <= 2 * (j - i) /\ frame_size <= 2 * (k - j)
    BY <1>5, <1>8, <1>9, <2>1 DEF AsSent
  <2>3. i \in 1 .. frame_size /\ k \in 1 .. frame_size /\ j \in 1 .. frame_size
    BY <1>8
  <2> QED
    BY <1>5, <2>2, <2>3
<1>10. Len(pcm') <= Samples + 1
  <2>1. Samples \in Nat
    BY FillTypes
  <2> QED
    BY <1>6, <2>1
<1> QED
  BY <1>1, <1>4, <1>6, <1>9, <1>10 DEF Roomy, RoomForDecoded

LEMMA OrderDeliver ==
  ASSUME FillInv, FillInv', InOrder, Roomy, Deliver
  PROVE  InOrder' /\ Roomy'
<1>1. /\ stage = "decode"
      /\ UNCHANGED <<ring, frame_size, stage, asked, sent, refused, played>>
  BY DEF Deliver
<1>2. PICK k \in Completing, n \in {Samples, Samples + 1} :
        /\ \A l \in Completing : k <= l
        /\ chunk' = SubSeq(chunk, k + 1, Len(chunk))
        /\ Len(pcm) + n <= PcmSamples =>
             /\ pcm_dropped' = pcm_dropped
             /\ Len(pcm') <= Len(pcm) + n
             /\ Len(buffer' \o pcm') = Len(buffer \o pcm) + n
             /\ \A i \in 1 .. Len(buffer \o pcm) :
                  (buffer' \o pcm')[i] = (buffer \o pcm)[i]
             /\ \A i \in Len(buffer \o pcm) + 1 .. Len(buffer \o pcm) + n :
                  (buffer' \o pcm')[i] = chunk[k].frame
  BY FillDeliver
<1> DEFINE f == chunk[k].frame
           h == Len(Heard)
           c == Len(chunk)
           m == Len(Coming)
<1>3. /\ n \in Nat \ {0} /\ n <= Samples + 1 /\ Len(pcm) \in Nat /\ Len(pcm') \in Nat
      /\ Samples \in Nat /\ PcmSamples \in Nat
  <2>1. Samples \in Nat \ {0} /\ Len(pcm) \in Nat /\ PcmSamples \in Nat
    BY FillTypes
  <2>2. n = Samples \/ n = Samples + 1
    BY <1>2
  <2> QED
    BY <2>1, <2>2, HandTypesNext
<1>4. /\ h \in Nat /\ c \in Nat /\ m \in Nat /\ m = c + Len(ring) /\ Len(ring) \in Nat
      /\ Heard \in Seq(Frames) /\ Coming \in Seq(SbcBytes)
      /\ Heard' \in Seq(Frames) /\ Coming' \in Seq(SbcBytes)
      /\ \A i \in 1 .. c : Coming[i] = chunk[i]
  BY HandTypes, FillTypes, HandTypesNext
<1>5. /\ k \in 1 .. c /\ chunk[k].last
      /\ \A l \in 1 .. c : chunk[l].last => l \in Completing
      /\ \A l \in Completing : l \in 1 .. c /\ chunk[l].last
  BY <1>4, FillTypes, LenProperties DEF Completing
<1>6. Len(pcm) + n <= PcmSamples
  <2>1. Len(pcm) <= Samples + 1
    BY DEF Roomy
  <2> QED
    BY <1>3, <2>1, FillTypes
<1>7. Heard = buffer \o pcm /\ Heard' = buffer' \o pcm'
  BY <1>1 DEF Heard
<1>8. /\ pcm_dropped' = pcm_dropped /\ Len(pcm') <= Len(pcm) + n
      /\ Len(Heard') = h + n
      /\ \A i \in 1 .. h : Heard'[i] = Heard[i]
      /\ \A i \in h + 1 .. h + n : Heard'[i] = f
  BY <1>2, <1>6, <1>7
<1>9. /\ Len(chunk') = c - k /\ chunk' \in Seq(SbcBytes)
      /\ \A i \in 1 .. c - k : chunk'[i] = chunk[i + k]
  <2>1. chunk \in Seq(SbcBytes) /\ k \in 0 .. Len(chunk)
    BY <1>4, <1>5, FillTypes
  <2> QED
    BY <1>2, <2>1, Parted
<1>10. /\ Len(Coming') = m - k
       /\ \A i \in 1 .. m - k : Coming'[i] = Coming[i + k]
  <2>1. ring \in Seq(SbcBytes) /\ ring' = ring /\ chunk \in Seq(SbcBytes)
    BY <1>1, FillTypes
  <2>2. Coming' = chunk' \o ring /\ Coming = chunk \o ring
    BY <1>1 DEF Coming
  <2>3. /\ Len(Coming') = (c - k) + Len(ring)
        /\ \A i \in 1 .. (c - k) + Len(ring) :
             Coming'[i] = IF i <= c - k THEN chunk'[i] ELSE ring[i - (c - k)]
    <3>1. /\ Len(Coming') = Len(chunk') + Len(ring)
          /\ \A i \in 1 .. Len(chunk') + Len(ring) :
               Coming'[i] = IF i <= Len(chunk') THEN chunk'[i] ELSE ring[i - Len(chunk')]
      BY <1>9, <2>1, <2>2, ConcatProperties
    <3> QED
      BY <1>9, <3>1
  <2>4. /\ Len(Coming) = c + Len(ring)
        /\ \A i \in 1 .. c + Len(ring) :
             Coming[i] = IF i <= c THEN chunk[i] ELSE ring[i - c]
    BY <2>1, <2>2, ConcatProperties
  <2> HIDE DEF c, m
  <2>5. (c - k) + Len(ring) = m - k
    BY <1>4, <1>5
  <2>6. ASSUME NEW i \in 1 .. m - k
        PROVE  Coming'[i] = Coming[i + k]
    <3>1. i + k \in 1 .. c + Len(ring) /\ i \in 1 .. (c - k) + Len(ring)
      BY <1>4, <1>5
    <3>2. CASE i <= c - k
      <4>1. i + k <= c /\ i \in 1 .. c - k
        BY <1>4, <1>5, <3>2
      <4> QED
        BY <1>9, <2>3, <2>4, <3>1, <3>2, <4>1
    <3>3. CASE ~(i <= c - k)
      <4>1. ~(i + k <= c) /\ i - (c - k) = i + k - c
        BY <1>4, <1>5, <3>3
      <4>2. Coming'[i] = ring[i - (c - k)]
        BY <2>3, <3>1, <3>3
      <4> DEFINE d == i + k
      <4>3. Coming[i + k] = ring[i + k - c]
        <5>1. d \in 1 .. c + Len(ring) /\ ~(d <= c)
          BY <3>1, <4>1
        <5> HIDE DEF d
        <5>2. Coming[d] = ring[d - c]
          BY <2>4, <5>1
        <5>3. d - c = i + k - c
          BY <1>4, <1>5 DEF d
        <5> QED
          BY <5>2, <5>3 DEF d
      <4> QED
        BY <4>1, <4>2, <4>3
    <3> QED
      BY <3>2, <3>3
  <2> QED
    BY <2>3, <2>5, <2>6
<1>11. k \in 1 .. m /\ Coming[k].frame = f
  BY <1>4, <1>5
<1> HIDE DEF f, h, c, m
<1>12. ASSUME NEW i \in 1 .. m - k
       PROVE  i + k \in 1 .. m /\ k <= i + k /\ Coming'[i] = Coming[i + k]
  BY <1>4, <1>10, <1>11
<1>13. ASSUME NEW i \in 1 .. h + n
       PROVE  \/ i \in 1 .. h /\ Heard'[i] = Heard[i]
              \/ ~(i \in 1 .. h) /\ Heard'[i] = f
  BY <1>3, <1>4, <1>8
<1>14. f \in played .. sent /\ played \in Int /\ sent \in Int
  <2>1. f \in played .. sent
    BY <1>11 DEF InOrder, m
  <2>2. played \in Int /\ sent \in Int
    BY DEF FillInv, PipelineTypeOK
  <2> QED
    BY <2>1, <2>2
<1>15. /\ \A i \in 1 .. h : Heard[i] \in played .. sent /\ Heard[i] <= f
       /\ \A i, j \in 1 .. h : i <= j => Heard[i] <= Heard[j]
  BY <1>11 DEF InOrder, Ascending, h, m
<1>16. Ascending(Heard')
  <2>1. ASSUME NEW i \in 1 .. h + n, NEW j \in 1 .. h + n, i <= j
        PROVE  Heard'[i] <= Heard'[j]
    <3>1. j \in 1 .. h => i \in 1 .. h
      BY <1>4, <2>1
    <3> QED
      BY <1>13, <1>14, <1>15, <2>1, <3>1
  <2> QED
    BY <1>8, <2>1 DEF Ascending
<1>17. AsSent(Coming')
  <2>1. AsSent(Coming) /\ k \in 0 .. Len(Coming) /\ Len(Coming) \in Nat
    BY <1>4, <1>11 DEF InOrder, m
  <2>2. Len(Coming') = 0 => Coming' = <<>>
    BY <1>4, EmptySeq
  <2>3. Len(Coming') = Len(Coming) - k /\ \A i \in 1 .. Len(Coming') : Coming'[i] = Coming[i + k]
    BY <1>10 DEF m
  <2> QED
    BY <2>1, <2>2, <2>3, AsSentRest
<1>18. \A i \in 1 .. Len(Heard') : Heard'[i] \in played' .. sent'
  BY <1>1, <1>8, <1>13, <1>14, <1>15
<1>19. \A i \in 1 .. Len(Coming') : Coming'[i].frame \in played' .. sent'
  BY <1>1, <1>10, <1>12 DEF InOrder, m
<1>20. ASSUME NEW i \in 1 .. Len(Heard'), NEW j \in 1 .. Len(Coming')
       PROVE  Heard'[i] <= Coming'[j].frame
  <2>1. j + k \in 1 .. m /\ k <= j + k /\ Coming'[j] = Coming[j + k]
    BY <1>10, <1>12
  <2>2. f <= Coming[j + k].frame
    BY <1>11, <2>1 DEF InOrder, AsSent, m
  <2>3. CASE i \in 1 .. h
    <3>1. Heard[i] <= Coming[j + k].frame
      BY <2>1, <2>3 DEF InOrder, h, m
    <3> QED
      BY <1>8, <2>1, <2>3, <3>1
  <2>4. CASE ~(i \in 1 .. h)
    <3>1. Heard'[i] = f
      BY <1>8, <1>13, <2>4
    <3> QED
      BY <2>1, <2>2, <3>1
  <2> QED
    BY <2>3, <2>4
<1>21. ASSUME NEW g \in (played' + 1 .. sent') \ refused'
       PROVE  \/ \E i \in 1 .. Len(Heard') : Heard'[i] = g
              \/ \E i \in 1 .. Len(Coming') : Coming'[i].frame = g
  <2>1. \/ \E i \in 1 .. h : Heard[i] = g
        \/ \E i \in 1 .. m : Coming[i].frame = g
    BY <1>1 DEF InOrder, h, m
  <2>2. CASE \E i \in 1 .. h : Heard[i] = g
    BY <1>3, <1>4, <1>8, <2>2
  <2>3. ASSUME NEW i \in 1 .. m, Coming[i].frame = g, i > k
        PROVE  \E j \in 1 .. Len(Coming') : Coming'[j].frame = g
    <3>1. i - k \in 1 .. m - k /\ (i - k) + k = i
      BY <1>4, <1>11, <2>3
    <3> QED
      BY <1>10, <2>3, <3>1
  <2>4. ASSUME NEW i \in 1 .. m, Coming[i].frame = g, ~(i > k)
        PROVE  \E j \in 1 .. Len(Heard') : Heard'[j] = g
    <3>1. g = f
      <4> SUFFICES ASSUME g # f
                   PROVE  FALSE
        OBVIOUS
      <4>1. i < k
        BY <1>11, <2>4
      <4>2. PICK l \in i .. k - 1 : Coming[l].last
        BY <1>11, <2>4, <4>1 DEF InOrder, AsSent, m
      <4>3. l \in 1 .. c /\ ~(k <= l)
        BY <1>4, <1>5, <4>2
      <4> QED
        BY <1>2, <1>4, <1>5, <4>2, <4>3
    <3>2. h + 1 \in 1 .. Len(Heard') /\ h + 1 \in h + 1 .. h + n
      BY <1>3, <1>4, <1>8
    <3> QED
      BY <1>8, <3>1, <3>2
  <2> QED
    BY <2>1, <2>2, <2>3, <2>4
<1>22. InOrder'
  BY <1>1, <1>16, <1>17, <1>18, <1>19, <1>20, <1>21 DEF InOrder
<1>23. ASSUME NEW l \in Completing'
       PROVE  l + k \in Completing /\ l \in Int /\ k < l + k /\ k \in Int
  <2>1. DOMAIN chunk' = 1 .. c - k
    BY <1>9, LenProperties
  <2>2. l \in 1 .. c - k /\ chunk'[l].last
    BY <2>1 DEF Completing
  <2>3. l + k \in 1 .. c /\ k < l + k
    BY <1>4, <1>5, <2>2
  <2> QED
    BY <1>5, <1>9, <2>2, <2>3
<1>24. Completing' # {} => pcm = <<>>
  BY <1>23 DEF Roomy
<1>25. ASSUME NEW i \in Completing', NEW j \in Completing', i < j
       PROVE  FALSE
  <2>1. k < i + k /\ i + k < j + k
    BY <1>23, <1>25
  <2> QED
    BY <1>23, <2>1 DEF Roomy
<1>26. Completing' # {} => Len(pcm') <= Samples + 1
  <2>1. pcm = <<>> => Len(pcm) = 0
    OBVIOUS
  <2> QED
    BY <1>3, <1>8, <1>24, <2>1
<1> QED
  BY <1>8, <1>22, <1>25, <1>26 DEF Roomy, RoomForDecoded

LEMMA OrderDecoded ==
  ASSUME FillInv, FillInv', InOrder, Roomy, Decoded
  PROVE  InOrder' /\ Roomy'
<1>1. /\ stage = "decode" /\ stage' = "loop" /\ Completing = {} /\ chunk' = <<>>
      /\ UNCHANGED <<ring, frame_size, pcm, buffer, missing, asked, sent, refused,
                     pcm_dropped, played>>
  BY DEF Decoded
<1>2. Heard' = Heard
  BY <1>1 DEF Heard
<1> DEFINE c == Len(chunk)
           m == Len(Coming)
<1>3. /\ c \in Nat /\ m \in Nat /\ m = c + Len(ring) /\ Len(ring) \in Nat
      /\ Coming' = ring /\ ring \in Seq(SbcBytes) /\ chunk \in Seq(SbcBytes)
      /\ Coming \in Seq(SbcBytes)
      /\ \A i \in 1 .. c : Coming[i] = chunk[i]
      /\ \A i \in 1 .. Len(ring) : Coming[i + c] = ring[i]
  <2>1. Coming' = ring'
    BY <1>1, HandTypesNext
  <2> QED
    BY <1>1, <2>1, HandTypes, FillTypes
<1>4. \A i \in 1 .. c : ~Coming[i].last
  BY <1>1, <1>3, LenProperties DEF Completing
<1> HIDE DEF c, m
<1>5. /\ Len(Coming') = m - c
      /\ \A i \in 1 .. m - c : Coming'[i] = Coming[i + c] /\ i + c \in 1 .. m
  <2>1. Len(Coming') = m - c
    BY <1>3
  <2>2. ASSUME NEW i \in 1 .. m - c
        PROVE  Coming'[i] = Coming[i + c] /\ i + c \in 1 .. m
    <3>1. i \in 1 .. Len(ring) /\ i + c \in 1 .. m
      BY <1>3
    <3> QED
      BY <1>3, <3>1, Zenon
  <2> QED
    BY <2>1, <2>2
<1>6. AsSent(Coming')
  <2>1. AsSent(Coming) /\ c \in 0 .. Len(Coming) /\ Len(Coming) \in Nat
    BY <1>3 DEF InOrder, m
  <2>2. Len(Coming') = 0 => Coming' = <<>>
    BY <1>3, EmptySeq
  <2>3. Len(Coming') = Len(Coming) - c /\ \A i \in 1 .. Len(Coming') : Coming'[i] = Coming[i + c]
    BY <1>5 DEF m
  <2> QED
    BY <2>1, <2>2, <2>3, AsSentRest
<1>7. ASSUME NEW i \in 1 .. m
      PROVE  \E j \in 1 .. Len(Coming') : Coming'[j].frame = Coming[i].frame
  <2>1. CASE i > c
    <3>1. i - c \in 1 .. m - c /\ (i - c) + c = i
      BY <1>3, <2>1
    <3> QED
      BY <1>5, <3>1
  <2>2. CASE ~(i > c)
    <3>1. Coming[m].last
      <4>1. Coming # <<>>
        BY DEF m
      <4> QED
        BY <4>1 DEF InOrder, AsSent, m
    <3>2. ~(m <= c)
      BY <1>3, <1>4, <3>1
    <3>3. c + 1 \in 1 .. m /\ i < c + 1 /\ 1 \in 1 .. m - c
      BY <1>3, <2>2, <3>2
    <3>4. Coming[i].frame = Coming[c + 1].frame
      <4> SUFFICES ASSUME Coming[i].frame # Coming[c + 1].frame
                   PROVE  FALSE
        OBVIOUS
      <4> DEFINE d == c + 1
      <4>1. d \in 1 .. m /\ i < d /\ Coming[i].frame # Coming[d].frame
        BY <3>3
      <4> HIDE DEF d
      <4>2. PICK l \in i .. d - 1 : Coming[l].last
        BY <4>1 DEF InOrder, AsSent, m
      <4>3. l \in 1 .. c
        BY <1>3, <4>2 DEF d
      <4> QED
        BY <1>4, <4>2, <4>3
    <3>5. Coming'[1] = Coming[c + 1]
      <4>1. 1 + c = c + 1
        BY <1>3
      <4> QED
        BY <1>5, <3>3, <4>1
    <3>6. 1 \in 1 .. Len(Coming')
      BY <1>5, <3>3
    <3> QED
      BY <3>4, <3>5, <3>6
  <2> QED
    BY <2>1, <2>2
<1>8. \A i \in 1 .. Len(Coming') : Coming'[i].frame \in played .. sent
  BY <1>5 DEF InOrder, m
<1>9. \A i \in 1 .. Len(Heard), j \in 1 .. Len(Coming') : Heard[i] <= Coming'[j].frame
  BY <1>5 DEF InOrder, m
<1>10. ASSUME NEW g \in (played + 1 .. sent) \ refused
       PROVE  \/ \E i \in 1 .. Len(Heard) : Heard[i] = g
              \/ \E i \in 1 .. Len(Coming') : Coming'[i].frame = g
  <2>1. \/ \E i \in 1 .. Len(Heard) : Heard[i] = g
        \/ \E i \in 1 .. m : Coming[i].frame = g
    BY DEF InOrder, m
  <2> QED
    BY <1>7, <2>1
<1>11. InOrder'
  BY <1>1, <1>2, <1>6, <1>8, <1>9, <1>10 DEF InOrder, Ascending
<1> QED
  BY <1>1, <1>11, RoomyIdle DEF Roomy

LEMMA OrderFinish ==
  ASSUME FillInv, FillInv', InOrder, Roomy, Finish
  PROVE  InOrder' /\ Roomy'
<1>1. /\ stage = "loop" /\ stage' = "idle"
      /\ played' = IF buffer = <<>> THEN played ELSE buffer[Len(buffer)]
      /\ UNCHANGED <<ring, frame_size, pcm, chunk, asked, sent, refused, pcm_dropped>>
  BY DEF Finish
<1> DEFINE b == Len(buffer)
           p == Len(pcm)
<1>2. Coming' = Coming /\ Heard' = pcm
  <2>1. Heard' = pcm'
    BY <1>1, HandTypesNext
  <2> QED
    BY <1>1, <2>1 DEF Coming
<1>3. /\ buffer \in Seq(Frames) /\ pcm \in Seq(Frames) /\ b \in Nat /\ p \in Nat
      /\ played \in Int /\ sent \in Int
  BY <1>1, LenProperties DEF FillInv, PipelineTypeOK
<1>4. /\ Heard = buffer \o pcm /\ Len(Heard) = b + p
      /\ \A i \in 1 .. b + p : Heard[i] = IF i <= b THEN buffer[i] ELSE pcm[i - b]
  <2>1. Heard = buffer \o pcm
    BY <1>1 DEF Heard
  <2>2. /\ Len(Heard) = Len(buffer) + Len(pcm)
        /\ \A i \in 1 .. Len(buffer) + Len(pcm) :
             Heard[i] = IF i <= Len(buffer) THEN buffer[i] ELSE pcm[i - Len(buffer)]
    BY <1>3, <2>1, ConcatProperties
  <2> QED
    BY <2>1, <2>2
<1>5. chunk' = <<>>
  BY <1>1 DEF FillInv
<1>6. b = 0 => buffer = <<>>
  BY <1>3, EmptySeq
<1>7. buffer = <<>> => b = 0
  OBVIOUS
<1> HIDE DEF b, p
<1>8. ASSUME NEW i \in 1 .. p
      PROVE  i + b \in 1 .. Len(Heard) /\ Heard[i + b] = pcm[i]
  <2> DEFINE d == i + b
  <2>1. d \in 1 .. b + p /\ ~(d <= b) /\ d - b = i
    BY <1>3
  <2> HIDE DEF d
  <2>2. d \in 1 .. Len(Heard) /\ Heard[d] = pcm[i]
    BY <1>4, <2>1
  <2> QED
    BY <2>2 DEF d
<1>9. /\ played' \in Int /\ played <= played' /\ played' <= sent
      /\ \A i \in 1 .. p : played' <= pcm[i]
      /\ \A i \in 1 .. Len(Coming) : played' <= Coming[i].frame
      /\ \A i \in 1 .. b : Heard[i] <= played'
  <2>1. CASE b = 0
    <3>1. played' = played /\ played <= sent
      BY <1>1, <1>6, <2>1 DEF InOrder
    <3> QED
      BY <1>3, <1>8, <2>1, <3>1 DEF InOrder
  <2>2. CASE b # 0
    <3>1. played' = Heard[b] /\ b \in 1 .. Len(Heard)
      BY <1>1, <1>3, <1>4, <1>7, <2>2 DEF b
    <3>2. Heard[b] \in played .. sent /\ \A i \in 1 .. Len(Coming) : Heard[b] <= Coming[i].frame
      BY <3>1 DEF InOrder
    <3>3. \A i \in 1 .. p : Heard[b] <= pcm[i]
      BY <1>3, <1>8, <3>1 DEF InOrder, Ascending
    <3>4. \A i \in 1 .. b : Heard[i] <= Heard[b]
      BY <1>3, <3>1 DEF InOrder, Ascending
    <3> QED
      BY <1>3, <3>1, <3>2, <3>3, <3>4
  <2> QED
    BY <2>1, <2>2
<1>10. Ascending(pcm)
  BY <1>3, <1>8 DEF InOrder, Ascending, p
<1>11. \A i \in 1 .. p : pcm[i] \in played' .. sent
  <2>1. \A i \in 1 .. p : pcm[i] \in played .. sent
    BY <1>8 DEF InOrder
  <2> QED
    BY <1>3, <1>9, <2>1
<1>12. \A i \in 1 .. Len(Coming) : Coming[i].frame \in played' .. sent
  BY <1>3, <1>9 DEF InOrder
<1>13. \A i \in 1 .. p, j \in 1 .. Len(Coming) : pcm[i] <= Coming[j].frame
  BY <1>8 DEF InOrder
<1>14. ASSUME NEW g \in (played' + 1 .. sent) \ refused
       PROVE  \/ \E i \in 1 .. p : pcm[i] = g
              \/ \E i \in 1 .. Len(Coming) : Coming[i].frame = g
  <2>0. PICK v \in Int : v = played'
    BY <1>9
  <2>1. g \in (played + 1 .. sent) \ refused /\ g \in Int /\ v < g
    <3>1. g \in v + 1 .. sent /\ g \notin refused /\ played <= v
      BY <1>9, <2>0
    <3> QED
      BY <1>3, <3>1
  <2>2. \/ \E i \in 1 .. Len(Heard) : Heard[i] = g
        \/ \E i \in 1 .. Len(Coming) : Coming[i].frame = g
    BY <2>1 DEF InOrder
  <2>3. ASSUME NEW i \in 1 .. Len(Heard), Heard[i] = g
        PROVE  \E j \in 1 .. p : pcm[j] = g
    <3>1. ~(i <= b)
      <4>1. i <= b => i \in 1 .. b
        BY <1>3
      <4>2. i <= b => g <= v
        BY <1>9, <2>0, <2>3, <4>1
      <4> QED
        BY <2>1, <4>2
    <3>2. i - b \in 1 .. p /\ Heard[i] = pcm[i - b]
      BY <1>3, <1>4, <3>1
    <3> QED
      BY <2>3, <3>2
  <2> QED
    BY <2>2, <2>3
<1>15. InOrder'
  BY <1>1, <1>2, <1>9, <1>10, <1>11, <1>12, <1>13, <1>14 DEF InOrder, p
<1> QED
  BY <1>1, <1>5, <1>15, RoomyIdle DEF Roomy

LEMMA OrderMedia ==
  ASSUME \A a, b \in Sizes : a <= 2 * b,
         FillInv, FillInv', InOrder, Roomy, NEW size \in Sizes, Media(size)
  PROVE  InOrder' /\ Roomy'
<1> DEFINE packet == Bytes(sent + 1, FramesInPacket, size)
           fits == Len(ring) + Len(packet) <= RingBytes
           m == Len(ring)
           n == Len(packet)
<1>1. /\ stage = "idle" /\ sent' = sent + FramesInPacket /\ sent + FramesInPacket <= MaxFrames
      /\ ring' = IF fits THEN ring \o packet ELSE ring
      /\ refused' = IF fits THEN refused ELSE refused \cup (sent + 1 .. sent')
      /\ UNCHANGED <<pcm, stage, chunk, buffer, missing, asked, pcm_dropped, played>>
  BY DEF Media
<1>2. /\ sent \in Nat /\ FramesInPacket \in Nat \ {0} /\ MaxFrames \in Nat /\ played \in Nat
      /\ size \in Nat \ {0} /\ Sizes \subseteq Nat /\ ring \in Seq(SbcBytes) /\ m \in Nat
  BY SizeAssumption, FillTypes DEF FillInv, PipelineTypeOK
<1>3. /\ packet \in Seq(SbcBytes) /\ n \in Nat \ {0}
      /\ AsSent(packet)
      /\ \A j \in 1 .. n : packet[j].last => j >= size
      /\ \A j \in 1 .. n : packet[j].frame \in sent + 1 .. sent + FramesInPacket
      /\ \A f \in sent + 1 .. sent + FramesInPacket : \E j \in 1 .. n : packet[j].frame = f
  <2>1. /\ sent + 1 \in Nat \ {0} /\ sent + 1 + FramesInPacket - 1 = sent + FramesInPacket
        /\ sent + 1 + FramesInPacket - 1 <= MaxFrames
    BY <1>1, <1>2
  <2> QED
    BY <2>1, PacketAsSent, SMTT(20)
<1> HIDE DEF packet
<1>4. chunk = <<>> /\ chunk' = <<>>
  BY <1>1 DEF FillInv
<1>5. Heard' = Heard /\ Coming = ring /\ Coming' = ring'
  BY <1>1, <1>4, HandTypes, HandTypesNext DEF Heard
<1>6. Roomy'
  BY <1>1, <1>4, RoomyIdle DEF Roomy
<1>7. \A i \in 1 .. Len(Heard) : Heard[i] \in played .. sent'
  <2>1. \A i \in 1 .. Len(Heard) : Heard[i] \in played .. sent
    BY DEF InOrder
  <2> QED
    BY <1>1, <1>2, <2>1
<1>8. \A i \in 1 .. m : ring[i].frame \in played .. sent
  BY <1>5 DEF InOrder
<1>9. CASE fits
  <2>1. /\ ring' = ring \o packet /\ refused' = refused /\ Len(ring') = m + n
        /\ \A i \in 1 .. m + n : ring'[i] = IF i <= m THEN ring[i] ELSE packet[i - m]
    BY <1>1, <1>2, <1>3, <1>9, ConcatProperties
  <2> HIDE DEF m, n
  <2>2. AsSent(ring')
    <3>1. \A i \in 1 .. m, j \in 1 .. n : ring[i].frame <= packet[j].frame
      <4>1. ASSUME NEW i \in 1 .. m, NEW j \in 1 .. n
            PROVE  ring[i].frame <= packet[j].frame
        <5>1. ring[i].frame \in played .. sent
          BY <1>8
        <5>2. packet[j].frame \in sent + 1 .. sent + FramesInPacket
          BY <1>3
        <5> QED
          BY <1>2, <5>1, <5>2
      <4> QED
        BY <4>1
    <3>2. ASSUME NEW j \in 1 .. n, packet[j].last, NEW other \in Sizes
          PROVE  other <= 2 * j
      <4>1. other <= 2 * size /\ size <= j /\ other \in Nat
        BY <1>2, <1>3, <3>2
      <4> QED
        BY <1>2, <4>1
    <3>3. AsSent(ring)
      BY <1>5 DEF InOrder
    <3> QED
      <4>1. \A j \in 1 .. Len(packet) : packet[j].last => \A other \in Sizes : other <= 2 * j
        BY <3>2 DEF n
      <4>2. Len(packet) > 0
        BY <1>3 DEF n
      <4>3. \A i \in 1 .. Len(ring), j \in 1 .. Len(packet) : ring[i].frame <= packet[j].frame
        BY <3>1 DEF m, n
      <4>4. AsSent(ring \o packet)
        BY <1>2, <1>3, <3>3, <4>1, <4>2, <4>3, AsSentJoined
      <4> QED
        BY <2>1, <4>4
  <2>3. ASSUME NEW i \in 1 .. m + n
        PROVE  \/ i \in 1 .. m /\ ring'[i] = ring[i]
               \/ i - m \in 1 .. n /\ ring'[i] = packet[i - m]
    <3>1. ring'[i] = IF i <= m THEN ring[i] ELSE packet[i - m]
      BY <2>1
    <3>2. i \in 1 .. m \/ (~(i <= m) /\ i - m \in 1 .. n)
      BY <1>2, <1>3
    <3> QED
      BY <3>1, <3>2
  <2>0. PICK next \in Nat : sent' = next /\ next = sent + FramesInPacket
    BY <1>1, <1>2
  <2>4. ASSUME NEW i \in 1 .. m + n
        PROVE  ring'[i].frame \in played .. sent'
    <3>1. CASE i \in 1 .. m /\ ring'[i] = ring[i]
      <4>1. ring'[i].frame \in played .. sent
        BY <1>8, <3>1
      <4> QED
        BY <1>2, <2>0, <4>1
    <3>2. CASE i - m \in 1 .. n /\ ring'[i] = packet[i - m]
      <4>1. ring'[i].frame \in sent + 1 .. sent + FramesInPacket
        BY <1>3, <3>2
      <4>2. played <= sent
        BY DEF InOrder
      <4> QED
        BY <1>2, <2>0, <4>1, <4>2
    <3> QED
      BY <2>3, <3>1, <3>2
  <2>5. ASSUME NEW i \in 1 .. Len(Heard), NEW j \in 1 .. m + n
        PROVE  Heard[i] <= ring'[j].frame
    <3>1. CASE j \in 1 .. m /\ ring'[j] = ring[j]
      BY <1>5, <3>1 DEF InOrder, m
    <3>2. CASE j - m \in 1 .. n /\ ring'[j] = packet[j - m]
      <4>1. ring'[j].frame \in sent + 1 .. sent + FramesInPacket
        BY <1>3, <3>2
      <4>2. Heard[i] \in played .. sent
        BY DEF InOrder
      <4> QED
        BY <1>2, <4>1, <4>2
    <3> QED
      BY <2>3, <3>1, <3>2
  <2>6. ASSUME NEW f \in (played + 1 .. sent') \ refused'
        PROVE  \/ \E i \in 1 .. Len(Heard) : Heard[i] = f
               \/ \E i \in 1 .. m + n : ring'[i].frame = f
    <3>1. CASE f <= sent
      <4>1. f \in (played + 1 .. sent) \ refused
        BY <1>2, <2>1, <3>1
      <4>2. \/ \E i \in 1 .. Len(Heard) : Heard[i] = f
            \/ \E i \in 1 .. m : ring[i].frame = f
        BY <1>5, <4>1 DEF InOrder, m
      <4>3. ASSUME NEW i \in 1 .. m
            PROVE  i \in 1 .. m + n /\ ring'[i] = ring[i]
        BY <1>2, <1>3, <2>1
      <4> QED
        BY <4>2, <4>3
    <3>2. CASE ~(f <= sent)
      <4>1. f \in sent + 1 .. sent + FramesInPacket
        BY <1>1, <1>2, <3>2
      <4>2. PICK j \in 1 .. n : packet[j].frame = f
        BY <1>3, <4>1
      <4> DEFINE d == j + m
      <4>3. d \in 1 .. m + n /\ ~(d <= m) /\ d - m = j
        BY <1>2, <1>3
      <4> HIDE DEF d
      <4>4. ring'[d] = packet[j]
        BY <2>1, <4>3
      <4> QED
        BY <4>2, <4>3, <4>4
    <3> QED
      BY <3>1, <3>2
  <2>7. played' <= sent'
    BY <1>1, <1>2 DEF InOrder
  <2>8. InOrder'
    BY <1>1, <1>5, <1>7, <2>1, <2>2, <2>4, <2>5, <2>6, <2>7 DEF InOrder, Ascending
  <2> QED
    BY <1>6, <2>8
<1>10. CASE ~fits
  <2>1. ring' = ring /\ refused' = refused \cup (sent + 1 .. sent')
    BY <1>1, <1>10
  <2>2. \A i \in 1 .. m : ring[i].frame \in played .. sent'
    BY <1>1, <1>2, <1>8
  <2>3. (played + 1 .. sent') \ refused' \subseteq (played + 1 .. sent) \ refused
    BY <1>1, <1>2, <2>1
  <2>4. played' <= sent'
    BY <1>1, <1>2 DEF InOrder
  <2>5. ASSUME NEW f \in (played' + 1 .. sent') \ refused'
        PROVE  \/ \E i \in 1 .. Len(Heard) : Heard[i] = f
               \/ \E i \in 1 .. Len(Coming) : Coming[i].frame = f
    BY <1>1, <2>3 DEF InOrder
  <2>6. InOrder'
    <3>1. Coming' = Coming /\ AsSent(Coming') /\ Ascending(Heard')
      BY <1>5, <2>1 DEF InOrder, Ascending
    <3>2. \A i \in 1 .. Len(Coming') : Coming'[i].frame \in played' .. sent'
      BY <1>1, <1>5, <2>1, <2>2
    <3>3. \A i \in 1 .. Len(Heard'), j \in 1 .. Len(Coming') : Heard'[i] <= Coming'[j].frame
      BY <1>5, <3>1 DEF InOrder
    <3>4. \A i \in 1 .. Len(Heard') : Heard'[i] \in played' .. sent'
      BY <1>1, <1>5, <1>7
    <3> QED
      BY <1>5, <2>4, <2>5, <3>1, <3>2, <3>3, <3>4 DEF InOrder
  <2> QED
    BY <1>6, <2>6
<1> QED
  BY <1>9, <1>10

LEMMA PipelineStart == PipelineInit => PipelineInv
<1> SUFFICES ASSUME PipelineInit
             PROVE  PipelineInv
  OBVIOUS
<1>1. FillInv
  BY FillInit
<1>2. /\ chunk = <<>> /\ ring = <<>> /\ pcm = <<>> /\ stage = "idle"
      /\ played = 0 /\ sent = 0 /\ pcm_dropped = 0
  BY DEF PipelineInit
<1>3. Heard = <<>> /\ Coming = <<>>
  BY <1>1, <1>2, HandTypes
<1>4. Len(Heard) = 0 /\ Len(Coming) = 0
  BY <1>3
<1>5. AsSent(Coming)
  BY <1>3, <1>4 DEF AsSent
<1>6. InOrder
  BY <1>2, <1>4, <1>5 DEF InOrder, Ascending
<1>7. Completing = {}
  <2>1. DOMAIN chunk = {}
    BY <1>2
  <2> QED
    BY <2>1 DEF Completing
<1> QED
  BY <1>1, <1>2, <1>6, <1>7 DEF PipelineInv, Roomy, RoomForDecoded

LEMMA PipelineStep ==
  ASSUME \A a, b \in Sizes : a <= 2 * b
  PROVE  PipelineInv /\ [PipelineNext]_pipelineVars => PipelineInv'
<1> SUFFICES ASSUME PipelineInv, [PipelineNext]_pipelineVars
             PROVE  PipelineInv'
  OBVIOUS
<1>1. FillInv /\ FillInv' /\ InOrder /\ Roomy
  BY FillStep DEF PipelineInv
<1>2. ASSUME NEW size \in Sizes, Media(size)
      PROVE  InOrder' /\ Roomy'
  BY <1>1, <1>2, OrderMedia
<1>3. ASSUME NEW n \in Fills, Begin(n)
      PROVE  InOrder' /\ Roomy'
  BY <1>1, <1>3, OrderBegin
<1>4. CASE Decode
  BY <1>1, <1>4, OrderDecode DEF PipelineInv
<1>5. CASE Deliver
  BY <1>1, <1>5, OrderDeliver DEF PipelineInv
<1>6. CASE Decoded
  BY <1>1, <1>6, OrderDecoded DEF PipelineInv
<1>7. CASE Finish
  BY <1>1, <1>7, OrderFinish DEF PipelineInv
<1>8. CASE UNCHANGED pipelineVars
  <2>1. UNCHANGED <<Heard, Coming, played, sent, refused>>
    BY <1>8 DEF pipelineVars, Heard, Coming
  <2>2. InOrder'
    BY <1>1, <2>1, OrderSame
  <2>3. UNCHANGED <<pcm, pcm_dropped, chunk>>
    BY <1>8 DEF pipelineVars
  <2>4. Roomy'
    BY <1>1, <2>3 DEF Roomy, RoomForDecoded, Completing
  <2> QED
    BY <1>1, <2>2, <2>4 DEF PipelineInv
<1> QED
  BY <1>1, <1>2, <1>3, <1>4, <1>5, <1>6, <1>7, <1>8 DEF PipelineNext, PipelineInv

\* What is in hand, in the order of the invariant.
LEMMA HandInOrder == FillInv /\ InOrder => AllInOrder
<1> SUFFICES ASSUME FillInv, InOrder
             PROVE  AllInOrder
  OBVIOUS
<1> DEFINE later == [i \in DOMAIN Coming |-> Coming[i].frame]
           h == Len(Heard)
           m == Len(Coming)
<1>1. /\ Heard \in Seq(Frames) /\ Coming \in Seq(SbcBytes) /\ h \in Nat /\ m \in Nat
      /\ DOMAIN Coming = 1 .. m
  BY HandTypes, LenProperties
<1>2. \A i \in 1 .. m : Coming[i].frame \in Frames
  <2>1. \A i \in 1 .. m : Coming[i] \in SbcBytes
    BY <1>1, ElementOfSeq
  <2> QED
    BY <2>1 DEF SbcBytes
<1>3. /\ later \in Seq(Frames) /\ Len(later) = m
      /\ \A i \in 1 .. m : later[i] = Coming[i].frame
  BY <1>1, <1>2
<1>4. InHand = Heard \o later
  BY DEF InHand, Heard, Coming
<1> HIDE DEF later
<1>5. /\ Len(InHand) = h + m /\ InHand \in Seq(Frames)
      /\ \A i \in 1 .. h + m : InHand[i] = IF i <= h THEN Heard[i] ELSE later[i - h]
  <2>1. /\ Len(InHand) = Len(Heard) + Len(later) /\ InHand \in Seq(Frames)
        /\ \A i \in 1 .. Len(Heard) + Len(later) :
             InHand[i] = IF i <= Len(Heard) THEN Heard[i] ELSE later[i - Len(Heard)]
    <3>1. Heard \in Seq(Frames) /\ later \in Seq(Frames)
      BY <1>1, <1>3
    <3> QED
      BY <1>4, <3>1, ConcatProperties
  <2> QED
    BY <1>3, <2>1
<1>6. DOMAIN InHand = 1 .. h + m
  BY <1>5, LenProperties
<1> HIDE DEF h, m
<1>7. ASSUME NEW i \in 1 .. h + m
      PROVE  \/ i \in 1 .. h /\ InHand[i] = Heard[i]
             \/ ~(i \in 1 .. h) /\ i - h \in 1 .. m /\ InHand[i] = Coming[i - h].frame
  BY <1>1, <1>3, <1>5
<1>8. ASSUME NEW i \in 1 .. h + m - 1
      PROVE  InHand[i] <= InHand[i + 1]
  <2> DEFINE j == i + 1
  <2>1. i \in 1 .. h + m /\ j \in 1 .. h + m /\ i <= j /\ i \in Int /\ j \in Int
    BY <1>1
  <2> HIDE DEF j
  <2>2. CASE j \in 1 .. h
    <3>1. i \in 1 .. h
      BY <1>1, <2>1, <2>2
    <3> QED
      BY <1>7, <2>1, <2>2, <3>1 DEF InOrder, Ascending, h, j
  <2>3. CASE ~(j \in 1 .. h)
    <3>1. j - h \in 1 .. m /\ InHand[j] = Coming[j - h].frame
      BY <1>7, <2>1, <2>3
    <3>2. CASE i \in 1 .. h
      <4>1. InHand[i] = Heard[i]
        BY <1>7, <2>1, <3>2
      <4> QED
        BY <3>1, <3>2, <4>1 DEF InOrder, h, m, j
    <3>3. CASE ~(i \in 1 .. h)
      <4>1. i - h \in 1 .. m /\ InHand[i] = Coming[i - h].frame /\ i - h <= j - h
        BY <1>1, <1>7, <2>1, <3>3
      <4>2. Coming[i - h].frame <= Coming[j - h].frame
        BY <3>1, <4>1 DEF InOrder, AsSent, m
      <4> QED
        BY <3>1, <4>1, <4>2 DEF j
    <3> QED
      BY <3>2, <3>3
  <2> QED
    BY <2>2, <2>3
<1>9. \A i \in 1 .. h : Heard[i] >= played
  BY <1>1 DEF InOrder, h, FillInv, PipelineTypeOK
<1>10. \A i \in 1 .. m : Coming[i].frame >= played
  BY <1>1 DEF InOrder, m, FillInv, PipelineTypeOK
<1>11. \A i \in 1 .. h + m : InHand[i] >= played
  BY <1>7, <1>9, <1>10
<1>12. ASSUME NEW f \in (played + 1 .. sent) \ refused
       PROVE  \E i \in 1 .. h + m : InHand[i] = f
  <2>1. \/ \E i \in 1 .. h : Heard[i] = f
        \/ \E i \in 1 .. m : Coming[i].frame = f
    BY DEF InOrder, h, m
  <2>2. ASSUME NEW i \in 1 .. h, Heard[i] = f
        PROVE  i \in 1 .. h + m /\ InHand[i] = f
    BY <1>1, <1>5, <2>2
  <2>3. ASSUME NEW i \in 1 .. m, Coming[i].frame = f
        PROVE  \E j \in 1 .. h + m : InHand[j] = f
    <3> DEFINE d == i + h
    <3>1. d \in 1 .. h + m /\ ~(d <= h) /\ d - h = i
      BY <1>1
    <3> HIDE DEF d
    <3>2. InHand[d] = f
      BY <1>3, <1>5, <2>3, <3>1
    <3> QED
      BY <3>1, <3>2
  <2> QED
    BY <2>1, <2>2, <2>3
<1>13. \A i \in 1 .. Len(InHand) - 1 : InHand[i] <= InHand[i + 1]
  <2>1. Len(InHand) = h + m
    BY <1>5
  <2>2. ASSUME NEW i \in 1 .. Len(InHand) - 1
        PROVE  InHand[i] <= InHand[i + 1]
    <3>1. i \in 1 .. h + m - 1
      BY <1>1, <2>1
    <3> QED
      BY <1>8, <3>1, Zenon
  <2> QED
    BY <2>2, Zenon
<1>14. \A i \in DOMAIN InHand : InHand[i] >= played
  BY <1>6, <1>11
<1>15. (played + 1 .. sent) \ refused \subseteq {InHand[i] : i \in DOMAIN InHand}
  BY <1>6, <1>12
<1> QED
  BY <1>13, <1>14, <1>15 DEF AllInOrder

\* Every frame the SBC ring took is played, once, in order and whole, and every fill is
\* filled, for all sizes of which none is more than twice another: the condition
\* under which the ring of decoded audio has room, as a2dp.c:171-174 says it has.
THEOREM PipelineCorrect ==
  ASSUME \A a, b \in Sizes : a <= 2 * b
  PROVE  PipelineSpec => []NothingLost
<1>1. PipelineInv => NothingLost
  BY HandInOrder DEF PipelineInv, FillInv, Roomy, NothingLost
<1> QED
  BY <1>1, PipelineStart, PipelineStep, PTL DEF PipelineSpec

(***************************************************************************)
(* FeedbackLoop.  That the queue keeps within its margin takes more than   *)
(* the margin: a queue near its bound, with the host still told to send    *)
(* more, would leave it.  Up to three passes of what is already told, u    *)
(* and the two before it, are counted in, and a sum of all, weighted so    *)
(* that every pass shrinks it, up to what the DAC eats: the slowest of the *)
(* loop's modes, some 390 passes long, which is why a constant drift of    *)
(* `eaten' a pass costs 420 of it.  Deviations count upwards; with every   *)
(* sign changed the same holds downwards.                                  *)
(***************************************************************************)
Within(q, a1, a2, u, f, eaten) ==
  /\ q <= 420 * eaten + 18000
  /\ q + 5 * a1 + eaten <= 420 * eaten + 18000
  /\ q + 5 * a1 + 5 * a2 + 2 * eaten <= 420 * eaten + 18000
  /\ q + 5 * a1 + 5 * a2 + 5 * u + 3 * eaten <= 420 * eaten + 18000
  /\ 609 * q + 3053 * a1 + 3062 * a2 - 1632 * f <= 609 * (396 * eaten + 18000)
  /\ 32 * u + f <= 31

\* The rates of the sound card (usb_dac.c:183), and the most the DAC eats in a pass
\* over what the host sends, with clocks 300 ppm apart.
SupportedRates == {44100, 48000, 88200, 96000}
EatenMost == (PassMs * (Nominal \div 1000) * 300) \div 1000

Rates300 ==
  /\ LoopRates \subseteq SupportedRates
  /\ Drifts \subseteq -300 .. 300

LEMMA RateNumbers ==
  ASSUME dac_rate \in SupportedRates
  PROVE  /\ Level \in Nat /\ Margin \in Nat /\ Nominal \in Nat
         /\ PacketFrames = dac_rate \div 1000 /\ PacketFrames \in 44 .. 96
         /\ EatenMost \in Nat /\ EatenMost >= 1000
         /\ 420 * EatenMost + 18000 <= Frame * (Margin \div 6)
         /\ 420 * EatenMost + Frame * PacketFrames + 36000 <= 2048 * (Nominal \div ClampDiv)
         /\ Nominal \div ClampDiv \in Nat /\ Margin \div 6 \in Nat
<1>1. CASE dac_rate = 44100
  BY <1>1 DEF Level, Margin, Nominal, PacketFrames, EatenMost, Frame, ClampDiv, PassMs
<1>2. CASE dac_rate = 48000
  BY <1>2 DEF Level, Margin, Nominal, PacketFrames, EatenMost, Frame, ClampDiv, PassMs
<1>3. CASE dac_rate = 88200
  BY <1>3 DEF Level, Margin, Nominal, PacketFrames, EatenMost, Frame, ClampDiv, PassMs
<1>4. CASE dac_rate = 96000
  BY <1>4 DEF Level, Margin, Nominal, PacketFrames, EatenMost, Frame, ClampDiv, PassMs
<1> QED
  BY <1>1, <1>2, <1>3, <1>4 DEF SupportedRates

LEMMA EatenBound ==
  ASSUME dac_rate \in SupportedRates, drift \in -300 .. 300
  PROVE  Eaten \in Int /\ Eaten <= EatenMost /\ -Eaten <= EatenMost
<1>1. CASE dac_rate = 44100
  BY <1>1 DEF Nominal, Eaten, EatenMost, PassMs, Quotient
<1>2. CASE dac_rate = 48000
  BY <1>2 DEF Nominal, Eaten, EatenMost, PassMs, Quotient
<1>3. CASE dac_rate = 88200
  BY <1>3 DEF Nominal, Eaten, EatenMost, PassMs, Quotient
<1>4. CASE dac_rate = 96000
  BY <1>4 DEF Nominal, Eaten, EatenMost, PassMs, Quotient
<1> QED
  BY <1>1, <1>2, <1>3, <1>4 DEF SupportedRates

\* A share of a packet is no more than the packet.
LEMMA ShareBound ==
  ASSUME NEW k \in Nat, NEW n \in Nat \ {0}, NEW p \in Nat
  PROVE  ((k % n) * p) \div n \in 0 .. p
<1> DEFINE j == k % n
<1>1. j \in 0 .. n - 1
  BY ModRange
<1> HIDE DEF j
<1>2. j * p \in Nat /\ j * p <= n * p
  BY <1>1
<1> DEFINE w == j * p
<1>3. w \in Nat /\ w <= n * p
  BY <1>2
<1> HIDE DEF w
<1>4. w = n * (w \div n) + (w % n) /\ w % n \in 0 .. n - 1 /\ w \div n \in Int
  BY <1>3
<1> DEFINE z == w \div n
<1>5. z \in Int /\ n * z <= n * p /\ n * (z + 1) > 0
  BY <1>3, <1>4
<1> HIDE DEF z
<1>6. z <= p /\ z >= 0
  <2>1. z >= p + 1 => n * z >= n * (p + 1)
    BY <1>5
  <2>2. z + 1 <= 0 => n * (z + 1) <= 0
    BY <1>5
  <2> QED
    BY <1>5, <2>1, <2>2
<1> QED
  BY <1>5, <1>6 DEF z, w, j

LoopInv ==
  /\ dac_rate \in LoopRates /\ drift \in Drifts /\ period \in Periods /\ pass \in Nat
  /\ queue \in Int /\ filtered_q8 \in Int /\ setpoint = Level
  /\ fb_value \in Int /\ sending \in Int \X Int
  /\ Within(queue, sending[1] - Nominal, sending[2] - Nominal, fb_value - Nominal,
            filtered_q8 - Level * 256, EatenMost)
  /\ Within(-queue - Frame * PacketFrames, Nominal - sending[1], Nominal - sending[2],
            Nominal - fb_value, Level * 256 - filtered_q8, EatenMost)
  /\ 64 * (filtered_q8 - Level * 256) <= 420 * EatenMost + Frame * PacketFrames + 36000
  /\ 64 * (Level * 256 - filtered_q8) <= 420 * EatenMost + Frame * PacketFrames + 36000

LEMMA LoopStart ==
  ASSUME LoopAssumption, Rates300
  PROVE  LoopInit => LoopInv
<1> SUFFICES ASSUME LoopInit PROVE LoopInv
  OBVIOUS
<1>1. dac_rate \in SupportedRates
  BY DEF LoopInit, Rates300
<1> DEFINE e == EatenMost
           p == Frame * PacketFrames
<1>2. Level \in Nat /\ Nominal \in Nat /\ e \in Nat /\ p \in Nat
  BY <1>1, RateNumbers DEF Frame
<1>3. sending[1] = Nominal /\ sending[2] = Nominal /\ fb_value = Nominal /\ queue = 0
      /\ filtered_q8 = Level * 256 /\ sending \in Int \X Int
  BY <1>2 DEF LoopInit
<1> HIDE DEF e, p
<1>4. Within(0, 0, 0, 0, 0, e) /\ Within(-p, 0, 0, 0, 0, e)
  BY <1>2 DEF Within
<1>5. Within(queue, sending[1] - Nominal, sending[2] - Nominal, fb_value - Nominal,
             filtered_q8 - Level * 256, e)
      /\ Within(-queue - p, Nominal - sending[1], Nominal - sending[2],
                Nominal - fb_value, Level * 256 - filtered_q8, e)
  <2>1. Nominal - Nominal = 0 /\ Level * 256 - Level * 256 = 0 /\ -queue - p = -p
    BY <1>2, <1>3
  <2> QED
    BY <1>3, <1>4, <2>1
<1>6. 64 * (filtered_q8 - Level * 256) <= 420 * e + p + 36000
      /\ 64 * (Level * 256 - filtered_q8) <= 420 * e + p + 36000
  BY <1>2, <1>3
<1> QED
  BY <1>2, <1>3, <1>5, <1>6 DEF LoopInit, LoopInv, e, p

\* What the filter and the gain lose to C's division.
LEMMA FilterLoss ==
  ASSUME NEW t \in Int
  PROVE  /\ Quotient(t, 16) \in Int
         /\ 16 * Quotient(t, 16) <= t + 15 /\ 16 * Quotient(t, 16) >= t - 15
BY DEF Quotient

LEMMA GainLoss ==
  ASSUME NEW t \in Int
  PROVE  /\ Quotient(t * 8, 256) \in Int
         /\ 32 * Quotient(t * 8, 256) <= t + 31 /\ 32 * Quotient(t * 8, 256) >= t - 31
BY DEF Quotient

\* The next value of the filter, with all that the measurement leaves out and counts in.
LEMMA NextFilter ==
  ASSUME NEW q \in Int, NEW f \in Int, NEW level \in Nat, NEW phase \in Nat, NEW p \in Nat,
         phase <= p,
         NEW next \in Int,
         next = f + Quotient((level + q \div Frame + phase) * 256 - f, 16)
  PROVE  /\ 1024 * (next - level * 256) >= 960 * (f - level * 256) + q - 17343
         /\ 1024 * (level * 256 - next)
              >= 960 * (level * 256 - f) + (-q - Frame * p) - 17343
<1> DEFINE m == q \div Frame
           t == (level + m + phase) * 256 - f
<1>1. m \in Int /\ Frame * m <= q /\ q <= Frame * m + 16383
  BY DEF Frame
<1> HIDE DEF m
<1>2. t \in Int
  BY <1>1
<1> HIDE DEF t
<1>3. Quotient(t, 16) \in Int /\ 16 * Quotient(t, 16) <= t + 15 /\ 16 * Quotient(t, 16) >= t - 15
  BY <1>2, FilterLoss
<1>4. next = f + Quotient(t, 16)
  BY DEF t, m
<1>5. 16 * (next - level * 256) <= 15 * (f - level * 256) + 256 * (m + p) + 15
      /\ 16 * (next - level * 256) >= 15 * (f - level * 256) + 256 * m - 15
  BY <1>1, <1>3, <1>4 DEF t
<1> QED
  BY <1>1, <1>5 DEF Frame

\* The clamp of the correction is out of reach.
NeverClamped ==
  pass' # pass =>
    /\ Correction(filtered_q8') <= Nominal \div ClampDiv
    /\ Correction(filtered_q8') >= -(Nominal \div ClampDiv)

LEMMA LoopStep ==
  ASSUME LoopAssumption, Rates300, LoopInv, [LoopNext]_loopVars
  PROVE  LoopInv' /\ NeverClamped
<1>1. CASE FeedbackUpdate
  <2>1. /\ dac_rate \in SupportedRates /\ drift \in -300 .. 300
        /\ period \in Nat \ {0} /\ pass \in Nat
    BY DEF LoopInv, Rates300, LoopAssumption
  <2>2. PICK e, p, level, n, limit \in Nat :
          /\ e = EatenMost /\ p = PacketFrames /\ level = Level /\ n = Nominal
          /\ limit = Nominal \div ClampDiv
    <3>1. /\ EatenMost \in Nat /\ PacketFrames \in Nat /\ Level \in Nat /\ Nominal \in Nat
          /\ Nominal \div ClampDiv \in Nat
      BY <2>1, RateNumbers
    <3> QED
      BY <3>1
  <2>3. /\ p = dac_rate \div 1000
         /\ e >= 1000 /\ 420 * e + Frame * p + 36000 <= 2048 * limit
    <3>1. /\ EatenMost >= 1000 /\ PacketFrames = dac_rate \div 1000
          /\ 420 * EatenMost + Frame * PacketFrames + 36000 <= 2048 * (Nominal \div ClampDiv)
      BY <2>1, RateNumbers
    <3> QED
      BY <2>2, <3>1
  <2>4. PICK q, f, fb, s1, s2 \in Int :
          /\ q = queue /\ f = filtered_q8 /\ fb = fb_value /\ s1 = sending[1] /\ s2 = sending[2]
    BY DEF LoopInv
  <2>5. PICK eaten \in Int : eaten = Eaten /\ eaten <= e /\ -eaten <= e
    BY <2>1, <2>2, EatenBound
  <2>6. PICK phase \in Nat : phase = Phase /\ phase <= p
    <3>1. Phase \in 0 .. p
      BY <2>1, <2>2, <2>3, ShareBound DEF Phase
    <3> QED
      BY <3>1
  <2>7. PICK next \in Int :
          /\ next = filtered_q8'
          /\ next = f + Quotient((level + q \div Frame + phase) * 256 - f, 16)
    <3>1. filtered_q8' = f + Quotient((level + q \div Frame + phase) * 256 - f, 16)
      BY <1>1, <2>2, <2>4, <2>6 DEF FeedbackUpdate, Filtered, Measured
    <3>2. (level + q \div Frame + phase) * 256 - f \in Int
      BY <2>2, <2>4, <2>6 DEF Frame
    <3>3. Quotient((level + q \div Frame + phase) * 256 - f, 16) \in Int
      BY <3>2, FilterLoss
    <3> QED
      BY <2>4, <3>1, <3>3
  <2>8. /\ 1024 * (next - level * 256) >= 960 * (f - level * 256) + q - 17343
        /\ 1024 * (level * 256 - next) >= 960 * (level * 256 - f) + (-q - Frame * p) - 17343
    BY <2>2, <2>4, <2>6, <2>7, NextFilter
  <2>9. /\ Within(q, s1 - n, s2 - n, fb - n, f - level * 256, e)
        /\ Within(-q - Frame * p, n - s1, n - s2, n - fb, level * 256 - f, e)
        /\ 64 * (f - level * 256) <= 420 * e + Frame * p + 36000
        /\ 64 * (level * 256 - f) <= 420 * e + Frame * p + 36000
    BY <2>2, <2>4 DEF LoopInv
  <2>10. /\ 64 * (next - level * 256) <= 420 * e + Frame * p + 36000
        /\ 64 * (level * 256 - next) <= 420 * e + Frame * p + 36000
    <3>1. q <= 420 * e + 18000 /\ -q - Frame * p <= 420 * e + 18000
      BY <2>9 DEF Within
    <3> QED
      BY <2>2, <2>4, <2>8, <2>9, <3>1 DEF Frame
  <2>11. PICK c \in Int :
           /\ c = Correction(filtered_q8')
           /\ 32 * c <= (level * 256 - next) + 31 /\ 32 * c >= (level * 256 - next) - 31
    <3>1. Correction(filtered_q8') = Quotient((level * 256 - next) * 8, 256)
      BY <2>2, <2>7 DEF Correction, Kp, LoopInv
    <3>2. level * 256 - next \in Int
      BY <2>2, <2>7
    <3> QED
      BY <3>1, <3>2, GainLoss
  <2>12. c <= limit /\ c >= -limit
    BY <2>2, <2>3, <2>10, <2>11 DEF Frame
  <2>13. fb_value' = n + c
    BY <1>1, <2>2, <2>11, <2>12 DEF FeedbackUpdate, Limited
  <2>14. /\ queue' = q + 5 * (s1 - n) - eaten /\ sending' = <<s2, fb>>
         /\ dac_rate' = dac_rate /\ setpoint' = level /\ pass' \in Nat
         /\ drift' = drift /\ period' = period
    BY <1>1, <2>1, <2>2, <2>4, <2>5 DEF FeedbackUpdate, Given, PassMs, LoopInv
  <2>15. PICK a1, a2, u, d, next_d \in Int :
           /\ a1 = s1 - n /\ a2 = s2 - n /\ u = fb - n
           /\ d = f - level * 256 /\ next_d = next - level * 256
    BY <2>2, <2>4, <2>7
  <2>16. PICK next_q \in Int :
           /\ next_q = q + 5 * a1 - eaten /\ next_q <= q + 5 * a1 + e
           /\ -next_q - Frame * p <= (-q - Frame * p) + 5 * (-a1) + e
    BY <2>2, <2>4, <2>5, <2>15 DEF Frame
  <2>17. Within(next_q, a2, u, c, next_d, e)
    <3>1. Within(q, a1, a2, u, d, e)
      BY <2>9, <2>15
    <3>2. 1024 * next_d >= 960 * d + q - 17343 /\ 32 * c + next_d <= 31
      BY <2>2, <2>7, <2>8, <2>11, <2>15
    <3>3. e \in Int /\ e >= 1000
      BY <2>2, <2>3
    <3> QED
      BY <2>4, <2>11, <2>15, <2>16, <3>1, <3>2, <3>3 DEF Within
  <2>18. Within(-next_q - Frame * p, -a2, -u, -c, -next_d, e)
    <3>1. /\ Within(-q - Frame * p, -a1, -a2, -u, -d, e)
      <4>1. -a1 = n - s1 /\ -a2 = n - s2 /\ -u = n - fb /\ -d = level * 256 - f
        BY <2>2, <2>4, <2>15
      <4> QED
        BY <2>9, <4>1
    <3>2. 1024 * (-next_d) >= 960 * (-d) + (-q - Frame * p) - 17343 /\ 32 * (-c) - next_d <= 31
      BY <2>2, <2>4, <2>7, <2>8, <2>11, <2>15, <3>1 DEF Frame
    <3>3. e \in Int /\ e >= 1000
      BY <2>2, <2>3
    <3> QED
      BY <2>2, <2>4, <2>11, <2>15, <2>16, <3>1, <3>2, <3>3 DEF Within, Frame
  <2>19. /\ Level' = level /\ Nominal' = n /\ EatenMost' = e /\ PacketFrames' = p
    BY <2>2, <2>14 DEF Level, Nominal, EatenMost, PacketFrames
  <2>20. /\ Within(queue', sending'[1] - n, sending'[2] - n, fb_value' - n,
                   next - level * 256, e)
         /\ Within(-queue' - Frame * p, n - sending'[1], n - sending'[2], n - fb_value',
                   level * 256 - next, e)
    <3>1. /\ queue' = next_q
          /\ sending'[1] - n = a2 /\ sending'[2] - n = u /\ fb_value' - n = c
          /\ next - level * 256 = next_d
      BY <2>2, <2>4, <2>5, <2>11, <2>13, <2>14, <2>15, <2>16
    <3>2. /\ n - sending'[1] = -a2 /\ n - sending'[2] = -u /\ n - fb_value' = -c
          /\ level * 256 - next = -next_d
      BY <2>2, <2>4, <2>7, <2>11, <2>13, <2>14, <2>15
    <3> QED
      BY <2>17, <2>18, <3>1, <3>2
  <2>21. queue' \in Int /\ fb_value' \in Int /\ sending' \in Int \X Int
    BY <2>2, <2>4, <2>5, <2>11, <2>13, <2>14
  <2>22. LoopInv'
    BY <2>7, <2>10, <2>14, <2>19, <2>20, <2>21 DEF LoopInv
  <2> QED
    BY <2>2, <2>11, <2>12, <2>22 DEF NeverClamped
<1>2. CASE UNCHANGED loopVars
  BY <1>2 DEF loopVars, LoopInv, NeverClamped, Within, Nominal, Level, EatenMost, PacketFrames
<1> QED
  BY <1>1, <1>2 DEF LoopNext, End

LEMMA LoopInvWithin ==
  ASSUME LoopAssumption, Rates300, LoopInv
  PROVE  WithinMargin
<1>1. dac_rate \in SupportedRates
  BY DEF LoopInv, Rates300
<1>2. PICK e, p, margin \in Nat :
        /\ e = EatenMost /\ p = PacketFrames /\ margin = Margin \div 6
  <2>1. EatenMost \in Nat /\ PacketFrames \in Nat /\ Margin \div 6 \in Nat
    BY <1>1, RateNumbers
  <2> QED
    BY <2>1
<1>3. 420 * e + 18000 <= Frame * margin
  BY <1>1, <1>2, RateNumbers
<1>4. queue \in Int /\ queue <= Frame * margin /\ -queue - Frame * p <= Frame * margin
  BY <1>2, <1>3 DEF LoopInv, Within, Frame
<1>5. queue \div Frame <= margin /\ -margin - p <= queue \div Frame
  BY <1>2, <1>4 DEF Frame
<1> QED
  BY <1>2, <1>5 DEF WithinMargin, Between

\* The queue never strays by more than a sixth of the margin, at every rate of the
\* sound card, for clocks up to 300 ppm apart, however the passes fall on the
\* packets and for however long (usb_dac_pcm.h:121-184).
THEOREM LoopWithinMargin ==
  ASSUME Rates300
  PROVE  LoopSpec => []WithinMargin
<1>1. LoopInit => LoopInv
  BY LoopAssumption, LoopStart
<1>2. LoopInv /\ [LoopNext]_loopVars => LoopInv'
  BY LoopAssumption, LoopStep
<1>3. LoopInv => WithinMargin
  BY LoopAssumption, LoopInvWithin
<1> QED
  BY <1>1, <1>2, <1>3, PTL DEF LoopSpec

\* And in all of this the correction is never clamped (usb_dac_pcm.h, USB_DAC_FB_CLAMP_DIV):
\* the loop is linear but for its roundings.
THEOREM ClampOutOfReach ==
  ASSUME Rates300
  PROVE  LoopSpec => [][NeverClamped]_loopVars
<1>1. LoopInit => LoopInv
  BY LoopAssumption, LoopStart
<1>2. LoopInv /\ [LoopNext]_loopVars => LoopInv' /\ [NeverClamped]_loopVars
  BY LoopAssumption, LoopStep
<1> QED
  BY <1>1, <1>2, PTL DEF LoopSpec
===============================================================================
