------------------------------- MODULE UsbDac -------------------------------
(***************************************************************************)
(* usb_dac.c: the USB sound card.  The USB interrupt records what the host *)
(* selects and unpacks its packets into a ring; the main loop starts and   *)
(* stops playback, hands the ring's frames to audio_out and steers the     *)
(* host with feedback.                                                     *)
(*                                                                         *)
(* The interrupt preempts the main loop between any two accesses to what   *)
(* they share, never the other way round: a handler is one action, and the *)
(* main loop one action per access.  The host may do anything at any time. *)
(* audio_out is reduced to its free buffers (room) and its sample rate;    *)
(* AudioOut has the rest.                                                  *)
(*                                                                         *)
(* A frame is the index it was queued under and the selection the host     *)
(* sent it for.  A selection is named by stream_generation, which every    *)
(* change of it bumps.                                                     *)
(***************************************************************************)
EXTENDS Integers

CONSTANTS
  Alts,            \* the alternate settings with a format: 1 and 2
  Rates,           \* supported_rates, in Hz
  PlayableRates,   \* those audio_out accepts
  RingFrames,      \* USB_DAC_RING_FRAMES
  IndexModulus,    \* 2^32: where the frame counts wrap
  BufferFrames,    \* audio_out_frames_per_buffer()
  StartMargin,     \* frames on top of a buffer that open the gate
  PacketFrames,    \* the frames a packet may hold
  NumBuffers,      \* bound: the output's buffers
  Timeout,         \* USB_DAC_STREAM_TIMEOUT_US, in ticks
  ClockModulus,    \* 2^32 us, in ticks: where time_us_32 wraps
  MaxGeneration    \* bound: the selections the host makes

ASSUME SelectionsAssumption ==
  /\ 0 \notin Alts /\ Alts \subseteq Nat
  /\ Rates \subseteq Nat \ {0} /\ Rates # {} /\ PlayableRates \subseteq Rates
ASSUME RingAssumption ==
  /\ RingFrames \in Nat \ {0} /\ IndexModulus \in Nat
  /\ IndexModulus > RingFrames /\ IndexModulus % RingFrames = 0
  /\ PacketFrames \subseteq Nat
  /\ BufferFrames \in Nat \ {0} /\ StartMargin \in Nat
  /\ NumBuffers \in Nat \ {0}
ASSUME TimeAssumption ==
  Timeout \in Nat \ {0} /\ ClockModulus \in Nat /\ ClockModulus > Timeout
ASSUME GenerationAssumption == MaxGeneration \in Nat

VARIABLES
  \* the USB interrupt
  alt, rate,             \* dac_state
  stream_generation,
  have_packet,
  age,                   \* time_us_32() - last_packet_us
  write_index, ring,
  rx,                    \* the selection of a packet that came before a setup
                         \* packet and is handled after it
  \* shared, written by the main loop
  accepting, read_index, feedback_value,
  \* stream_update
  pc,
  generation, s_alt, s_rate, any_packet, s_age, want,
  playing, played_alt, played_rate, played_generation,
  refused, refused_rate, refused_generation,
  \* dac_fill
  starting,              \* called from audio_out_start
  left,                  \* the buffers the walk has still to look at,
  todo,                  \* and how many of them it will find free
  level, gate_open, gate_just_opened,
  \* feedback_update
  fb_active, fb_nominal,
  \* audio_out
  out_rate, room,
  \* what the properties look at
  selected,              \* the alt and the rate of each selection so far
  alt_generation,        \* the last SET_INTERFACE
  live,                  \* a packet sent since then was handled
  quiet                  \* ticks since the last packet with data, up to Timeout

usbVars    == <<alt, rate, stream_generation, selected, alt_generation>>
packetVars == <<have_packet, age, live, quiet, rx>>
seenVars   == <<generation, s_alt, s_rate, any_packet, s_age, want>>
playVars   == <<playing, played_alt, played_rate, played_generation>>
refuseVars == <<refused, refused_rate, refused_generation>>
gateVars   == <<gate_open, gate_just_opened>>
fillVars   == <<starting, left, todo, level>>
fbVars     == <<feedback_value, fb_active, fb_nominal>>
outVars    == <<out_rate, room>>
ringVars   == <<write_index, ring>>
mainVars   == <<pc, seenVars, playVars, refuseVars, gateVars, fillVars, fbVars,
                accepting, read_index>>
vars == <<usbVars, packetVars, ringVars, mainVars, outVars>>

Generations == 0 .. MaxGeneration
None == -1

Slot(i) == i % RingFrames
Plus(i, k) == (i + k) % IndexModulus

\* usb_dac_ring_level and usb_dac_ring_free.
RingLevel == (write_index - read_index) % IndexModulus

\* Mutant: one frame too many.
RingFree_OneMore == RingFrames - RingLevel + 1

RingFree == RingFrames - RingLevel

\* feedback_nominal, and how far from it the feedback may be.
Nominal(r) == (r * 16384 + 500) \div 1000
Limit(r)   == Nominal(r) \div 128

\* The supported rates are as far apart as feedback_packet takes them to be: a value
\* made for one is outside the clamp of any other.
ASSUME RatesApartAssumption ==
  \A r1, r2 \in Rates :
    r1 < r2 => Nominal(r1) + Limit(r1) < Nominal(r2) - Limit(r2)

\* The values usb_dac_fb_update returns: the clamp's two ends stand for all.
Steered(nominal) == {nominal - nominal \div 128, nominal + nominal \div 128}

\* What the interrupt writes, ...
UsbTypes ==
  /\ alt \in Alts \cup {0} /\ rate \in Rates
  /\ stream_generation \in Generations /\ alt_generation \in Generations
  /\ have_packet \in BOOLEAN /\ live \in BOOLEAN
  /\ age \in 0 .. ClockModulus - 1 /\ quiet \in 0 .. Timeout
  /\ rx \in Generations \cup {None}

\* ... what it shares with the main loop, ...
RingTypes ==
  /\ write_index \in 0 .. IndexModulus - 1 /\ read_index \in 0 .. IndexModulus - 1
  /\ RingLevel <= RingFrames
  /\ ring \in [0 .. RingFrames - 1 ->
                 [index : 0 .. IndexModulus - 1, sent : Generations]]

\* ... what stream_update keeps, ...
SeenTypes ==
  /\ generation \in Generations /\ s_alt \in Alts \cup {0} /\ s_rate \in Rates
  /\ any_packet \in BOOLEAN /\ s_age \in 0 .. ClockModulus - 1 /\ want \in BOOLEAN
  /\ refused \in BOOLEAN /\ refused_rate \in Rates /\ refused_generation \in Generations

PlayTypes ==
  /\ playing \in BOOLEAN /\ accepting \in BOOLEAN /\ starting \in BOOLEAN
  /\ played_alt \in Alts \cup {0} /\ played_rate \in Rates
  /\ played_generation \in Generations
  /\ pc \in {"generation", "alt", "rate", "packet", "last", "check", "clock",
             "decide", "reset", "restart", "accept", "service", "fill", "copy",
             "feedback", "steer"}

\* ... and what the output and the feedback are at.
FillTypes ==
  /\ left \in 0 .. NumBuffers /\ todo \in 0 .. left /\ room \in 0 .. NumBuffers
  /\ level \in 0 .. RingFrames /\ out_rate \in Rates
  /\ gate_open \in BOOLEAN /\ gate_just_opened \in BOOLEAN

FeedbackTypes ==
  /\ fb_active \in BOOLEAN
  /\ fb_nominal \in {Nominal(r) : r \in Rates}
  /\ feedback_value \in {0} \cup UNION {Steered(Nominal(r)) : r \in Rates}

TypeOK ==
  UsbTypes /\ RingTypes /\ SeenTypes /\ PlayTypes /\ FillTypes /\ FeedbackTypes

\* The output runs at the default rate, nothing is selected.
Init ==
  \E r \in PlayableRates :
    /\ alt = 0 /\ rate = r /\ stream_generation = 0
    /\ selected = [g \in Generations |-> <<0, r>>] /\ alt_generation = 0
    /\ have_packet = FALSE /\ age = 0 /\ live = FALSE /\ quiet = Timeout
    /\ write_index = 0 /\ read_index = 0
    /\ ring = [s \in 0 .. RingFrames - 1 |-> [index |-> s, sent |-> 0]]
    /\ rx = None
    /\ accepting = FALSE /\ playing = FALSE
    /\ pc = "generation" /\ generation = 0 /\ s_alt = 0 /\ s_rate = r
    /\ any_packet = FALSE /\ s_age = 0 /\ want = FALSE
    /\ played_alt = 0 /\ played_rate = r /\ played_generation = 0
    /\ refused = FALSE /\ refused_rate = r /\ refused_generation = 0
    /\ starting = FALSE /\ left = 0 /\ todo = 0 /\ level = 0
    /\ gate_open = FALSE /\ gate_just_opened = FALSE
    /\ feedback_value = 0 /\ fb_active = FALSE /\ fb_nominal = Nominal(r)
    /\ out_rate = r /\ room = NumBuffers

-----------------------------------------------------------------------------
(***************************************************************************)
(* The USB interrupt.  It handles a setup packet before the buffers, so a  *)
(* packet received before a SET_INTERFACE, in the same entry, is handled   *)
(* after it.                                                               *)
(***************************************************************************)

\* Perhaps a packet has come by then.
PacketBehind == rx' \in {None} \cup (IF alt # 0 THEN {stream_generation} ELSE {})

\* as_set_alternate.
SetAlternate(a) ==
  /\ rx = None
  /\ stream_generation < MaxGeneration
  /\ alt' = a
  /\ have_packet' = FALSE
  /\ stream_generation' = stream_generation + 1
  /\ selected' = [selected EXCEPT ![stream_generation'] = <<a, rate>>]
  /\ alt_generation' = stream_generation'
  /\ live' = FALSE
  /\ PacketBehind
  /\ UNCHANGED <<rate, age, quiet, ringVars, mainVars, outVars>>

\* set_cur_packet: the host sets another rate.
SetRate(r) ==
  /\ rx = None
  /\ stream_generation < MaxGeneration
  /\ r # rate
  /\ rate' = r
  /\ stream_generation' = stream_generation + 1
  /\ selected' = [selected EXCEPT ![stream_generation'] = <<alt, r>>]
  /\ PacketBehind
  /\ UNCHANGED <<alt, alt_generation, have_packet, age, live, quiet, ringVars,
                 mainVars, outVars>>

\* All of the packet goes into the ring, or none of it.
Unpack(frames, sent) ==
  IF accepting /\ frames <= RingFree
    THEN /\ write_index' = Plus(write_index, frames)
         /\ ring' = [s \in DOMAIN ring |->
                       LET k == (s - write_index) % RingFrames
                       IN  IF k < frames
                             THEN [index |-> Plus(write_index, k), sent |-> sent]
                             ELSE ring[s]]
    ELSE UNCHANGED ringVars

\* audio_out_packet.  The host sends while a format is selected.
AudioOutPacket(frames) ==
  LET sent == IF rx = None THEN stream_generation ELSE rx
  IN  /\ rx # None \/ alt # 0
      /\ rx' = None
      /\ IF alt # 0
           THEN /\ age' = 0 /\ quiet' = 0
                /\ have_packet' = TRUE
                /\ live' = (live \/ sent >= alt_generation)
                /\ Unpack(frames, sent)
           ELSE UNCHANGED <<age, quiet, have_packet, live, ringVars>>
      /\ UNCHANGED <<usbVars, mainVars, outVars>>

UsbInterrupt ==
  \/ \E a \in Alts \cup {0} : SetAlternate(a)
  \/ \E r \in Rates : SetRate(r)
  \/ \E frames \in PacketFrames : AudioOutPacket(frames)

\* Time passes; the reads from last_packet_us to the clock take none.
Tick ==
  /\ pc \notin {"check", "clock"}
  /\ age' = (age + 1) % ClockModulus
  /\ quiet' = IF quiet < Timeout THEN quiet + 1 ELSE quiet
  /\ UNCHANGED <<usbVars, have_packet, live, rx, ringVars, mainVars, outVars>>

\* The output has played a buffer.
Drain ==
  /\ room < NumBuffers
  /\ room' = room + 1
  /\ UNCHANGED <<usbVars, packetVars, ringVars, mainVars, out_rate>>

-----------------------------------------------------------------------------
(***************************************************************************)
(* The main loop: stream_update.  It reads again until the generation      *)
(* holds still.                                                            *)
(***************************************************************************)
At(here) == pc = here /\ rx = None     \* the interrupt goes first
Goto(there) == pc' = there

ReadGeneration ==
  /\ At("generation") /\ Goto("alt")
  /\ generation' = stream_generation
  /\ UNCHANGED <<usbVars, packetVars, ringVars, s_alt, s_rate, any_packet, s_age,
                 want, playVars, refuseVars, gateVars, fillVars, fbVars,
                 accepting, read_index, outVars>>

ReadAlt ==
  /\ At("alt") /\ Goto("rate")
  /\ s_alt' = alt
  /\ UNCHANGED <<usbVars, packetVars, ringVars, generation, s_rate, any_packet,
                 s_age, want, playVars, refuseVars, gateVars, fillVars, fbVars,
                 accepting, read_index, outVars>>

ReadRate ==
  /\ At("rate") /\ Goto("packet")
  /\ s_rate' = rate
  /\ UNCHANGED <<usbVars, packetVars, ringVars, generation, s_alt, any_packet,
                 s_age, want, playVars, refuseVars, gateVars, fillVars, fbVars,
                 accepting, read_index, outVars>>

ReadPacket ==
  /\ At("packet") /\ Goto("last")
  /\ any_packet' = have_packet
  /\ UNCHANGED <<usbVars, packetVars, ringVars, generation, s_alt, s_rate, s_age,
                 want, playVars, refuseVars, gateVars, fillVars, fbVars,
                 accepting, read_index, outVars>>

ReadLast ==
  /\ At("last") /\ Goto("check")
  /\ s_age' = age
  /\ UNCHANGED <<usbVars, packetVars, ringVars, generation, s_alt, s_rate,
                 any_packet, want, playVars, refuseVars, gateVars, fillVars, fbVars,
                 accepting, read_index, outVars>>

\* Mutant: the host is told the last value until the next.
FeedbackReset_Value == fb_active' = FALSE /\ UNCHANGED feedback_value

FeedbackReset == fb_active' = FALSE /\ feedback_value' = 0

\* Mutant: what was read is taken as it is.
HeldStill_Unchecked == TRUE

HeldStill == generation = stream_generation

CheckGeneration ==
  /\ At("check") /\ Goto(IF HeldStill THEN "clock" ELSE "generation")
  /\ UNCHANGED <<usbVars, packetVars, ringVars, seenVars, playVars, refuseVars,
                 gateVars, fillVars, fbVars, accepting, read_index, outVars>>

ReadClock ==
  /\ At("clock") /\ Goto("decide")
  /\ want' = (s_alt # 0 /\ any_packet /\ s_age < Timeout)
  /\ any_packet' = FALSE /\ s_age' = 0     \* read for the last time
  /\ UNCHANGED <<usbVars, packetVars, ringVars, generation, s_alt, s_rate, playVars,
                 refuseVars, gateVars, fillVars, fbVars, accepting, read_index,
                 outVars>>

\* Mutant: a selection that comes back to the same alt and rate plays on.
Changed_NoGeneration == s_alt # played_alt \/ s_rate # played_rate

Changed ==
  \/ s_alt # played_alt \/ s_rate # played_rate
  \/ generation # played_generation

\* Mutant: only for a stream to follow.
MustStop_IfWanted == playing /\ want /\ Changed

MustStop == playing /\ (~want \/ Changed)

Stop ==
  /\ At("decide") /\ Goto("reset")
  /\ MustStop
  /\ accepting' = FALSE
  /\ playing' = FALSE
  /\ UNCHANGED <<usbVars, packetVars, ringVars, seenVars, played_alt, played_rate,
                 played_generation, refuseVars, gateVars, fillVars, fbVars,
                 read_index, outVars>>

PlayOn ==
  /\ At("decide") /\ Goto("restart")
  /\ ~MustStop
  /\ UNCHANGED <<usbVars, packetVars, ringVars, seenVars, playVars, refuseVars,
                 gateVars, fillVars, fbVars, accepting, read_index, outVars>>

\* feedback_reset, after a stop.
StopFeedback ==
  /\ At("reset") /\ Goto("restart")
  /\ FeedbackReset
  /\ UNCHANGED <<usbVars, packetVars, ringVars, seenVars, playVars, refuseVars,
                 gateVars, fillVars, fb_nominal, accepting, read_index, outVars>>

\* Mutant: a refusal is for good.
StillRefused_Forever == refused

StillRefused ==
  refused /\ s_rate = refused_rate /\ generation = refused_generation

NoStart ==
  /\ At("restart") /\ Goto("service")
  /\ playing \/ ~want \/ StillRefused
  /\ refused' = StillRefused
  /\ UNCHANGED <<usbVars, packetVars, ringVars, seenVars, playVars, refused_rate,
                 refused_generation, gateVars, fillVars, fbVars, accepting,
                 read_index, outVars>>

EmptyRing == read_index' = write_index

\* A stream starts: from an empty ring, if the output takes the rate.
Start ==
  /\ At("restart")
  /\ ~playing /\ want /\ ~StillRefused
  /\ accepting' = FALSE
  /\ EmptyRing
  /\ IF s_rate = out_rate \/ s_rate \in PlayableRates
       THEN /\ Goto("accept")
            /\ out_rate' = s_rate
            /\ gate_open' = FALSE /\ gate_just_opened' = FALSE
            /\ refused' = FALSE
            /\ UNCHANGED <<refused_rate, refused_generation>>
       ELSE /\ Goto("service")
            /\ refused' = TRUE
            /\ refused_rate' = s_rate /\ refused_generation' = generation
            /\ UNCHANGED <<out_rate, gateVars>>
  /\ UNCHANGED <<usbVars, packetVars, ringVars, seenVars, playVars, fillVars, fbVars,
                 room>>

\* audio_out_service looks at every buffer once, and fills those that are free.
WalkBegins == left' = NumBuffers /\ todo' = room

\* ... to audio_out_start, which services at once.
Accept ==
  /\ At("accept") /\ Goto("fill")
  /\ FeedbackReset
  /\ accepting' = TRUE
  /\ played_alt' = s_alt /\ played_rate' = s_rate /\ played_generation' = generation
  /\ starting' = TRUE
  /\ WalkBegins
  /\ UNCHANGED <<usbVars, packetVars, ringVars, seenVars, playing, refuseVars,
                 gateVars, level, fb_nominal, read_index, outVars>>

-----------------------------------------------------------------------------
(***************************************************************************)
(* audio_out_service and dac_fill.  A buffer freed after the walk has      *)
(* passed it waits for the next one.                                       *)
(***************************************************************************)
Service ==
  /\ At("service")
  /\ IF playing THEN Goto("fill") /\ WalkBegins
                ELSE Goto("feedback") /\ UNCHANGED <<left, todo>>
  /\ UNCHANGED <<usbVars, packetVars, ringVars, seenVars, playVars, refuseVars,
                 gateVars, starting, level, fbVars, accepting, read_index, outVars>>

\* A buffer that is not free.
Skip ==
  /\ At("fill")
  /\ todo < left
  /\ left' = left - 1
  /\ UNCHANGED <<usbVars, packetVars, ringVars, pc, seenVars, playVars, refuseVars,
                 gateVars, starting, todo, level, fbVars, accepting, read_index,
                 outVars>>

FindsFree == At("fill") /\ left > 0 /\ room > 0

FilledOne ==
  /\ room' = room - 1
  /\ left' = left - 1
  /\ todo' = IF todo > 0 THEN todo - 1 ELSE 0

\* The gate: silence until a buffer and a margin are queued.
GateOpens == gate_open \/ RingLevel >= BufferFrames + StartMargin

FillSilence ==
  /\ FindsFree
  /\ ~GateOpens
  /\ FilledOne
  /\ UNCHANGED <<usbVars, packetVars, ringVars, pc, seenVars, playVars, refuseVars,
                 gateVars, starting, level, fbVars, accepting, read_index,
                 out_rate>>

FillBegin ==
  /\ FindsFree /\ Goto("copy")
  /\ GateOpens
  /\ level' = RingLevel
  /\ gate_open' = TRUE
  /\ gate_just_opened' = (gate_just_opened \/ ~gate_open)
  /\ UNCHANGED <<usbVars, packetVars, ringVars, seenVars, playVars, refuseVars,
                 starting, left, todo, fbVars, accepting, read_index, outVars>>

\* How many of the queued frames go into the buffer.
FillFrames == IF level < BufferFrames THEN level ELSE BufferFrames

\* The frames are copied, then their place is given back.
FillEnd ==
  /\ At("copy") /\ Goto("fill")
  /\ read_index' = Plus(read_index, FillFrames)
  /\ IF level < BufferFrames
       THEN gate_open' = FALSE /\ gate_just_opened' = FALSE
       ELSE UNCHANGED gateVars
  /\ level' = 0
  /\ FilledOne
  /\ UNCHANGED <<usbVars, packetVars, ringVars, seenVars, playVars, refuseVars,
                 starting, fbVars, accepting, out_rate>>

ServiceEnd ==
  /\ At("fill") /\ Goto(IF starting THEN "service" ELSE "feedback")
  /\ left = 0
  /\ playing' = TRUE      \* at the end of audio_out_start; it is TRUE otherwise
  /\ starting' = FALSE
  /\ UNCHANGED <<usbVars, packetVars, ringVars, seenVars, played_alt, played_rate,
                 played_generation, refuseVars, gateVars, left, todo, level, fbVars,
                 accepting, read_index, outVars>>

-----------------------------------------------------------------------------
(***************************************************************************)
(* feedback_update.                                                        *)
(***************************************************************************)
NoFeedback ==
  /\ At("feedback") /\ Goto("generation")
  /\ ~playing \/ ~gate_open
  /\ IF fb_active THEN FeedbackReset ELSE UNCHANGED <<feedback_value, fb_active>>
  /\ UNCHANGED <<usbVars, packetVars, ringVars, seenVars, playVars, refuseVars,
                 gateVars, fillVars, fb_nominal, accepting, read_index, outVars>>

\* The queue is measured, then the nominal value is taken from dac_state.rate.
Measure ==
  /\ At("feedback")
  /\ playing /\ gate_open
  /\ fb_nominal' = Nominal(rate)
  /\ fb_active' = (fb_active \/ gate_just_opened)
  /\ gate_just_opened' = FALSE
  /\ Goto(IF fb_active' THEN "steer" ELSE "generation")
  /\ UNCHANGED <<usbVars, packetVars, ringVars, seenVars, playVars, refuseVars,
                 gate_open, fillVars, feedback_value, accepting, read_index,
                 outVars>>

Steer ==
  /\ At("steer") /\ Goto("generation")
  /\ feedback_value' \in Steered(fb_nominal)
  /\ UNCHANGED <<usbVars, packetVars, ringVars, seenVars, playVars, refuseVars,
                 gateVars, fillVars, fb_active, fb_nominal, accepting, read_index,
                 outVars>>

MainLoop ==
  \/ ReadGeneration \/ ReadAlt \/ ReadRate \/ ReadPacket \/ ReadLast
  \/ CheckGeneration \/ ReadClock
  \/ Stop \/ PlayOn \/ StopFeedback \/ NoStart \/ Start \/ Accept
  \/ Service \/ Skip \/ FillSilence \/ FillBegin \/ FillEnd \/ ServiceEnd
  \/ NoFeedback \/ Measure \/ Steer

Next == MainLoop \/ UsbInterrupt \/ Tick \/ Drain

Spec == Init /\ [][Next]_vars

\* The interrupt handles all it was raised for, and the main loop goes round.
\* Nothing obliges the host to send, nor the output to play.
Handling == rx # None /\ \E frames \in PacketFrames : AudioOutPacket(frames)

FairSpec == Spec /\ WF_vars(Handling) /\ WF_vars(MainLoop)

-----------------------------------------------------------------------------
(***************************************************************************)
(* feedback_packet: what the host reads.  A value made for another rate is *)
(* not for its ears.                                                       *)
(***************************************************************************)

\* Mutant: the value is sent as it is.
MadeFor_Any(r) == feedback_value # 0

MadeFor(r) ==
  /\ feedback_value # 0
  /\ feedback_value <= Nominal(r) + Limit(r)
  /\ feedback_value + Limit(r) >= Nominal(r)

Sent == IF MadeFor(rate) THEN feedback_value ELSE Nominal(rate)

-----------------------------------------------------------------------------
(***************************************************************************)
(* What the sound card promises.                                           *)
(***************************************************************************)

\* The producer never overwrites a frame the consumer has not given back, even
\* while it copies, nor skips one, wherever the counts are in their wrap: the
\* next level frames to play are the ones queued under the next indices.
RingIntact ==
  /\ RingLevel <= RingFrames
  /\ pc = "copy" => level <= RingLevel
  /\ \A k \in 0 .. RingFrames - 1 :
       k < RingLevel =>
         LET i == Plus(read_index, k) IN ring[Slot(i)].index = i

\* No frame is played that the host sent for a selection before the one this
\* pass plays, not even after an alt 2 -> 0 -> 2 bounce between two passes.
NothingFromOldSelection ==
  pc = "copy" =>
    \A k \in 0 .. RingFrames - 1 :
      k < FillFrames => ring[Slot(Plus(read_index, k))].sent >= generation

\* What plays is a selection the host has made, its format with its rate, and
\* the output runs at that rate: alt and rate read across the interrupt's
\* changes are never paired.
PlaysOneSelection ==
  playing \/ starting =>
    /\ selected[played_generation] = <<played_alt, played_rate>>
    /\ played_rate = out_rate

\* The host is steered exactly while its audio goes to the output: from the
\* pass the gate opens in to the one it runs dry, or the stream ends.
SteeredWhileAudible ==
  pc = "generation" =>
    /\ fb_active <=> playing /\ gate_open
    /\ fb_active <=> feedback_value # 0

\* Whatever the interrupt changes between the measurement, the value and the
\* moment feedback_packet puts it in a buffer, what goes in is made or steered
\* for the rate then selected: never for another (usb_dac.c:754-763).  Which
\* buffer the host reads when is UsbStream's.
FeedbackForThisRate == Sent \in Steered(Nominal(rate)) \cup {Nominal(rate)}

\* What the comment on last_packet_us says of the time since the last packet,
\* that it survives the clock's wrap: a stream is wanted only with a packet in
\* the last USB_DAC_STREAM_TIMEOUT_US.
OnlyLiveStreams == [][ReadClock /\ want' => quiet < Timeout]_vars

\* What as_set_alternate says: "A packet from the previous selection must not
\* count as a live stream".
OldPacketsDoNotCount == have_packet => live

\* A host that has settled on a format and a rate the output takes, and keeps
\* sending, is played, for good; whatever it selected, or was refused, before.
StreamsPlay ==
  <>[](/\ alt # 0 /\ rate \in PlayableRates
       /\ have_packet /\ quiet < Timeout)
    => <>[]playing

\* A host that has settled on the idle setting is not.
StreamsStop == <>[](alt = 0) => <>[](~playing)
=============================================================================
