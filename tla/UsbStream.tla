------------------------------ MODULE UsbStream ------------------------------
(***************************************************************************)
(* The isochronous endpoints of the sound card: audio from the host (out), *)
(* feedback to it (fb).  Two buffers each, one default transfer each that  *)
(* grows by a packet with every packet, and is started anew whenever the   *)
(* endpoint is reset: by SET_CONFIGURATION, by CLEAR_FEATURE(HALT), by a   *)
(* bus reset.                                                              *)
(*                                                                         *)
(* The host does not change the configuration of, halt or revive an        *)
(* endpoint it is in the middle of using: what went through has been       *)
(* handled before such a request comes.                                    *)
(***************************************************************************)
EXTENDS UsbTransfer

CONSTANTS
  Rates,
  NumPackets       \* bound: packets are numbered modulo this

ASSUME StreamAssumption == Rates # {} /\ NumPackets \in Nat /\ NumPackets > 3

VARIABLES
  out, fb,           \* ep_audio_out, ep_feedback
  config,            \* current_config_num
  rate,              \* dac_state.rate, for which feedback is made
  request,           \* a setup packet that waits
  reset_seen, irq,
  accepted,          \* the last audio packet the controller took
  consumed,          \* the last that audio_out_packet saw
  told, since        \* the feedback the host read last, and how many it has read
                     \* since the rate changed, up to 3

endpoints == <<out, fb>>
linkVars  == <<accepted, consumed, told, since>>
streamVars == <<endpoints, config, rate, request, reset_seen, irq, linkVars>>

StreamRequests == {"configure", "unconfigure", "halt_out", "halt_fb", "clear_out", "clear_fb"}

\* usb_hard_reset_endpoint, with usb_set_default_transfer's transfer.
Restart(ep, configured, data) ==
  IF configured THEN Start(Reset(ep, TRUE), "iso", 1, data) ELSE Reset(ep, TRUE)

StreamInit ==
  /\ \E r \in Rates : rate = r /\ told = r
  /\ out = Restart(NewEndpoint(FALSE, 2), FALSE, NoData)
  /\ fb = Restart(NewEndpoint(TRUE, 2), FALSE, NoData)
  /\ config = 0 /\ request = "none" /\ reset_seen = FALSE /\ irq = {}
  /\ accepted = 0 /\ consumed = 0 /\ since = 3

Pending ==
  (IF request # "none" THEN {"setup"} ELSE {})
  \cup (IF out.raised # <<>> \/ fb.raised # <<>> THEN {"buffers"} ELSE {})
  \cup (IF reset_seen THEN {"reset"} ELSE {})
Quiet == irq = {} /\ Pending = {}

\* usb_device_irq_handler.
IrqEnter ==
  /\ irq = {} /\ Pending # {} /\ irq' = Pending
  /\ UNCHANGED <<endpoints, config, rate, request, reset_seen, linkVars>>

\* Mutant: the packet is looked for where the last one was.
AudioPacket_LastPlace == out.buf[out.take].data

\* What audio_out_packet finds in usb_current_out_packet_buffer.
AudioPacket == out.buf[Head(out.raised)].data

\* Mutant: feedback repeats what it told last.
FeedbackPacket_Repeat == told

\* What feedback_packet puts in a buffer.
FeedbackPacket == rate

\* _usb_handle_set_config.
Configure(c) ==
  /\ config' = c
  /\ out' = Restart(out, c # 0, NoData) /\ fb' = Restart(fb, c # 0, FeedbackPacket)

\* _usb_default_handle_endpoint_setup_request: an endpoint is found only in a
\* configured device.
Feature(ep, halt, data) ==
  IF config = 0 THEN ep ELSE IF halt THEN Stall(ep, "halted") ELSE Restart(ep, TRUE, data)

IrqSetup ==
  /\ "setup" \in irq
  /\ CASE request \in {"configure", "unconfigure"} ->
            Configure(IF request = "configure" THEN 1 ELSE 0)
       [] request \in {"halt_out", "clear_out"} ->
            out' = Feature(out, request = "halt_out", NoData) /\ UNCHANGED <<fb, config>>
       [] OTHER ->
            fb' = Feature(fb, request = "halt_fb", FeedbackPacket) /\ UNCHANGED <<out, config>>
  /\ request' = "none" /\ irq' = irq \ {"setup"}
  /\ UNCHANGED <<rate, reset_seen, linkVars>>

\* _usb_handle_buffer: one buffer of each endpoint that has raised one.
\* audio_out_packet sees the packet, feedback_packet fills the buffer given back.
IrqBuffers ==
  /\ "buffers" \in irq /\ "setup" \notin irq
  /\ IF out.raised = <<>> THEN UNCHANGED <<out, consumed>>
     ELSE /\ consumed' = IF out.xfer.kind = "iso" THEN AudioPacket ELSE consumed
          /\ out' = Handle(out, NoData)
  /\ fb' = IF fb.raised = <<>> THEN fb ELSE Handle(fb, FeedbackPacket)
  /\ irq' = irq \ {"buffers"}
  /\ UNCHANGED <<config, rate, request, reset_seen, accepted, told, since>>

\* _usb_handle_bus_reset.  What the controller took and nobody saw is dropped.
IrqReset ==
  /\ irq = {"reset"}
  /\ config' = 0
  /\ out' = [Restart(out, FALSE, NoData) EXCEPT !.raised = <<>>]
  /\ fb' = [Restart(fb, FALSE, NoData) EXCEPT !.raised = <<>>]
  /\ reset_seen' = FALSE /\ irq' = {}
  /\ consumed' = accepted
  /\ UNCHANGED <<rate, request, accepted, told, since>>

\* A SET_CUR of the rate, complete in an interrupt of its own.
SetRate ==
  /\ irq = {} /\ \E r \in Rates \ {rate} : rate' = r
  /\ since' = 0
  /\ UNCHANGED <<endpoints, config, request, reset_seen, irq, accepted, consumed, told>>

\* The host sends an audio packet.  One that finds no buffer is lost.
Send ==
  /\ request = "none" /\ ~ reset_seen /\ Ready(out)
  /\ accepted' = (accepted + 1) % NumPackets
  /\ out' = Through(out, accepted')
  /\ UNCHANGED <<fb, config, rate, request, reset_seen, irq, consumed, told, since>>

\* The host reads a feedback packet.
Read ==
  /\ request = "none" /\ ~ reset_seen /\ Ready(fb)
  /\ told' = fb.buf[fb.hw].data
  /\ since' = IF since < 3 THEN since + 1 ELSE since
  /\ fb' = Through(fb, NoData)
  /\ UNCHANGED <<out, config, rate, request, reset_seen, irq, accepted, consumed>>

Ask ==
  /\ Quiet /\ \E r \in StreamRequests : request' = r
  /\ UNCHANGED <<endpoints, config, rate, reset_seen, irq, linkVars>>

BusReset ==
  /\ ~ reset_seen /\ request = "none" /\ reset_seen' = TRUE
  /\ UNCHANGED <<endpoints, config, rate, request, irq, linkVars>>

Irq == IrqEnter \/ IrqSetup \/ IrqBuffers \/ IrqReset
Host == Send \/ Read \/ Ask \/ BusReset
StreamNext == Irq \/ Host \/ SetRate

StreamSpec == StreamInit /\ [][StreamNext]_streamVars

-----------------------------------------------------------------------------
StreamTypeOK ==
  /\ \A ep \in {out, fb} :
       /\ ep.bufs = 2 /\ ep.owned \in 0 .. 2
       /\ ep.give \in {0, 1} /\ ep.take \in {0, 1} /\ ep.hw \in {0, 1} /\ ep.pid \in {0, 1}
       /\ ep.halt \in {"none", "halted"} /\ ep.stall \in BOOLEAN
       /\ ep.xfer.kind \in {"none", "iso"} /\ ep.xfer.submit \in 0 .. 1 /\ ep.xfer.handle \in 0 .. 3
       /\ Len(ep.raised) <= 2
  /\ config \in {0, 1} /\ rate \in Rates /\ told \in Rates
  /\ request \in StreamRequests \cup {"none"} /\ irq \subseteq {"setup", "buffers", "reset"}
  /\ accepted \in 0 .. NumPackets - 1 /\ consumed \in 0 .. NumPackets - 1 /\ since \in 0 .. 3

\* Each of the two buffers of an endpoint is the processor's, the controller's
\* or raised.
BuffersAccounted == irq = {} => Accounted(out) /\ Accounted(fb)

\* With nothing left to handle, an endpoint that is configured and not halted has
\* a buffer with the controller, in the place the controller looks at next.
EndpointsAlive ==
  config # 0 /\ Quiet => \A ep \in {out, fb} : ep.halt = "none" => Ready(ep)

\* No buffer is lost and no stream dries up, whatever configurations, halts, bus
\* resets and packets came (usb_device.c:127-161, 284-310, 421-549).
StreamsAlive == StreamTypeOK /\ BuffersAccounted /\ EndpointsAlive

\* Every packet the controller took reaches audio_out_packet, once and in order,
\* and none is left behind; only a bus reset drops any (usb_device.c:480-549).
PacketsInOrder ==
  /\ [][consumed' # consumed =>
         consumed' = (consumed + 1) % NumPackets \/ irq = {"reset"}]_streamVars
  /\ [](Quiet => consumed = accepted)

\* Feedback made for another rate is read at most twice after the rate changed:
\* both buffers are filled ahead, and no more than these.
FeedbackCatchesUp == since = 3 => told = rate

\* "a rate change can land in between: a value made for another rate is far
\* outside this one's clamp, and the host must not be told it" (usb_dac.c:759).
NeverToldOldRate == since > 0 => told = rate
=============================================================================
