----------------------------- MODULE UsbTransfer -----------------------------
(***************************************************************************)
(* usb_device.c: an endpoint, its one or two packet buffers and the        *)
(* transfer in progress on it.  A buffer is the processor's, or given to   *)
(* the controller ("hw") until a packet has gone through it; the           *)
(* controller then raises the buffer's bit (raised), in order.             *)
(*                                                                         *)
(* The operators map an endpoint to the endpoint after the call of the     *)
(* same name.  PAB's on_packet handlers end with usb_packet_done, except   *)
(* that of SET_CUR, so a call of one is: grow the transfer if it is        *)
(* isochronous, then give.  There are at most two buffers, so what the     *)
(* code does recursively takes at most two steps.                          *)
(***************************************************************************)
EXTENDS Integers, Sequences, FiniteSets

CONSTANT NoData   \* an empty buffer

NoTransfer == [kind |-> "none", submit |-> 0, handle |-> 0, outstanding |-> FALSE]

\* _usb_endpoint_init_internal: hw is the buffer the controller looks at next.
NewEndpoint(in, bufs) ==
  [in |-> in, bufs |-> bufs, owned |-> 0, give |-> 0, take |-> 0, first |-> FALSE,
   pid |-> 0, halt |-> "none", stall |-> FALSE, xfer |-> NoTransfer,
   buf |-> [b \in 0 .. bufs - 1 |-> [at |-> "cpu", pid |-> 0, data |-> NoData]],
   raised |-> <<>>, hw |-> 0]

OtherBuffer(ep, b) == (b + 1) % ep.bufs
AtController(ep) == {b \in DOMAIN ep.buf : ep.buf[b].at = "hw"}

\* Mutant: the controller is not told to begin with buffer 0 again.
Give_NoSelect(ep, data) ==
  [ep EXCEPT !.buf[ep.give] = [at |-> "hw", pid |-> ep.pid, data |-> data],
             !.first = FALSE, !.pid = 1 - @,
             !.owned = @ - 1, !.xfer.submit = @ - 1,
             !.give = OtherBuffer(ep, @)]

\* _usb_give_buffer.  The first after a reset has the SEL bit, which points the
\* controller at it.
Give(ep, data) ==
  [ep EXCEPT !.buf[ep.give] = [at |-> "hw", pid |-> ep.pid, data |-> data],
             !.hw = IF ep.first THEN ep.give ELSE @,
             !.first = FALSE, !.pid = 1 - @,
             !.owned = @ - 1, !.xfer.submit = @ - 1,
             !.give = OtherBuffer(ep, @)]

\* usb_grow_transfer, by one packet.
Grow(ep) == [ep EXCEPT !.xfer.submit = @ + 1, !.xfer.handle = @ + 1]

\* One turn of _usb_give_as_many_buffers_as_possible; data is what on_packet
\* puts in an IN buffer.
GiveOne(ep, data) ==
  IF ep.xfer.submit > 0 /\ ep.owned > 0 /\ ep.halt = "none"
  THEN Give(IF ep.in /\ ep.xfer.kind = "iso" THEN Grow(ep) ELSE ep, data) ELSE ep

GiveAsMany(ep, data) == GiveOne(GiveOne(ep, data), data)

\* usb_start_transfer, of a transfer of count packets.
Start(ep, kind, count, data) ==
  GiveAsMany([ep EXCEPT !.xfer = [kind |-> kind, submit |-> count, handle |-> count,
                                  outstanding |-> FALSE]], data)

\* _usb_stall_endpoint.
Stall(ep, hs) ==
  IF ep.halt = "none" THEN [ep EXCEPT !.stall = TRUE, !.halt = hs]
  ELSE [ep EXCEPT !.halt = IF hs = "halted" THEN hs ELSE @]

\* _usb_reset_buffers: whatever the controller still has is aborted.
ResetBuffers(ep) ==
  [ep EXCEPT !.buf = [b \in DOMAIN @ |-> [@[b] EXCEPT !.at = "cpu"]], !.stall = FALSE,
             !.pid = IF AtController(ep) # {} /\ (ep.bufs = 1 \/ ep.owned = 1)
                     THEN 1 - @ ELSE @,
             !.owned = ep.bufs, !.give = 0, !.take = 0, !.first = TRUE]

\* _usb_reset_endpoint, up to the restart of a default transfer.
Reset(ep, hard) ==
  [ResetBuffers(ep) EXCEPT !.xfer = NoTransfer, !.halt = "none",
                           !.pid = IF hard THEN 0 ELSE @]

\* _usb_handle_transfer up to on_packet: the processor has the oldest raised
\* buffer back, and what was in it is not looked at again.
Take(ep) ==
  [ep EXCEPT !.owned = @ + 1, !.take = Head(ep.raised), !.raised = Tail(@),
             !.buf[Head(ep.raised)].data = NoData]

\* _usb_handle_transfer after on_packet, with _usb_check_for_transfer_completion.
Settle(ep) ==
  LET left == ep.xfer.handle - 1
  IN  IF ep.halt # "none" \/ (left = 0 /\ ~ ep.xfer.outstanding)
      THEN [ep EXCEPT !.xfer = NoTransfer]
      ELSE [ep EXCEPT !.xfer.handle = left]

\* _usb_handle_transfer: a packet has gone through an endpoint's buffer.  One
\* that nothing waits for halts the endpoint.
Handle(ep, data) ==
  LET e == Take(ep)
  IN  IF ep.xfer.kind = "none" THEN Stall(e, "halted")
      ELSE Settle(GiveAsMany(IF ~ ep.in /\ ep.xfer.kind = "iso" THEN Grow(e) ELSE e, data))

-----------------------------------------------------------------------------
\* The controller.

Ready(ep) == ep.buf[ep.hw].at = "hw" /\ ~ ep.stall

\* A packet goes through the buffer at the controller's turn.
Through(ep, data) ==
  [ep EXCEPT !.buf[ep.hw].at = "cpu", !.buf[ep.hw].data = data,
             !.raised = Append(@, ep.hw), !.hw = OtherBuffer(ep, @)]

\* Every buffer is the processor's, the controller's, or raised, and only one
\* of these.
Accounted(ep) ==
  /\ ep.owned >= 0
  /\ ep.xfer.kind # "none" =>
       ep.owned + Cardinality(AtController(ep)) + Len(ep.raised) = ep.bufs
=============================================================================
