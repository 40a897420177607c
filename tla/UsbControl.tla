------------------------------ MODULE UsbControl ------------------------------
(***************************************************************************)
(* The control pipe: usb_device.c's setup packets and control transfers,   *)
(* with usb_dac.c's class requests and the host at the other end.          *)
(*                                                                         *)
(* A request is a setup packet, a data stage and a status stage.  The USB  *)
(* interrupt reads what is pending when it is entered (irq) and serves it  *)
(* in a fixed order: setup packet, completed buffers, bus reset or error;  *)
(* each is one action, and the wire goes on between them.  While a setup   *)
(* packet waits the controller answers nothing else on endpoint 0.         *)
(*                                                                         *)
(* The host gives up on a request whenever it likes by sending the next.   *)
(* A packet is <<what, value, length>>.                                    *)
(***************************************************************************)
EXTENDS UsbTransfer

CONSTANTS
  Rates,           \* supported_rates
  OtherRates,      \* rates a host might ask for all the same
  Volumes,
  Addresses,       \* those the host may give the box, but 0
  Alts,
  Packets,         \* of 64 bytes, that the descriptor the host asks for takes
  MayOverrun,      \* the next setup packet may come before the interrupt of the
                   \* last status stage
  MayError,        \* packets may be damaged on the wire
  MaxAborts        \* bound: requests given up

ASSUME ControlAssumption ==
  /\ Rates # {} /\ Volumes # {} /\ 0 \notin Addresses
  /\ Packets \in Nat \ {0} /\ MaxAborts \in Nat
  /\ MayOverrun \in BOOLEAN /\ MayError \in BOOLEAN

VARIABLES
  cin, cout,        \* usb_control_in, usb_control_out
  after,            \* on_complete of the transfer on cin
  pending_set,
  cur,              \* dac_state.rate, dac_state.volume
  alt, address, pending_address, config,
  setup,            \* usb_dpram->setup_packet, while SETUP_REC is set
  reset_seen,       \* BUS_RESET or an error is set
  irq,              \* the parts of the interrupt still to do
  host, aborts

pipeVars  == <<cin, cout, after, pending_set>>
stateVars == <<cur, alt, address, pending_address, config>>
vars == <<pipeVars, stateVars, setup, reset_seen, irq, host, aborts>>

Controls == {"rate", "volume"}
Length(c) == IF c = "rate" THEN 3 ELSE 2        \* control_length

Values(c) == IF c = "rate" THEN Rates \cup OtherRates ELSE Volumes

Request(op, what, value, len) == [op |-> op, what |-> what, value |-> value, len |-> len]
NoRequest == Request("none", "none", 0, 0)

\* What the host asks; len is the length of SET_CUR's data stage, of which the
\* setup packet announced the whole.  "UNKNOWN" stands for all that no handler takes.
Requests ==
  {Request("GET_CUR", c, 0, 0) : c \in Controls}
  \cup (UNION {{Request("SET_CUR", c, v, n) : v \in Values(c), n \in {1, Length(c)}} : c \in Controls})
  \cup {Request("SET_INTERFACE", "alt", a, 0) : a \in Alts}
  \cup {Request("SET_ADDRESS", "address", a, 0) : a \in Addresses}
  \cup {Request("SET_CONFIGURATION", "config", c, 0) : c \in {0, 1}}
  \cup {Request("GET_DESCRIPTOR", "descriptor", 0, 0), Request("UNKNOWN", "none", 0, 0)}

IsRead(r) == r.op \in {"GET_CUR", "GET_DESCRIPTOR"}
Expected(r) == IF r.op = "GET_DESCRIPTOR" THEN Packets ELSE 1

Packet(what, value, len) == <<what, value, len>>
Empty == Packet("none", 0, 0)
DescriptorPart(k) == Packet("descriptor", k, 64)

-----------------------------------------------------------------------------
\* The handlers.  They run in the interrupt and are given, and return, the
\* device: every variable above but the wire's.

Device == [cin |-> cin, cout |-> cout, after |-> after, pending |-> pending_set,
           cur |-> cur, alt |-> alt, address |-> address,
           pending_address |-> pending_address, config |-> config]

BecomesDevice(d) ==
  /\ cin' = d.cin /\ cout' = d.cout /\ after' = d.after /\ pending_set' = d.pending
  /\ cur' = d.cur /\ alt' = d.alt /\ address' = d.address
  /\ pending_address' = d.pending_address /\ config' = d.config

StartIn(d, kind, count, data, complete) ==
  [d EXCEPT !.cin = Start(@, kind, count, data), !.after = complete]

\* usb_start_tiny_control_in_transfer, usb_start_single_buffer_control_in_transfer:
\* the status stage follows once the host has the data.
Tell(d, data) == StartIn(d, "packet", 1, data, "ack")

\* usb_stream_setup_transfer, for a descriptor of several packets.
TellDescriptor(d) == StartIn(d, "stream", Packets, DescriptorPart(1), "ack")

\* usb_start_empty_control_in_transfer: the status stage of a write.
Acknowledge(d, complete) == StartIn(d, "packet", 1, Empty, complete)

\* usb_start_control_out_transfer.
Receive(d) == [d EXCEPT !.cout = Start(@, "set_cur", 1, NoData)]

\* usb_stall_control_pipe.
StallPipe(d) ==
  [d EXCEPT !.cin = Stall(ResetBuffers(@), "stall"),
            !.cout = Stall(ResetBuffers(@), "stall")]

\* Mutant: the request before this one is remembered.
DoSetCurrent_KeepOld(d, r) ==
  Receive(IF d.pending.id # "none" THEN d
          ELSE [d EXCEPT !.pending = [id |-> r.what, len |-> Length(r.what)]])

\* do_set_current.
DoSetCurrent(d, r) ==
  Receive([d EXCEPT !.pending = [id |-> r.what, len |-> Length(r.what)]])

SetAddress(d, a) == Acknowledge([d EXCEPT !.pending_address = a], "address")

\* _usb_handle_set_config; the other endpoints are UsbStream's.
SetConfiguration(d, c) == Acknowledge([d EXCEPT !.config = c], "nothing")

\* _usb_default_handle_device_setup_request.
DeviceRequest(d, r) ==
  CASE r.op = "GET_DESCRIPTOR"    -> TellDescriptor(d)
    [] r.op = "SET_ADDRESS"       -> SetAddress(d, r.value)
    [] r.op = "SET_CONFIGURATION" -> SetConfiguration(d, r.value)
    [] OTHER                      -> StallPipe(d)

\* _usb_default_handle_interface_setup_request, with as_set_alternate.
SetInterface(d, a) == Acknowledge([d EXCEPT !.alt = a], "nothing")

\* do_get_request.
DoGetRequest(d, r) == Tell(d, Packet(r.what, d.cur[r.what], Length(r.what)))

\* _usb_find_interface, _usb_find_endpoint: only in a configured device.
Found(d) == d.config # 0

\* audio_class_request, of the interface or the endpoint that has the control,
\* and what is no class request.
InterfaceRequest(d, r) ==
  IF ~ Found(d) THEN StallPipe(d)
  ELSE CASE r.op = "GET_CUR"       -> DoGetRequest(d, r)
         [] r.op = "SET_CUR"       -> DoSetCurrent(d, r)
         [] r.op = "SET_INTERFACE" -> SetInterface(d, r.value)

\* Who a request is addressed to.
Serve(d, r) ==
  IF r.op \in {"GET_CUR", "SET_CUR", "SET_INTERFACE"} THEN InterfaceRequest(d, r)
  ELSE DeviceRequest(d, r)

\* Mutant: the data stage begins with whatever packet id is next.
HandleSetup_KeepPid(d, r) ==
  Serve([d EXCEPT !.cin = Reset(@, FALSE), !.cout = Reset(@, FALSE)], r)

\* Mutant: an answer in progress goes on.
HandleSetup_Busy(d, r) ==
  Serve([d EXCEPT !.cin = [IF d.cin.xfer.kind = "none" THEN Reset(@, FALSE) ELSE @
                             EXCEPT !.pid = 1],
                  !.cout = [Reset(@, FALSE) EXCEPT !.pid = 1]], r)

\* _usb_handle_setup_packet.
HandleSetup(d, r) ==
  Serve([d EXCEPT !.cin = [Reset(@, FALSE) EXCEPT !.pid = 1],
                  !.cout = [Reset(@, FALSE) EXCEPT !.pid = 1]], r)

\* Mutant: a refused rate is acknowledged.
SetCurPacket_Polite(d, p) ==
  LET id == d.pending.id
      e  == [d EXCEPT !.pending.id = "none"]
  IN  IF id = "none" \/ p[3] < d.pending.len \/ (id = "rate" /\ p[2] \notin Rates)
      THEN Acknowledge(e, "nothing")
      ELSE Acknowledge([e EXCEPT !.cur[id] = p[2]], "nothing")

\* Mutant: nobody answers a refused rate.
SetCurPacket_Silent(d, p) ==
  LET id == d.pending.id
      e  == [d EXCEPT !.pending.id = "none"]
  IN  IF id = "none" \/ p[3] < d.pending.len \/ (id = "rate" /\ p[2] \notin Rates) THEN e
      ELSE Acknowledge([e EXCEPT !.cur[id] = p[2]], "nothing")

\* set_cur_packet.  It never calls usb_packet_done: the transfer stays
\* outstanding until the next setup packet.
SetCurPacket(d, p) ==
  LET id == d.pending.id
      e  == [d EXCEPT !.pending.id = "none"]
  IN  IF id = "none" \/ p[3] < d.pending.len \/ (id = "rate" /\ p[2] \notin Rates)
      THEN StallPipe(e)
      ELSE Acknowledge([e EXCEPT !.cur[id] = p[2]], "nothing")

\* _usb_handle_transfer on cout.  A packet behind an outstanding one is only
\* noted.
HandleOut(d) ==
  LET p == d.cout.buf[Head(d.cout.raised)].data
      e == [d EXCEPT !.cout = [Take(@) EXCEPT !.xfer.outstanding = TRUE]]
  IN  IF d.cout.xfer.kind # "set_cur" THEN [d EXCEPT !.cout = Handle(@, NoData)]
      ELSE IF d.cout.xfer.outstanding THEN [d EXCEPT !.cout = Take(@)]
      ELSE [SetCurPacket(e, p) EXCEPT !.cout = Settle(@)]

\* _tf_send_control_in_ack, _tf_set_address.
Completed(d) ==
  CASE d.after = "ack"     -> [d EXCEPT !.cout = Start(@, "packet", 1, NoData)]
    [] d.after = "address" -> [d EXCEPT !.address = d.pending_address]
    [] OTHER               -> d

\* _usb_handle_transfer on cin; a descriptor's next part is put in the buffer.
HandleIn(d) ==
  LET e == [d EXCEPT !.cin = Handle(@, DescriptorPart(Packets - d.cin.xfer.submit + 1))]
  IN  IF d.cin.xfer.kind # "none" /\ e.cin.xfer.kind = "none" /\ e.cin.halt = "none"
      THEN Completed(e) ELSE e

\* _usb_handle_buffer: bit 0 is cin's, bit 1 cout's.
HandleBuffers(d) ==
  LET e == IF d.cin.raised # <<>> THEN HandleIn(d) ELSE d
  IN  IF d.cout.raised # <<>> THEN HandleOut(e) ELSE e

-----------------------------------------------------------------------------
Busy == host.stage \in {"in", "out", "status_in", "status_out"}

Init ==
  /\ cin = NewEndpoint(TRUE, 1) /\ cout = NewEndpoint(FALSE, 1)
  /\ after = "nothing" /\ pending_set = [id |-> "none", len |-> 0]
  /\ \E r \in Rates, v \in Volumes : cur = [c \in Controls |-> IF c = "rate" THEN r ELSE v]
  /\ alt = 0 /\ address = 0 /\ pending_address = 0 /\ config = 0
  /\ setup = NoRequest /\ reset_seen = "none" /\ irq = {}
  /\ host = [req |-> NoRequest, stage |-> "idle", got |-> <<>>, pid |-> 1,
             address |-> 0, before |-> [cur |-> cur, alt |-> alt, config |-> config]]
  /\ aborts = 0

\* What USBCTRL's ints say.
Pending ==
  (IF setup # NoRequest THEN {"setup"} ELSE {})
  \cup (IF cin.raised # <<>> \/ cout.raised # <<>> THEN {"buffers"} ELSE {})
  \cup (IF reset_seen # "none" THEN {"reset"} ELSE {})

\* usb_device_irq_handler.
IrqEnter ==
  /\ irq = {} /\ Pending # {}
  /\ irq' = Pending
  /\ UNCHANGED <<pipeVars, stateVars, setup, reset_seen, host, aborts>>

IrqSetup ==
  /\ "setup" \in irq
  /\ BecomesDevice(HandleSetup(Device, setup))
  /\ setup' = NoRequest /\ irq' = irq \ {"setup"}
  /\ UNCHANGED <<reset_seen, host, aborts>>

IrqBuffers ==
  /\ "buffers" \in irq /\ "setup" \notin irq
  /\ BecomesDevice(HandleBuffers(Device))
  /\ irq' = irq \ {"buffers"}
  /\ UNCHANGED <<setup, reset_seen, host, aborts>>

\* _usb_handle_bus_reset: back to unconfigured and unaddressed.  Endpoint 0 is
\* left to the next setup packet, and alt to the next SET_INTERFACE.
IrqReset ==
  /\ irq = {"reset"}
  /\ config' = 0 /\ address' = 0
  /\ cin' = [cin EXCEPT !.raised = <<>>] /\ cout' = [cout EXCEPT !.raised = <<>>]
  /\ setup' = NoRequest
  /\ reset_seen' = "none" /\ irq' = {}
  /\ UNCHANGED <<after, pending_set, cur, alt, pending_address, host, aborts>>

-----------------------------------------------------------------------------
\* The host.

\* Nothing of the last request is left to be handled.
Quiet == irq = {} /\ Pending = {}

\* A setup packet, perhaps in the middle of the last request.  It clears what
\* is armed to stall.
SendSetup ==
  /\ setup = NoRequest /\ "setup" \notin irq /\ reset_seen = "none" /\ address = host.address
  /\ Quiet \/ (MayOverrun /\ ~ Busy)
  /\ Busy => aborts < MaxAborts
  /\ aborts' = IF Busy THEN aborts + 1 ELSE aborts
  /\ \E r \in Requests :
       /\ r.op = "SET_ADDRESS" => config = 0
       /\ setup' = r
       /\ host' = [host EXCEPT !.req = r, !.got = <<>>, !.pid = 1,
                     !.before = [cur |-> cur, alt |-> alt, config |-> config],
                     !.stage = CASE IsRead(r)          -> "in"
                                 [] r.op = "SET_CUR" -> "out"
                                 [] OTHER            -> "status_in"]
  /\ UNCHANGED <<pipeVars, stateVars, reset_seen, irq>>

\* The host's tokens reach an endpoint that listens, with the packet id both
\* sides expect.
Reaches(ep) ==
  /\ setup = NoRequest /\ reset_seen = "none" /\ address = host.address
  /\ Ready(ep) /\ ep.buf[ep.hw].pid = host.pid

ReadPacket ==
  /\ host.stage = "in" /\ Reaches(cin)
  /\ LET got == Append(host.got, cin.buf[cin.hw].data)
     IN  host' = IF Len(got) < Expected(host.req)
                 THEN [host EXCEPT !.got = got, !.pid = 1 - @]
                 ELSE [host EXCEPT !.got = got, !.pid = 1, !.stage = "status_out"]
  /\ cin' = Through(cin, NoData)
  /\ UNCHANGED <<cout, after, pending_set, stateVars, setup, reset_seen, irq, aborts>>

WritePacket ==
  /\ host.stage = "out" /\ Reaches(cout)
  /\ cout' = Through(cout, Packet(host.req.what, host.req.value, host.req.len))
  /\ host' = [host EXCEPT !.stage = "status_in", !.pid = 1]
  /\ UNCHANGED <<cin, after, pending_set, stateVars, setup, reset_seen, irq, aborts>>

StatusIn ==
  /\ host.stage = "status_in" /\ Reaches(cin)
  /\ cin' = Through(cin, NoData)
  /\ host' = [host EXCEPT !.stage = "done",
                          !.address = IF host.req.op = "SET_ADDRESS" THEN host.req.value ELSE @]
  /\ UNCHANGED <<cout, after, pending_set, stateVars, setup, reset_seen, irq, aborts>>

StatusOut ==
  /\ host.stage = "status_out" /\ Reaches(cout)
  /\ cout' = Through(cout, Empty)
  /\ host' = [host EXCEPT !.stage = "done"]
  /\ UNCHANGED <<cin, after, pending_set, stateVars, setup, reset_seen, irq, aborts>>

SeeStall ==
  /\ setup = NoRequest /\ reset_seen = "none" /\ address = host.address
  /\ \/ host.stage \in {"in", "status_in"} /\ cin.stall
     \/ host.stage \in {"out", "status_out"} /\ cout.stall
  /\ host' = [host EXCEPT !.stage = "stalled"]
  /\ UNCHANGED <<pipeVars, stateVars, setup, reset_seen, irq, aborts>>

\* The host resets the bus and waits until the box has seen it; or a packet is
\* damaged, and the host thinks no more of it.
ResetOrError(what) ==
  /\ reset_seen = "none" /\ (what = "error" => MayError)
  /\ reset_seen' = what
  /\ host' = IF what = "error" THEN host
             ELSE [host EXCEPT !.stage = "idle", !.address = 0, !.got = <<>>]
  /\ UNCHANGED <<pipeVars, stateVars, setup, irq, aborts>>

Irq == IrqEnter \/ IrqSetup \/ IrqBuffers \/ IrqReset
Exchange == ReadPacket \/ WritePacket \/ StatusIn \/ StatusOut \/ SeeStall
Next ==
  \/ Irq \/ Exchange \/ SendSetup
  \/ \E what \in {"reset", "error"} : ResetOrError(what)

Spec == Init /\ [][Next]_vars

\* The interrupt is served, and the host tries again while it is refused.
FairSpec == Spec /\ WF_vars(Irq) /\ WF_vars(Exchange)

-----------------------------------------------------------------------------
TypeOK ==
  /\ \A ep \in {cin, cout} :
       /\ ep.owned \in 0 .. 1 /\ ep.pid \in {0, 1} /\ Len(ep.raised) <= 1
       /\ ep.halt \in {"none", "stall", "halted"}
       /\ ep.xfer.kind \in {"none", "packet", "stream", "set_cur"}
       /\ ep.xfer.submit \in 0 .. Packets /\ ep.xfer.handle \in 0 .. Packets
  /\ after \in {"nothing", "ack", "address"}
  /\ pending_set \in [id : Controls \cup {"none"}, len : {0, 2, 3}]
  /\ cur["rate"] \in Rates /\ cur["volume"] \in Volumes
  /\ alt \in Alts \cup {0} /\ config \in {0, 1}
  /\ address \in Addresses \cup {0} /\ pending_address \in Addresses \cup {0}
  /\ setup \in Requests \cup {NoRequest}
  /\ reset_seen \in {"none", "reset", "error"} /\ irq \subseteq {"setup", "buffers", "reset"}
  /\ host.req \in Requests \cup {NoRequest}
  /\ aborts \in 0 .. MaxAborts

\* Every buffer of endpoint 0 is the processor's, the controller's or raised.
BuffersAccounted == irq = {} => Accounted(cin) /\ Accounted(cout)

\* The packet id a buffer is given with is the one the host expects next.
PidsInSequence ==
  setup = NoRequest /\ reset_seen = "none" =>
    /\ host.stage \in {"in", "status_in"} /\ Ready(cin) => cin.buf[0].pid = host.pid
    /\ host.stage \in {"out", "status_out"} /\ Ready(cout) => cout.buf[0].pid = host.pid

\* No buffer is lost or counted twice and no packet id is out of step, however a
\* control transfer ends: by its status stage, a stall, a reset of the bus, or
\* the next setup packet in the middle of it (usb_device.c:127-161, 371-449,
\* 929-935).
PipeIntact == TypeOK /\ BuffersAccounted /\ PidsInSequence

\* What the host reads is the answer to the request it made last, in order, and
\* never a packet left over from one it gave up.
AnswersThisRequest ==
  \A k \in DOMAIN host.got :
    host.got[k] = IF host.req.op = "GET_DESCRIPTOR" THEN DescriptorPart(k)
                  ELSE Packet(host.req.what, cur[host.req.what], Length(host.req.what))

\* The requests the box refuses (usb_dac.c, usb_device.c): what it does not know,
\* what needs a configuration, a short data stage, an unsupported rate.
Refuses(r, configured) ==
  \/ r.op = "UNKNOWN"
  \/ r.op \in {"GET_CUR", "SET_CUR", "SET_INTERFACE"} /\ ~ configured
  \/ r.op = "SET_CUR" /\ (r.len < Length(r.what) \/ (r.what = "rate" /\ r.value \notin Rates))

\* What a host is told of a request is true: acknowledged, it was one the box
\* takes and has taken effect exactly; stalled, it is one the box refuses, and
\* nothing has changed (usb_device.c:596-625, 929-968; usb_dac.c:623-703).
OutcomeIsTrue ==
  LET r == host.req
      b == host.before
      now == [cur |-> cur, alt |-> alt, config |-> config]
      done == CASE r.op = "SET_CUR"           -> [b EXCEPT !.cur[r.what] = r.value]
                [] r.op = "SET_INTERFACE"     -> [b EXCEPT !.alt = r.value]
                [] r.op = "SET_CONFIGURATION" -> [b EXCEPT !.config = r.value]
                [] OTHER                      -> b
  IN  setup = NoRequest /\ reset_seen = "none" =>
        /\ host.stage = "done" => ~ Refuses(r, b.config # 0) /\ now = done
        /\ host.stage = "stalled" => Refuses(r, b.config # 0) /\ now = b

\* A request the box takes is not stalled, whatever the host did before it: "a
\* setup packet is always accepted, so reset anything in progress"
\* (usb_device.c:931).
OnlyRefusalsStall ==
  host.stage = "stalled" => Refuses(host.req, host.before.config # 0)

\* A control changes only while the host is in the SET_CUR that changes it, so a
\* data stage never completes a request given up before (usb_dac.c: pending_set);
\* "idle" is a host that has just reset the bus.
ChangedOnRequest ==
  [][\A c \in Controls : cur'[c] # cur[c] =>
       /\ host.req.op = "SET_CUR" /\ host.req.what = c /\ host.req.value = cur'[c]
       /\ host.stage \in {"status_in", "idle"}]_vars

\* The box answers at the address the host uses, once both have settled.
SameAddress == Quiet => address = host.address

\* Nobody waits in vain: with nothing left to handle, the box is at the host's
\* address, also right after SET_ADDRESS and a bus reset, and in every stage of a
\* request the host's next token finds its buffer, or a stall
\* (usb_device.c:330-346, 596-625, 760-768; usb_dac.c:623-667).
NeverLeftWaiting ==
  /\ SameAddress
  /\ Quiet /\ host.stage \in {"in", "status_in"} => Reaches(cin) \/ cin.stall
  /\ Quiet /\ host.stage \in {"out", "status_out"} => Reaches(cout) \/ cout.stall

\* Every request ends: it is acknowledged, or stalled, or the host gives up.
RequestsEnd == Busy ~> ~ Busy
=============================================================================
