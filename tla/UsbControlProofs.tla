-------------------------- MODULE UsbControlProofs ---------------------------
(***************************************************************************)
(* The control pipe's safety properties, for any rates, volumes, addresses *)
(* and descriptors, and a host that gives up and resets as it likes.       *)
(*                                                                         *)
(* Between two setup packets the device is in one of six modes, and each   *)
(* request passes through few of them.  The inductive invariant says what  *)
(* the two endpoints are like in a mode (DeviceInv), that the interrupt    *)
(* finds at most one of them raised (WireInv), where the host is meanwhile *)
(* (HostInv), and what has come of its request (OutcomeInv, AddressInv).   *)
(***************************************************************************)
EXTENDS UsbControl, FiniteSetTheorems, TLAPS

-----------------------------------------------------------------------------
(***************************************************************************)
(* An endpoint of one buffer.                                              *)
(***************************************************************************)

AllValues == Rates \cup OtherRates \cup Volumes

Contents ==
  {NoData, Empty} \cup {DescriptorPart(k) : k \in 1 .. Packets + 1}
    \cup {Packet(c, v, n) : c \in Controls, v \in AllValues, n \in 1 .. 3}

Transfers ==
  [kind : {"none", "packet", "stream", "set_cur"}, submit : 0 .. Packets, handle : 0 .. Packets,
   outstanding : BOOLEAN]
Buffers == [at : {"cpu", "hw"}, pid : {0, 1}, data : Contents]
Endpoints(in) ==
  [in : {in}, bufs : {1}, owned : 0 .. 1, give : {0}, take : {0}, first : BOOLEAN, pid : {0, 1},
   halt : {"none", "stall"}, stall : BOOLEAN, xfer : Transfers, buf : [{0} -> Buffers],
   raised : {<<>>, <<0>>}, hw : {0}]

\* Where its buffer is.
Idle(ep)   == ep.buf[0].at = "cpu" /\ ep.raised = <<>>
Free(ep)   == ep.owned = 1 /\ Idle(ep)
Armed(ep)  == ep.owned = 0 /\ ep.buf[0].at = "hw" /\ ep.raised = <<>>
Raised(ep) == ep.owned = 0 /\ ep.buf[0].at = "cpu" /\ ep.raised = <<0>>

\* Nothing was transferred since the setup packet.
Fresh(ep) ==
  Free(ep) /\ ep.xfer = NoTransfer /\ ep.halt = "none" /\ ~ ep.stall /\ ep.pid = 1

\* A transfer with its next packet given, and that packet the controller's or through it.
Runs(ep, kind) ==
  /\ Armed(ep) \/ Raised(ep)
  /\ ep.xfer.kind = kind /\ ep.xfer.handle = ep.xfer.submit + 1 /\ ~ ep.xfer.outstanding
  /\ ep.halt = "none" /\ ~ ep.stall /\ ep.pid = 1 - ep.buf[0].pid

\* A transfer of a single packet, the first since the setup packet.
Single(ep, kind) == Runs(ep, kind) /\ ep.xfer.submit = 0 /\ ep.buf[0].pid = 1

-----------------------------------------------------------------------------
(***************************************************************************)
(* The device.                                                             *)
(***************************************************************************)

Currents == [Controls -> Rates \cup Volumes]
Devices ==
  [cin : Endpoints(TRUE), cout : Endpoints(FALSE), after : {"nothing", "ack", "address"},
   pending : [id : Controls \cup {"none"}, len : {0, 2, 3}], cur : Currents,
   alt : Alts \cup {0}, address : Addresses \cup {0}, pending_address : Addresses \cup {0},
   config : {0, 1}]

\* An answer is on its way to the host.
Reading(d) ==
  /\ d.after = "ack" /\ Fresh(d.cout)
  /\ Runs(d.cin, "stream") \/ Single(d.cin, "packet")
\* The host has it, and is to say so.
Confirming(d) == Free(d.cin) /\ d.cin.xfer = NoTransfer /\ ~ d.cin.stall /\ Single(d.cout, "packet")
\* A control's new value is expected.
Writing(d) ==
  /\ Fresh(d.cin) /\ Single(d.cout, "set_cur")
  /\ d.pending.id \in Controls /\ d.pending.len = Length(d.pending.id)
\* A request was carried out, and the host is to hear of it.
Acking(d) == d.after # "ack" /\ Single(d.cin, "packet") /\ Free(d.cout) /\ ~ d.cout.stall
\* A request was refused.
Refusing(d) == Free(d.cin) /\ Free(d.cout) /\ d.cin.stall /\ d.cout.stall
\* A request is over, or there was none.
Over(d) ==
  /\ Idle(d.cin) /\ ~ d.cin.stall /\ d.cin.xfer = NoTransfer
  /\ Idle(d.cout) /\ ~ d.cout.stall /\ (d.cout.xfer.kind # "none" => d.cout.owned = 1)

DeviceInv ==
  /\ Device \in Devices /\ cur["rate"] \in Rates /\ cur["volume"] \in Volumes
  /\ \/ Reading(Device) \/ Confirming(Device) \/ Writing(Device) \/ Acking(Device)
     \/ Refusing(Device) \/ Over(Device)

-----------------------------------------------------------------------------
(***************************************************************************)
(* The wire, and the host.                                                 *)
(***************************************************************************)

Handled == cin.raised = <<>> /\ cout.raised = <<>>

\* What the interrupt serves is there, and while it does the wire adds nothing that
\* could be served out of turn.
WireInv ==
  /\ setup \in Requests \cup {NoRequest} /\ reset_seen \in {"none", "reset", "error"}
  /\ irq \subseteq {"setup", "buffers", "reset"} /\ aborts \in 0 .. MaxAborts
  /\ setup # NoRequest => setup = host.req /\ Handled /\ "buffers" \notin irq
  /\ "setup" \in irq => setup # NoRequest
  /\ "buffers" \in irq => ~ Handled
  /\ "reset" \in irq => reset_seen # "none"
  /\ irq # {} /\ setup # NoRequest => "setup" \in irq
  /\ irq # {} /\ ~ Handled => "buffers" \in irq
  /\ host.stage = "idle" /\ reset_seen = "none" => setup = NoRequest /\ Handled

Hosts ==
  [req : Requests \cup {NoRequest},
   stage : {"idle", "in", "out", "status_in", "status_out", "done", "stalled"},
   got : Seq(Contents), pid : {0, 1}, address : Addresses \cup {0},
   before : [cur : Currents, alt : Alts \cup {0}, config : {0, 1}]]

FirstStage(r) ==
  CASE IsRead(r) -> "in" [] r.op = "SET_CUR" -> "out" [] OTHER -> "status_in"

\* The k-th packet of the answer.
Answer(r, k) ==
  IF r.op = "GET_DESCRIPTOR" THEN DescriptorPart(k) ELSE Packet(r.what, cur[r.what], Length(r.what))

\* How far a read has come, on both sides of the wire.
ReadInv ==
  LET n == Len(host.got)
      left == Expected(host.req) - n
  IN  /\ IsRead(host.req)
      /\ Armed(cin) =>
           /\ host.stage = "in" /\ left > 0 /\ cin.xfer.submit = left - 1
           /\ cin.buf[0].pid = host.pid /\ cin.buf[0].data = Answer(host.req, n + 1)
      /\ Raised(cin) =>
           /\ n > 0 /\ left >= 0 /\ cin.xfer.submit = left
           /\ left > 0 => host.stage = "in" /\ host.pid = cin.pid
           /\ left = 0 => host.stage = "status_out" /\ host.pid = 1

\* The host is where the device's mode has it, unless it has reset the bus.
HostInv ==
  /\ host \in Hosts
  /\ ~ IsRead(host.req) \/ host.stage = "idle" => host.got = <<>>
  /\ AnswersThisRequest
  /\ IF setup # NoRequest
     THEN host.stage = "idle" \/ (host.stage = FirstStage(host.req) /\ host.got = <<>> /\ host.pid = 1)
     ELSE /\ Writing(Device) =>
               /\ host.req.op = "SET_CUR" /\ host.req.what = pending_set.id
               /\ Raised(cout) =>
                    /\ cout.buf[0].data = Packet(host.req.what, host.req.value, host.req.len)
                    /\ host.stage \in {"status_in", "idle"}
          /\ host.stage # "idle" =>
               /\ Reading(Device) => ReadInv
               /\ Confirming(Device) =>
                    /\ IsRead(host.req) /\ host.pid = 1
                    /\ host.stage = IF Armed(cout) THEN "status_out" ELSE "done"
               /\ Writing(Device) =>
                    /\ host.pid = 1
                    /\ host.stage = IF Armed(cout) THEN "out" ELSE "status_in"
               /\ Acking(Device) =>
                    /\ ~ IsRead(host.req) /\ host.pid = 1
                    /\ host.stage = IF Armed(cin) THEN "status_in" ELSE "done"
                    /\ after = "address" <=> host.req.op = "SET_ADDRESS"
                    /\ after = "address" => pending_address = host.req.value
               /\ Over(Device) => host.stage = "done"
               /\ Refusing(Device) => host.stage \in {FirstStage(host.req), "status_in", "stalled"}

\* What has come of the request.
Now == [cur |-> cur, alt |-> alt, config |-> config]
Effect(r, b) ==
  CASE r.op = "SET_CUR"           -> [b EXCEPT !.cur[r.what] = r.value]
    [] r.op = "SET_INTERFACE"     -> [b EXCEPT !.alt = r.value]
    [] r.op = "SET_CONFIGURATION" -> [b EXCEPT !.config = r.value]
    [] OTHER                      -> b

OutcomeInv ==
  LET r == host.req
      refused == Refuses(r, host.before.config # 0)
  IN  /\ reset_seen # "none" => host.stage = "idle"
      /\ host.stage # "idle" =>
           IF setup # NoRequest THEN Now = host.before
           ELSE /\ Writing(Device) => Now = host.before /\ config # 0
                /\ Refusing(Device) => Now = host.before /\ refused
                /\ ~ Writing(Device) /\ ~ Refusing(Device) => Now = Effect(r, host.before) /\ ~ refused

\* The box is at the host's address, but for the moment between the status stage of
\* SET_ADDRESS and its interrupt, and while a reset of the bus waits.
AddressInv ==
  /\ host.stage = "idle" => host.address = 0
  /\ reset_seen = "none" =>
       host.address = IF setup = NoRequest /\ Acking(Device) /\ Raised(cin) /\ after = "address"
                      THEN pending_address ELSE address

IInv == DeviceInv /\ WireInv /\ HostInv
Told == OutcomeInv /\ AddressInv

-----------------------------------------------------------------------------
(***************************************************************************)
(* Requests and values.                                                    *)
(***************************************************************************)

LEMMA Sizes == Packets \in Nat /\ Packets >= 1 /\ 1 \in 1 .. Packets /\ 0 \in 0 .. Packets
BY ControlAssumption

\* What the host may ask.
LEMMA RequestKinds ==
  ASSUME NEW r \in Requests
  PROVE  /\ r # NoRequest /\ r.op # "none"
         /\ r.op \in {"GET_CUR", "SET_CUR", "SET_INTERFACE", "SET_ADDRESS", "SET_CONFIGURATION",
                     "GET_DESCRIPTOR", "UNKNOWN"}
         /\ r.op \in {"GET_CUR", "SET_CUR"} => r.what \in Controls
         /\ r.op = "SET_CUR" => r.value \in Values(r.what) /\ r.len \in {1, Length(r.what)}
         /\ r.op = "SET_INTERFACE" => r.value \in Alts
         /\ r.op = "SET_ADDRESS" => r.value \in Addresses
         /\ r.op = "SET_CONFIGURATION" => r.value \in {0, 1}
<1> DEFINE Facts ==
             /\ r.op \in {"GET_CUR", "SET_CUR", "SET_INTERFACE", "SET_ADDRESS", "SET_CONFIGURATION",
                         "GET_DESCRIPTOR", "UNKNOWN"}
             /\ r.op \in {"GET_CUR", "SET_CUR"} => r.what \in Controls
             /\ r.op = "SET_CUR" => r.value \in Values(r.what) /\ r.len \in {1, Length(r.what)}
             /\ r.op = "SET_INTERFACE" => r.value \in Alts
             /\ r.op = "SET_ADDRESS" => r.value \in Addresses
             /\ r.op = "SET_CONFIGURATION" => r.value \in {0, 1}
<1> SUFFICES Facts
  BY DEF NoRequest, Request
<1>1. \A op, what, value, len :
        LET q == Request(op, what, value, len)
        IN  q.op = op /\ q.what = what /\ q.value = value /\ q.len = len
  BY DEF Request
<1>2. CASE \E c \in Controls : r = Request("GET_CUR", c, 0, 0)
  BY <1>1, <1>2
<1>3. CASE \E c \in Controls : \E v \in Values(c), n \in {1, Length(c)} : r = Request("SET_CUR", c, v, n)
  BY <1>1, <1>3
<1>4. CASE \E a \in Alts : r = Request("SET_INTERFACE", "alt", a, 0)
  BY <1>1, <1>4
<1>5. CASE \E a \in Addresses : r = Request("SET_ADDRESS", "address", a, 0)
  BY <1>1, <1>5
<1>6. CASE \E c \in {0, 1} : r = Request("SET_CONFIGURATION", "config", c, 0)
  BY <1>1, <1>6
<1>7. CASE r \in {Request("GET_DESCRIPTOR", "descriptor", 0, 0), Request("UNKNOWN", "none", 0, 0)}
  BY <1>1, <1>7
<1>8. \/ r \in {Request("GET_CUR", c, 0, 0) : c \in Controls}
      \/ r \in UNION {{Request("SET_CUR", c, v, n) : v \in Values(c), n \in {1, Length(c)}} : c \in Controls}
      \/ r \in {Request("SET_INTERFACE", "alt", a, 0) : a \in Alts}
      \/ r \in {Request("SET_ADDRESS", "address", a, 0) : a \in Addresses}
      \/ r \in {Request("SET_CONFIGURATION", "config", c, 0) : c \in {0, 1}}
      \/ r \in {Request("GET_DESCRIPTOR", "descriptor", 0, 0), Request("UNKNOWN", "none", 0, 0)}
  BY DEF Requests
<1>9. ASSUME r \in UNION {{Request("SET_CUR", c, v, n) : v \in Values(c), n \in {1, Length(c)}} : c \in Controls}
      PROVE  \E c \in Controls : \E v \in Values(c), n \in {1, Length(c)} : r = Request("SET_CUR", c, v, n)
  <2>1. PICK c \in Controls : r \in {Request("SET_CUR", c, v, n) : v \in Values(c), n \in {1, Length(c)}}
    BY <1>9
  <2>2. \E v \in Values(c), n \in {1, Length(c)} : r = Request("SET_CUR", c, v, n)
    BY <2>1
  <2> QED
    BY <2>2
<1> QED
  BY <1>2, <1>3, <1>4, <1>5, <1>6, <1>7, <1>8, <1>9

\* What a control may be set to, and what the packets of a data stage hold.
LEMMA PacketContents ==
  /\ NoData \in Contents /\ Empty \in Contents
  /\ \A k \in 1 .. Packets + 1 : DescriptorPart(k) \in Contents
  /\ \A c \in Controls, v \in AllValues, n \in 1 .. 3 : Packet(c, v, n) \in Contents
  /\ \A c \in Controls : Length(c) \in 1 .. 3 /\ Length(c) \in {2, 3} /\ Values(c) \subseteq AllValues
BY DEF Contents, Controls, Length, Values, AllValues

-----------------------------------------------------------------------------
(***************************************************************************)
(* The operators on an endpoint of one buffer.                             *)
(***************************************************************************)

LEMMA OneBuffer ==
  0 .. 0 = {0} /\ 0 \in 0 .. 1 /\ 1 \in 0 .. 1 /\ \A n \in Int : (n % 1) = 0
OBVIOUS

\* A setup packet leaves nothing of what was in progress.
LEMMA ResetIsFresh ==
  ASSUME NEW in \in BOOLEAN, NEW ep \in Endpoints(in), ep.raised = <<>>
  PROVE  LET e == [Reset(ep, FALSE) EXCEPT !.pid = 1]
         IN  e \in Endpoints(in) /\ Fresh(e)
<1> DEFINE c == [b \in DOMAIN ep.buf |-> [ep.buf[b] EXCEPT !.at = "cpu"]]
           e == [Reset(ep, FALSE) EXCEPT !.pid = 1]
<1>1. DOMAIN ep.buf = {0} /\ ep.buf[0] \in Buffers
  BY DEF Endpoints
<1>2. c \in [{0} -> Buffers] /\ c[0].at = "cpu"
  BY <1>1 DEF Buffers
<1> HIDE DEF c
<1>3. NoTransfer \in Transfers
  BY Sizes DEF NoTransfer, Transfers
<1>4. /\ e.in = ep.in /\ e.bufs = 1 /\ e.owned = 1 /\ e.give = 0 /\ e.take = 0 /\ e.first = TRUE
      /\ e.pid = 1 /\ e.halt = "none" /\ e.stall = FALSE /\ e.xfer = NoTransfer /\ e.buf = c
      /\ e.raised = <<>> /\ e.hw = 0
  BY DEF Reset, ResetBuffers, Endpoints, c
<1>5. e \in Endpoints(in)
  <2>1. e = [ep EXCEPT !.buf = c, !.stall = FALSE, !.pid = 1, !.owned = 1, !.give = 0, !.take = 0,
                      !.first = TRUE, !.xfer = NoTransfer, !.halt = "none"]
    BY DEF Reset, ResetBuffers, Endpoints, c
  <2> QED
    BY <1>2, <1>3, <2>1 DEF Endpoints
<1> QED
  BY <1>2, <1>4, <1>5 DEF Fresh, Free, Idle

\* A transfer starts: its first packet is the controller's.
Started(e, ep, kind, count, data) ==
  /\ Armed(e)
  /\ e.xfer = [kind |-> kind, submit |-> count - 1, handle |-> count, outstanding |-> FALSE]
  /\ e.buf[0].pid = ep.pid /\ e.buf[0].data = data /\ e.pid = 1 - ep.pid
  /\ e.halt = "none" /\ e.stall = ep.stall

LEMMA StartGives ==
  ASSUME NEW in \in BOOLEAN, NEW ep \in Endpoints(in), Free(ep), ep.halt = "none",
         NEW kind \in {"packet", "stream", "set_cur"}, NEW count \in 1 .. Packets,
         NEW data \in Contents
  PROVE  LET e == Start(ep, kind, count, data)
         IN  e \in Endpoints(in) /\ Started(e, ep, kind, count, data)
<1> DEFINE t == [kind |-> kind, submit |-> count, handle |-> count, outstanding |-> FALSE]
           f == [ep EXCEPT !.xfer = t]
           g == GiveOne(f, data)
<1>0. count \in Nat /\ count >= 1 /\ count <= Packets /\ Packets \in Nat
  BY Sizes
<1>1. t \in Transfers
  BY <1>0 DEF Transfers
<1>2. /\ f \in Endpoints(in) /\ f.xfer = t /\ f.owned = 1 /\ f.halt = "none" /\ f.stall = ep.stall
      /\ f.pid = ep.pid /\ f.raised = <<>> /\ f.give = 0 /\ f.bufs = 1 /\ f.hw = 0
      /\ f.buf = ep.buf
  BY <1>1 DEF Endpoints, Free, Idle
<1> HIDE DEF f
<1>3. OtherBuffer(f, 0) = 0
  BY <1>2 DEF OtherBuffer
<1>4. g = Give(f, data)
  BY <1>0, <1>2 DEF GiveOne
<1>5. /\ g.xfer = [t EXCEPT !.submit = count - 1] /\ g.owned = 0 /\ g.halt = "none"
      /\ g.stall = ep.stall /\ g.pid = 1 - ep.pid /\ g.raised = <<>> /\ g.buf[0].at = "hw"
      /\ g.buf[0].pid = ep.pid /\ g.buf[0].data = data
  BY <1>2, <1>4 DEF Give, Endpoints
<1> DEFINE u == [t EXCEPT !.submit = count - 1]
           c == [f.buf EXCEPT ![0] = [at |-> "hw", pid |-> ep.pid, data |-> data]]
<1>6. u \in Transfers
  <2>1. count - 1 \in 0 .. Packets
    BY <1>0
  <2> QED
    BY <1>1, <2>1 DEF Transfers
<1>7. g \in Endpoints(in)
  <2>1. c \in [{0} -> Buffers] /\ 1 - ep.pid \in {0, 1}
    BY <1>2 DEF Endpoints, Buffers
  <2>2. g = [f EXCEPT !.buf = c, !.hw = 0, !.first = FALSE, !.pid = 1 - ep.pid, !.owned = 0,
                     !.xfer = u, !.give = 0]
    BY <1>2, <1>3, <1>4 DEF Give, Endpoints
  <2> HIDE DEF c, u, g
  <2> QED
    BY <1>2, <1>6, <2>1, <2>2, OneBuffer DEF Endpoints
<1> HIDE DEF g
<1>8. Start(ep, kind, count, data) = g
  BY <1>5 DEF Start, GiveAsMany, GiveOne, f, g
<1> QED
  BY <1>5, <1>7, <1>8, ZenonT(100) DEF Armed, Started

\* A pipe that refuses: nothing is armed, and it answers every token with a stall.
LEMMA StallRefuses ==
  ASSUME NEW in \in BOOLEAN, NEW ep \in Endpoints(in), ep.raised = <<>>, ep.halt = "none"
  PROVE  LET e == Stall(ResetBuffers(ep), "stall")
         IN  e \in Endpoints(in) /\ Free(e) /\ e.stall /\ e.xfer = ep.xfer
<1> DEFINE c == [b \in DOMAIN ep.buf |-> [ep.buf[b] EXCEPT !.at = "cpu"]]
           q == IF AtController(ep) # {} /\ (ep.bufs = 1 \/ ep.owned = 1) THEN 1 - ep.pid ELSE ep.pid
           f == ResetBuffers(ep)
<1>1. DOMAIN ep.buf = {0} /\ ep.buf[0] \in Buffers
  BY DEF Endpoints
<1>2. c \in [{0} -> Buffers] /\ c[0].at = "cpu"
  BY <1>1 DEF Buffers
<1>3. q \in {0, 1}
  BY DEF Endpoints
<1>4. f = [ep EXCEPT !.buf = c, !.stall = FALSE, !.pid = q, !.owned = 1, !.give = 0, !.take = 0,
                    !.first = TRUE]
  BY DEF ResetBuffers, Endpoints
<1> HIDE DEF c, q, f
<1>5. /\ f \in Endpoints(in) /\ f.owned = 1 /\ f.buf = c /\ f.raised = <<>> /\ f.halt = "none"
      /\ f.xfer = ep.xfer
  BY <1>2, <1>3, <1>4 DEF Endpoints
<1> QED
  BY <1>2, <1>5 DEF Stall, Endpoints, Free, Idle

\* The packet that went through is the processor's again.
LEMMA TakeFrees ==
  ASSUME NEW in \in BOOLEAN, NEW ep \in Endpoints(in), Raised(ep)
  PROVE  LET e == Take(ep)
         IN  /\ e \in Endpoints(in) /\ Free(e) /\ e.xfer = ep.xfer /\ e.pid = ep.pid
             /\ e.halt = ep.halt /\ e.stall = ep.stall /\ e.in = ep.in
<1> DEFINE e == Take(ep)
<1>1. Head(ep.raised) = 0 /\ Tail(ep.raised) = <<>>
  BY DEF Raised
<1>2. e = [ep EXCEPT !.owned = ep.owned + 1, !.take = 0, !.raised = <<>>, !.buf[0].data = NoData]
  BY <1>1 DEF Take
<1>3. [ep.buf EXCEPT ![0].data = NoData] \in [{0} -> Buffers]
      /\ [ep.buf EXCEPT ![0].data = NoData][0].at = ep.buf[0].at
  BY PacketContents DEF Endpoints, Buffers
<1> QED
  BY <1>2, <1>3 DEF Endpoints, Free, Idle, Raised

\* The last packet of a transfer has gone through.
LEMMA LastHandled ==
  ASSUME NEW in \in BOOLEAN, NEW ep \in Endpoints(in), Raised(ep),
         NEW kind \in {"packet", "stream"}, Runs(ep, kind), ep.xfer.submit = 0,
         NEW data
  PROVE  LET e == Handle(ep, data)
         IN  /\ e \in Endpoints(in) /\ Free(e) /\ e.xfer = NoTransfer /\ e.pid = ep.pid
             /\ e.halt = "none" /\ ~ e.stall
<1> DEFINE t == Take(ep)
<1>1. /\ t \in Endpoints(in) /\ Free(t) /\ t.xfer = ep.xfer /\ t.pid = ep.pid
      /\ t.halt = "none" /\ ~ t.stall
  BY TakeFrees DEF Runs
<1> HIDE DEF t
<1>2. Handle(ep, data) = Settle(t)
  BY <1>1 DEF Handle, GiveAsMany, GiveOne, Runs, t
<1>3. NoTransfer \in Transfers
  BY Sizes DEF NoTransfer, Transfers
<1>4. Settle(t) = [t EXCEPT !.xfer = NoTransfer]
  BY <1>1 DEF Settle, Runs
<1> QED
  BY <1>1, <1>2, <1>3, <1>4 DEF Endpoints, Free, Idle

\* One with more to come: the next is given.
LEMMA NextGiven ==
  ASSUME NEW in \in BOOLEAN, NEW ep \in Endpoints(in), Raised(ep), Runs(ep, "stream"),
         ep.xfer.submit > 0, NEW data \in Contents
  PROVE  LET e == Handle(ep, data)
         IN  /\ e \in Endpoints(in) /\ Runs(e, "stream") /\ Armed(e)
             /\ e.xfer.submit = ep.xfer.submit - 1
             /\ e.buf[0].pid = ep.pid /\ e.buf[0].data = data
<1> DEFINE t == Take(ep)
           g == GiveOne(t, data)
<1>1. /\ t \in Endpoints(in) /\ Free(t) /\ t.xfer = ep.xfer /\ t.pid = ep.pid
      /\ t.halt = "none" /\ ~ t.stall
  BY TakeFrees DEF Runs
<1> HIDE DEF t
<1>2. ep.xfer \in Transfers /\ ep.xfer.kind = "stream" /\ ~ ep.xfer.outstanding
      /\ ep.xfer.handle = ep.xfer.submit + 1
  BY DEF Endpoints, Runs
<1> DEFINE s == ep.xfer.submit
<1>3. s \in 1 .. Packets /\ ep.xfer.handle \in 0 .. Packets /\ Packets \in Nat
  BY <1>2, Sizes DEF Transfers
<1>4. OtherBuffer(t, t.give) = 0
  BY <1>1 DEF OtherBuffer, Endpoints
<1>5. g = Give(t, data)
  BY <1>1, <1>2, <1>3 DEF GiveOne, Free
<1>6. /\ g.xfer = [ep.xfer EXCEPT !.submit = ep.xfer.submit - 1] /\ g.owned = 0 /\ g.halt = "none" /\ ~ g.stall
      /\ g.pid = 1 - ep.pid /\ g.raised = <<>> /\ g.buf[0].at = "hw"
      /\ g.buf[0].pid = ep.pid /\ g.buf[0].data = data
  BY <1>1, <1>5 DEF Give, Endpoints, Free, Idle
<1> DEFINE u == [ep.xfer EXCEPT !.submit = s - 1]
<1>7. u \in Transfers
  BY <1>2, <1>3 DEF Transfers
<1>8. g \in Endpoints(in)
  <2> DEFINE c == [t.buf EXCEPT ![0] = [at |-> "hw", pid |-> ep.pid, data |-> data]]
  <2>1. c \in [{0} -> Buffers] /\ 1 - ep.pid \in {0, 1}
    BY <1>1 DEF Endpoints, Buffers
  <2>2. g = [t EXCEPT !.buf = c, !.hw = 0, !.first = FALSE, !.pid = 1 - ep.pid, !.owned = 0,
                     !.xfer = u, !.give = 0]
    <3>1. t.owned = 1 /\ t.give = 0 /\ t.hw = 0 /\ t.pid = ep.pid /\ t.xfer = ep.xfer
      BY <1>1 DEF Endpoints, Free
    <3>2. g = Give(t, data) /\ OtherBuffer(t, 0) = 0 /\ 1 - 1 = 0
      BY <1>4, <1>5, <3>1
    <3> HIDE DEF g
    <3> QED
      BY <1>1, <3>1, <3>2, ZenonT(100) DEF Give, Endpoints
  <2> HIDE DEF c, g
  <2> QED
    BY <1>1, <1>7, <2>1, <2>2, OneBuffer DEF Endpoints
<1> HIDE DEF g, s, u
<1>9. Handle(ep, data) = Settle(g)
  BY <1>1, <1>2, <1>6 DEF Handle, GiveAsMany, GiveOne, t, g
<1>10. g.xfer.handle = s + 1 /\ g.xfer.submit = s - 1 /\ g.xfer.kind = "stream" /\ ~ g.xfer.outstanding
  BY <1>2, <1>6 DEF Transfers, s
<1> DEFINE x == [g.xfer EXCEPT !.handle = s]
<1>11. Settle(g) = [g EXCEPT !.xfer = x]
  <2>1. g.xfer.handle - 1 = s /\ s # 0 /\ g.halt = "none"
    BY <1>3, <1>6, <1>10 DEF s
  <2>2. Settle(g) = [g EXCEPT !.xfer.handle = s]
    BY <2>1 DEF Settle
  <2> QED
    BY <2>2
<1>12. /\ x \in Transfers /\ x.kind = "stream" /\ x.submit = s - 1 /\ x.handle = s
       /\ ~ x.outstanding
  BY <1>3, <1>8, <1>10 DEF Endpoints, Transfers
<1> HIDE DEF x
<1>13. ep.pid \in {0, 1}
  BY DEF Endpoints
<1> QED
  BY <1>3, <1>6, <1>8, <1>9, <1>11, <1>12, <1>13 DEF Endpoints, Runs, Armed, s

-----------------------------------------------------------------------------
(***************************************************************************)
(* The handlers, as steps between modes.                                   *)
(***************************************************************************)

\* Nothing changes but the endpoints, and what they are to do next.
Same(e, d) ==
  /\ e.cur = d.cur /\ e.alt = d.alt /\ e.config = d.config
  /\ e.address = d.address /\ e.pending_address = d.pending_address

LEMMA StartInGives ==
  ASSUME NEW d \in Devices, Fresh(d.cin), NEW kind \in {"packet", "stream"},
         NEW count \in 1 .. Packets, NEW data \in Contents,
         NEW complete \in {"nothing", "ack", "address"}
  PROVE  LET e == StartIn(d, kind, count, data, complete)
         IN  /\ e \in Devices /\ Same(e, d) /\ e.cout = d.cout /\ e.pending = d.pending
             /\ e.after = complete /\ Runs(e.cin, kind) /\ Armed(e.cin)
             /\ e.cin.xfer.submit = count - 1 /\ e.cin.buf[0].pid = 1 /\ e.cin.buf[0].data = data
<1> DEFINE c == Start(d.cin, kind, count, data)
<1>1. d.cin \in Endpoints(TRUE) /\ Free(d.cin) /\ d.cin.halt = "none" /\ ~ d.cin.stall /\ d.cin.pid = 1
  BY DEF Devices, Fresh
<1>2. c \in Endpoints(TRUE) /\ Started(c, d.cin, kind, count, data)
  BY <1>1, StartGives
<1> HIDE DEF c
<1>3. StartIn(d, kind, count, data, complete) = [d EXCEPT !.cin = c, !.after = complete]
  BY DEF StartIn, c
<1>4. count = (count - 1) + 1
  OBVIOUS
<1>5. Runs(c, kind) /\ c.xfer.submit = count - 1
  BY <1>1, <1>2, <1>4 DEF Runs, Started
<1> DEFINE e == [d EXCEPT !.cin = c, !.after = complete]
<1>6. /\ e \in Devices /\ Same(e, d) /\ e.cout = d.cout /\ e.pending = d.pending
      /\ e.after = complete /\ e.cin = c
  BY <1>2 DEF Devices, Same
<1>7. Armed(c) /\ c.buf[0].pid = 1 /\ c.buf[0].data = data
  BY <1>1, <1>2 DEF Started
<1> HIDE DEF e
<1> QED
  BY <1>3, <1>5, <1>6, <1>7 DEF e

LEMMA ReceiveGives ==
  ASSUME NEW d \in Devices, Fresh(d.cout)
  PROVE  LET e == Receive(d)
         IN  /\ e \in Devices /\ Same(e, d) /\ e.cin = d.cin /\ e.pending = d.pending
             /\ e.after = d.after /\ Single(e.cout, "set_cur") /\ Armed(e.cout)
<1> DEFINE c == Start(d.cout, "set_cur", 1, NoData)
<1>1. /\ d.cout \in Endpoints(FALSE) /\ Free(d.cout) /\ d.cout.halt = "none" /\ ~ d.cout.stall
      /\ d.cout.pid = 1
  BY DEF Devices, Fresh
<1>2. c \in Endpoints(FALSE) /\ Started(c, d.cout, "set_cur", 1, NoData)
  BY <1>1, StartGives, Sizes, PacketContents
<1> HIDE DEF c
<1>3. Receive(d) = [d EXCEPT !.cout = c]
  BY DEF Receive, c
<1>4. Single(c, "set_cur")
  BY <1>1, <1>2 DEF Runs, Single, Started
<1> QED
  BY <1>2, <1>3, <1>4 DEF Devices, Same, Started

\* The status stage of a read.
LEMMA ConfirmGives ==
  ASSUME NEW d \in Devices, Free(d.cout), d.cout.halt = "none", ~ d.cout.stall, d.cout.pid = 1
  PROVE  LET e == [d EXCEPT !.cout = Start(@, "packet", 1, NoData)]
         IN  /\ e \in Devices /\ Same(e, d) /\ e.cin = d.cin
             /\ Single(e.cout, "packet") /\ Armed(e.cout)
<1> DEFINE c == Start(d.cout, "packet", 1, NoData)
<1>1. d.cout \in Endpoints(FALSE)
  BY DEF Devices
<1>2. c \in Endpoints(FALSE) /\ Started(c, d.cout, "packet", 1, NoData)
  BY <1>1, StartGives, Sizes, PacketContents
<1> HIDE DEF c
<1>3. [d EXCEPT !.cout = Start(@, "packet", 1, NoData)] = [d EXCEPT !.cout = c]
  BY DEF c
<1>4. Single(c, "packet")
  BY <1>1, <1>2 DEF Runs, Single, Started
<1> QED
  BY <1>2, <1>3, <1>4 DEF Devices, Same, Started

LEMMA StallPipeRefuses ==
  ASSUME NEW d \in Devices, d.cin.raised = <<>>, d.cout.raised = <<>>,
         d.cin.halt = "none", d.cout.halt = "none"
  PROVE  LET e == StallPipe(d)
         IN  /\ e \in Devices /\ Same(e, d) /\ Refusing(e) /\ e.pending = d.pending
             /\ e.cin.xfer = d.cin.xfer /\ e.cout.xfer = d.cout.xfer
<1> DEFINE c == Stall(ResetBuffers(d.cin), "stall")
           o == Stall(ResetBuffers(d.cout), "stall")
<1>1. d.cin \in Endpoints(TRUE) /\ d.cout \in Endpoints(FALSE)
  BY DEF Devices
<1>2. /\ c \in Endpoints(TRUE) /\ Free(c) /\ c.stall /\ c.xfer = d.cin.xfer
      /\ o \in Endpoints(FALSE) /\ Free(o) /\ o.stall /\ o.xfer = d.cout.xfer
  BY <1>1, StallRefuses
<1> HIDE DEF c, o
<1>3. StallPipe(d) = [d EXCEPT !.cin = c, !.cout = o]
  BY DEF StallPipe, c, o
<1> QED
  BY <1>2, <1>3, ZenonT(100) DEF Devices, Same, Refusing

\* What a setup packet leads to: the mode, and what has changed.
ServedAs(d, e, r) ==
  LET refused == r.op = "UNKNOWN"
                 \/ (r.op \in {"GET_CUR", "SET_CUR", "SET_INTERFACE"} /\ d.config = 0)
  IN  /\ e.cur = d.cur /\ e.address = d.address
      /\ refused => Refusing(e) /\ Same(e, d)
      /\ ~ refused /\ IsRead(r) =>
           /\ Same(e, d) /\ Reading(e) /\ Armed(e.cin) /\ e.cin.xfer.submit = Expected(r) - 1
           /\ e.cin.buf[0].pid = 1
           /\ e.cin.buf[0].data =
                IF r.op = "GET_DESCRIPTOR" THEN DescriptorPart(1)
                ELSE Packet(r.what, d.cur[r.what], Length(r.what))
      /\ ~ refused /\ r.op = "SET_CUR" =>
           Same(e, d) /\ Writing(e) /\ Armed(e.cout) /\ e.pending.id = r.what
      /\ ~ refused /\ ~ IsRead(r) /\ r.op # "SET_CUR" =>
           /\ Acking(e) /\ Armed(e.cin)
           /\ e.after = "address" <=> r.op = "SET_ADDRESS"
           /\ e.after = "address" => e.pending_address = r.value
           /\ e.alt = IF r.op = "SET_INTERFACE" THEN r.value ELSE d.alt
           /\ e.config = IF r.op = "SET_CONFIGURATION" THEN r.value ELSE d.config

\* The six ways to serve one, each with the endpoints as a reset leaves them.
LEMMA ServeReads ==
  ASSUME NEW d \in Devices, Fresh(d.cin), Fresh(d.cout), NEW r \in Requests, IsRead(r),
         d.cur["rate"] \in Rates, d.cur["volume"] \in Volumes
  PROVE  Serve(d, r) \in Devices /\ ServedAs(d, Serve(d, r), r)
<1>1. r.op \in {"GET_CUR", "GET_DESCRIPTOR"}
  BY DEF IsRead
<1>2. CASE r.op = "GET_DESCRIPTOR"
  <2>1. Serve(d, r) = StartIn(d, "stream", Packets, DescriptorPart(1), "ack")
    BY <1>2 DEF Serve, DeviceRequest, TellDescriptor
  <2>2. Packets \in 1 .. Packets /\ 1 \in 1 .. Packets + 1
    BY Sizes
  <2> DEFINE e == StartIn(d, "stream", Packets, DescriptorPart(1), "ack")
  <2>3. /\ e \in Devices /\ Same(e, d) /\ e.cout = d.cout
        /\ e.after = "ack" /\ Runs(e.cin, "stream") /\ Armed(e.cin)
        /\ e.cin.xfer.submit = Packets - 1 /\ e.cin.buf[0].pid = 1
        /\ e.cin.buf[0].data = DescriptorPart(1)
    BY <2>2, StartInGives, PacketContents
  <2> HIDE DEF e
  <2> QED
    BY <1>2, <2>1, <2>3 DEF ServedAs, Reading, Same, Expected, e
<1>3. CASE r.op = "GET_CUR" /\ d.config # 0
  <2> DEFINE data == Packet(r.what, d.cur[r.what], Length(r.what))
  <2>1. Serve(d, r) = StartIn(d, "packet", 1, data, "ack")
    BY <1>3 DEF Serve, InterfaceRequest, Found, DoGetRequest, Tell
  <2>2. r.what \in Controls
    BY <1>3, RequestKinds
  <2>3. data \in Contents
    BY <2>2, PacketContents DEF Controls, AllValues
  <2> HIDE DEF data
  <2> DEFINE e == StartIn(d, "packet", 1, data, "ack")
  <2>4. /\ e \in Devices /\ Same(e, d) /\ e.cout = d.cout
        /\ e.after = "ack" /\ Runs(e.cin, "packet") /\ Armed(e.cin)
        /\ e.cin.xfer.submit = 1 - 1 /\ e.cin.buf[0].pid = 1
        /\ e.cin.buf[0].data = data
    <3>1. 1 \in 1 .. Packets /\ "packet" \in {"packet", "stream"} /\ "ack" \in {"nothing", "ack", "address"}
      BY Sizes
    <3> QED
      BY <2>3, <3>1, StartInGives
  <2> HIDE DEF e
  <2>5. Serve(d, r) = e
    BY <2>1 DEF e
  <2>6. Reading(e) /\ Same(e, d) /\ Armed(e.cin) /\ e.cin.xfer.submit = Expected(r) - 1
    BY <1>3, <2>4 DEF Reading, Single, Expected
  <2>7. r.op = "GET_CUR" /\ d.config # 0 /\ e.cur = d.cur /\ e.address = d.address
    BY <1>3, <2>4 DEF Same
  <2>8. ServedAs(d, e, r)
    BY <2>4, <2>6, <2>7 DEF ServedAs, data
  <2> QED
    BY <2>4, <2>5, <2>8
<1>4. CASE r.op = "GET_CUR" /\ d.config = 0
  <2>1. Serve(d, r) = StallPipe(d)
    BY <1>4 DEF Serve, InterfaceRequest, Found
  <2> QED
    BY <1>4, <2>1, StallPipeRefuses DEF ServedAs, Same, Fresh, Free, Idle
<1> QED
  BY <1>1, <1>2, <1>3, <1>4

LEMMA ServeSetCurrent ==
  ASSUME NEW d \in Devices, Fresh(d.cin), Fresh(d.cout), NEW r \in Requests, r.op = "SET_CUR"
  PROVE  Serve(d, r) \in Devices /\ ServedAs(d, Serve(d, r), r)
<1>1. CASE d.config # 0
  <2> DEFINE f == [d EXCEPT !.pending = [id |-> r.what, len |-> Length(r.what)]]
             e == Receive(f)
  <2>1. Serve(d, r) = e
    BY <1>1 DEF Serve, InterfaceRequest, Found, DoSetCurrent
  <2>2. r.what \in Controls /\ Length(r.what) \in {2, 3}
    BY RequestKinds, PacketContents
  <2>3. /\ f \in Devices /\ Same(f, d) /\ f.cin = d.cin /\ f.cout = d.cout
        /\ f.pending.id = r.what /\ f.pending.len = Length(r.what)
    BY <2>2 DEF Devices, Same
  <2> HIDE DEF f
  <2>4. /\ e \in Devices /\ Same(e, f) /\ e.cin = f.cin /\ e.pending = f.pending
        /\ Single(e.cout, "set_cur") /\ Armed(e.cout)
    BY <2>3, ReceiveGives
  <2> HIDE DEF e
  <2> QED
    BY <1>1, <2>1, <2>2, <2>3, <2>4 DEF ServedAs, Writing, Same, IsRead
<1>2. CASE d.config = 0
  <2>1. Serve(d, r) = StallPipe(d)
    BY <1>2 DEF Serve, InterfaceRequest, Found
  <2> QED
    BY <1>2, <2>1, StallPipeRefuses DEF ServedAs, Same, Fresh, Free, Idle
<1> QED
  BY <1>1, <1>2

\* An empty packet acknowledges what was carried out.
LEMMA AcknowledgeGives ==
  ASSUME NEW d \in Devices, Fresh(d.cin), Free(d.cout), ~ d.cout.stall,
         NEW complete \in {"nothing", "address"}
  PROVE  LET e == Acknowledge(d, complete)
         IN  /\ e \in Devices /\ Same(e, d) /\ e.pending = d.pending /\ e.after = complete
             /\ e.cout = d.cout /\ Acking(e) /\ Armed(e.cin)
BY StartInGives, Sizes, PacketContents DEF Acknowledge, Acking, Single

LEMMA ServeOthers ==
  ASSUME NEW d \in Devices, Fresh(d.cin), Fresh(d.cout), NEW r \in Requests,
         ~ IsRead(r), r.op # "SET_CUR"
  PROVE  Serve(d, r) \in Devices /\ ServedAs(d, Serve(d, r), r)
<1>1. /\ Free(d.cout) /\ ~ d.cout.stall /\ d.cin.raised = <<>> /\ d.cout.raised = <<>>
      /\ d.cin.halt = "none" /\ d.cout.halt = "none"
  BY DEF Fresh, Free, Idle
<1>2. CASE r.op = "UNKNOWN" \/ (r.op = "SET_INTERFACE" /\ d.config = 0)
  <2>1. Serve(d, r) = StallPipe(d)
    BY <1>2 DEF Serve, DeviceRequest, InterfaceRequest, Found
  <2> QED
    BY <1>1, <1>2, <2>1, StallPipeRefuses DEF ServedAs, Same
<1>3. CASE r.op = "SET_INTERFACE" /\ d.config # 0
  <2> DEFINE f == [d EXCEPT !.alt = r.value]
             e == Acknowledge(f, "nothing")
  <2>1. Serve(d, r) = e
    BY <1>3 DEF Serve, InterfaceRequest, Found, SetInterface
  <2>2. /\ f \in Devices /\ f.cin = d.cin /\ f.cout = d.cout /\ f.cur = d.cur
        /\ f.address = d.address /\ f.alt = r.value /\ f.config = d.config
    BY <1>3, RequestKinds DEF Devices
  <2> HIDE DEF f
  <2>3. e \in Devices /\ Same(e, f) /\ e.after = "nothing" /\ Acking(e) /\ Armed(e.cin)
    BY <1>1, <2>2, AcknowledgeGives
  <2> HIDE DEF e
  <2> QED
    BY <1>3, <2>1, <2>2, <2>3 DEF ServedAs, Same, IsRead
<1>4. CASE r.op = "SET_ADDRESS"
  <2> DEFINE f == [d EXCEPT !.pending_address = r.value]
             e == Acknowledge(f, "address")
  <2>1. Serve(d, r) = e
    BY <1>4 DEF Serve, DeviceRequest, SetAddress
  <2>2. /\ f \in Devices /\ f.cin = d.cin /\ f.cout = d.cout /\ f.cur = d.cur
        /\ f.address = d.address /\ f.alt = d.alt /\ f.config = d.config
        /\ f.pending_address = r.value
    BY <1>4, RequestKinds DEF Devices
  <2> HIDE DEF f
  <2>3. e \in Devices /\ Same(e, f) /\ e.after = "address" /\ Acking(e) /\ Armed(e.cin)
    BY <1>1, <2>2, AcknowledgeGives
  <2> HIDE DEF e
  <2> QED
    BY <1>4, <2>1, <2>2, <2>3 DEF ServedAs, Same, IsRead
<1>5. CASE r.op = "SET_CONFIGURATION"
  <2> DEFINE f == [d EXCEPT !.config = r.value]
             e == Acknowledge(f, "nothing")
  <2>1. Serve(d, r) = e
    BY <1>5 DEF Serve, DeviceRequest, SetConfiguration
  <2>2. /\ f \in Devices /\ f.cin = d.cin /\ f.cout = d.cout /\ f.cur = d.cur
        /\ f.address = d.address /\ f.alt = d.alt /\ f.config = r.value
    BY <1>5, RequestKinds DEF Devices
  <2> HIDE DEF f
  <2>3. e \in Devices /\ Same(e, f) /\ e.after = "nothing" /\ Acking(e) /\ Armed(e.cin)
    BY <1>1, <2>2, AcknowledgeGives
  <2> HIDE DEF e
  <2> QED
    BY <1>5, <2>1, <2>2, <2>3 DEF ServedAs, Same, IsRead
<1> QED
  BY <1>2, <1>3, <1>4, <1>5, RequestKinds DEF IsRead

\* A setup packet is always served, whatever it interrupts.
LEMMA SetupServed ==
  ASSUME NEW d \in Devices, d.cin.raised = <<>>, d.cout.raised = <<>>, NEW r \in Requests,
         d.cur["rate"] \in Rates, d.cur["volume"] \in Volumes
  PROVE  HandleSetup(d, r) \in Devices /\ ServedAs(d, HandleSetup(d, r), r)
<1> DEFINE c == [Reset(d.cin, FALSE) EXCEPT !.pid = 1]
           o == [Reset(d.cout, FALSE) EXCEPT !.pid = 1]
           f == [d EXCEPT !.cin = c, !.cout = o]
<1>1. d.cin \in Endpoints(TRUE) /\ d.cout \in Endpoints(FALSE)
  BY DEF Devices
<1>2. c \in Endpoints(TRUE) /\ Fresh(c) /\ o \in Endpoints(FALSE) /\ Fresh(o)
  BY <1>1, ResetIsFresh
<1> HIDE DEF c, o
<1>3. /\ f \in Devices /\ Same(f, d) /\ f.cin = c /\ f.cout = o /\ f.cur = d.cur
  BY <1>2 DEF Devices, Same
<1>4. HandleSetup(d, r) = Serve(f, r)
  BY DEF HandleSetup, c, o
<1> HIDE DEF f
<1>5. Serve(f, r) \in Devices /\ ServedAs(f, Serve(f, r), r)
  BY <1>2, <1>3, ServeReads, ServeSetCurrent, ServeOthers
<1> QED
  BY <1>3, <1>4, <1>5 DEF ServedAs, Same

\* An answer's packet went through: the next follows, or the host's status stage.
LEMMA ReadHandled ==
  ASSUME NEW d \in Devices, Reading(d), Raised(d.cin)
  PROVE  LET e == HandleBuffers(d)
             left == d.cin.xfer.submit
         IN  /\ e \in Devices /\ Same(e, d)
             /\ left > 0 =>
                  /\ Reading(e) /\ Armed(e.cin) /\ e.cin.xfer.submit = left - 1
                  /\ e.cin.buf[0].pid = d.cin.pid
                  /\ e.cin.buf[0].data = DescriptorPart(Packets - left + 1)
             /\ left = 0 => Confirming(e) /\ Armed(e.cout)
<1> DEFINE left == d.cin.xfer.submit
           data == DescriptorPart(Packets - left + 1)
           c == Handle(d.cin, data)
           f == [d EXCEPT !.cin = c]
<1>1. d.cin \in Endpoints(TRUE) /\ d.cin.xfer \in Transfers /\ Fresh(d.cout) /\ d.after = "ack"
  BY DEF Reading, Devices, Endpoints
<1>2. left \in 0 .. Packets /\ Packets \in Nat
  BY <1>1, Sizes DEF Transfers
<1>3. d.cin.xfer.handle = left + 1 /\ left < Packets
  BY <1>1, <1>2 DEF Reading, Single, Runs, Transfers
<1>4. Packets - left + 1 \in 1 .. Packets + 1
  BY <1>2
<1>5. data \in Contents
  BY <1>4, PacketContents
<1>6. d.cin.raised # <<>> /\ d.cout.raised = <<>>
  BY <1>1 DEF Raised, Fresh, Free, Idle
<1>7. HandleBuffers(d) = HandleIn(d)
  BY <1>6 DEF HandleBuffers
<1>8. CASE left > 0
  <2>1. Runs(d.cin, "stream") /\ d.cin.xfer.kind = "stream"
    BY <1>8 DEF Reading, Single, Runs
  <2>2. /\ c \in Endpoints(TRUE) /\ Runs(c, "stream") /\ Armed(c)
        /\ c.xfer.submit = left - 1 /\ c.buf[0].pid = d.cin.pid /\ c.buf[0].data = data
    BY <1>1, <1>5, <1>8, <2>1, NextGiven, ZenonT(100)
  <2> HIDE DEF c
  <2>3. /\ f \in Devices /\ Same(f, d) /\ f.cin = c /\ f.cout = d.cout /\ f.after = "ack"
    BY <1>1, <2>2 DEF Devices, Same
  <2>4. c.xfer.kind = "stream"
    BY <2>2 DEF Runs
  <2>5. HandleIn(d) = f
    BY <2>3, <2>4 DEF HandleIn, c
  <2> HIDE DEF f, data
  <2> QED
    BY <1>1, <1>7, <1>8, <2>2, <2>3, <2>5 DEF Reading, data
<1>9. CASE left = 0
  <2>1. PICK kind \in {"packet", "stream"} : Runs(d.cin, kind)
    BY DEF Reading, Single
  <2>2. /\ c \in Endpoints(TRUE) /\ Free(c) /\ c.xfer = NoTransfer
        /\ c.halt = "none" /\ ~ c.stall
    BY <1>1, <1>9, <2>1, LastHandled
  <2> HIDE DEF c
  <2>3. /\ f \in Devices /\ Same(f, d) /\ f.cin = c /\ f.cout = d.cout /\ f.after = "ack"
    BY <1>1, <2>2 DEF Devices, Same
  <2>4. d.cin.xfer.kind # "none" /\ c.xfer.kind = "none"
    BY <2>1, <2>2 DEF Runs, NoTransfer
  <2>5. HandleIn(d) = Completed(f)
    BY <2>2, <2>3, <2>4 DEF HandleIn, c
  <2> HIDE DEF f
  <2> DEFINE e == [f EXCEPT !.cout = Start(@, "packet", 1, NoData)]
  <2>6. Completed(f) = e
    BY <2>3 DEF Completed
  <2>7. e \in Devices /\ Same(e, f) /\ e.cin = f.cin /\ Single(e.cout, "packet") /\ Armed(e.cout)
    BY <1>1, <2>3, ConfirmGives DEF Fresh
  <2> HIDE DEF e
  <2> QED
    BY <1>7, <1>9, <2>2, <2>3, <2>5, <2>6, <2>7 DEF Confirming, Same
<1> QED
  BY <1>2, <1>8, <1>9

\* The host's status packet: the request is over.
LEMMA ConfirmHandled ==
  ASSUME NEW d \in Devices, Confirming(d), Raised(d.cout)
  PROVE  LET e == HandleBuffers(d) IN e \in Devices /\ Same(e, d) /\ Over(e)
<1> DEFINE o == Handle(d.cout, NoData)
<1>1. d.cout \in Endpoints(FALSE)
  BY DEF Devices
<1>2. d.cin.raised = <<>> /\ d.cout.raised # <<>> /\ d.cout.xfer.kind = "packet"
  BY DEF Confirming, Free, Idle, Raised, Single, Runs
<1>3. o \in Endpoints(FALSE) /\ Free(o) /\ o.xfer = NoTransfer /\ ~ o.stall
  BY <1>1, LastHandled DEF Confirming, Single
<1> HIDE DEF o
<1>4. HandleBuffers(d) = [d EXCEPT !.cout = o]
  BY <1>2 DEF HandleBuffers, HandleOut, o
<1> QED
  BY <1>3, <1>4 DEF Devices, Same, Confirming, Over, Free, NoTransfer

\* The status packet of a write has gone to the host.
LEMMA AckHandled ==
  ASSUME NEW d \in Devices, Acking(d), Raised(d.cin)
  PROVE  LET e == HandleBuffers(d)
         IN  /\ e \in Devices /\ Over(e)
             /\ e.cur = d.cur /\ e.alt = d.alt /\ e.config = d.config
             /\ e.address = IF d.after = "address" THEN d.pending_address ELSE d.address
<1> DEFINE data == DescriptorPart(Packets - d.cin.xfer.submit + 1)
           c == Handle(d.cin, data)
           f == [d EXCEPT !.cin = c]
<1>1. d.cin \in Endpoints(TRUE)
  BY DEF Devices
<1>2. d.cin.raised # <<>> /\ d.cout.raised = <<>> /\ d.cin.xfer.kind = "packet"
  BY DEF Acking, Free, Idle, Raised, Single, Runs
<1>3. c \in Endpoints(TRUE) /\ Free(c) /\ c.xfer = NoTransfer /\ ~ c.stall /\ c.halt = "none"
  BY <1>1, LastHandled DEF Acking, Single
<1> HIDE DEF c
<1>4. /\ f \in Devices /\ Same(f, d) /\ f.cin = c /\ f.cout = d.cout /\ f.after = d.after
  BY <1>3 DEF Devices, Same
<1>5. HandleBuffers(d) = Completed(f)
  BY <1>2, <1>3, <1>4 DEF HandleBuffers, HandleIn, NoTransfer, c
<1> HIDE DEF f
<1>6. f.after \in {"nothing", "address"}
  BY <1>4 DEF Acking, Devices
<1>7. Completed(f) = IF f.after = "address" THEN [f EXCEPT !.address = f.pending_address] ELSE f
  BY <1>6 DEF Completed
<1>8. Over(f)
  BY <1>3, <1>4 DEF Acking, Over, Free
<1>9. CASE f.after = "address"
  <2> DEFINE e == [f EXCEPT !.address = f.pending_address]
  <2>1. /\ e \in Devices /\ e.cin = f.cin /\ e.cout = f.cout /\ e.cur = f.cur /\ e.alt = f.alt
        /\ e.config = f.config /\ e.address = f.pending_address
    BY <1>4 DEF Devices
  <2>2. HandleBuffers(d) = e
    BY <1>5, <1>7, <1>9
  <2> HIDE DEF e
  <2> QED
    BY <1>4, <1>8, <1>9, <2>1, <2>2 DEF Same, Over
<1>10. CASE f.after # "address"
  BY <1>4, <1>5, <1>7, <1>8, <1>10 DEF Same
<1> QED
  BY <1>9, <1>10

\* Whether set_cur_packet takes a packet.
Takes(d, p) == ~ (p[3] < d.pending.len) /\ (d.pending.id = "rate" => p[2] \in Rates)

LEMMA SettleKeeps ==
  ASSUME NEW in \in BOOLEAN, NEW ep \in Endpoints(in), ep.xfer.handle = 1
  PROVE  LET e == Settle(ep)
         IN  /\ e \in Endpoints(in) /\ e.owned = ep.owned /\ e.buf = ep.buf
             /\ e.raised = ep.raised /\ e.stall = ep.stall
<1>1. Settle(ep) \in {[ep EXCEPT !.xfer = NoTransfer], [ep EXCEPT !.xfer = [ep.xfer EXCEPT !.handle = 0]]}
  BY DEF Settle
<1>2. NoTransfer \in Transfers /\ [ep.xfer EXCEPT !.handle = 0] \in Transfers
  BY Sizes DEF NoTransfer, Transfers, Endpoints
<1> QED
  BY <1>1, <1>2 DEF Endpoints

\* A control's new value: it is taken and acknowledged, or refused whole.
LEMMA WriteHandled ==
  ASSUME NEW d \in Devices, Writing(d), Raised(d.cout),
         d.pending.id = "volume" => d.cout.buf[0].data[2] \in Volumes
  PROVE  LET e == HandleBuffers(d)
             p == d.cout.buf[0].data
         IN  /\ e \in Devices
             /\ Takes(d, p) =>
                  /\ Acking(e) /\ Armed(e.cin) /\ e.after = "nothing"
                  /\ e.cur = [d.cur EXCEPT ![d.pending.id] = p[2]]
                  /\ e.alt = d.alt /\ e.config = d.config /\ e.address = d.address
             /\ ~ Takes(d, p) => Refusing(e) /\ Same(e, d)
<1> DEFINE p == d.cout.buf[0].data
           id == d.pending.id
           t == Take(d.cout)
           o == [t EXCEPT !.xfer.outstanding = TRUE]
           f == [d EXCEPT !.cout = o]
           g == [f EXCEPT !.pending.id = "none"]
           h == [g EXCEPT !.cur[id] = p[2]]
<1>1. d.cin \in Endpoints(TRUE) /\ d.cout \in Endpoints(FALSE) /\ id \in Controls /\ id # "none"
  BY DEF Devices, Writing, Controls
<1>2. /\ d.cin.raised = <<>> /\ d.cout.raised = <<0>> /\ d.cout.raised # <<>>
      /\ Head(d.cout.raised) = 0 /\ d.cout.xfer.kind = "set_cur" /\ ~ d.cout.xfer.outstanding
      /\ d.cout.xfer.handle = 1
  BY DEF Writing, Fresh, Free, Idle, Raised, Single, Runs
<1>3. /\ t \in Endpoints(FALSE) /\ Free(t) /\ t.xfer = d.cout.xfer /\ t.pid = d.cout.pid
      /\ t.halt = "none" /\ ~ t.stall
  BY <1>1, TakeFrees DEF Writing, Single, Runs
<1> HIDE DEF t
<1>4. /\ o \in Endpoints(FALSE) /\ Free(o) /\ o.xfer = [d.cout.xfer EXCEPT !.outstanding = TRUE]
      /\ o.xfer.outstanding /\ o.xfer.handle = 1
      /\ o.xfer.kind = "set_cur" /\ o.halt = "none" /\ ~ o.stall
  BY <1>2, <1>3, ZenonT(100) DEF Endpoints, Transfers, Free, Idle
<1>5. HandleBuffers(d) = [SetCurPacket(f, p) EXCEPT !.cout = Settle(@)]
  BY <1>2 DEF HandleBuffers, HandleOut, t
<1> HIDE DEF o
<1>6. f \in Devices /\ Same(f, d) /\ f.cin = d.cin /\ f.cout = o /\ f.pending = d.pending
  BY <1>4 DEF Devices, Same
<1> HIDE DEF f, p
<1>7. /\ g \in Devices /\ Same(g, d) /\ g.cin = d.cin /\ g.cout = o
  BY <1>6 DEF Devices, Same
<1> HIDE DEF g
<1>8. CASE Takes(d, p)
  <2>1. p[2] \in Rates \cup Volumes
    BY <1>1, <1>8 DEF Takes, Controls, p
  <2>2. /\ h \in Devices /\ h.cin = d.cin /\ h.cout = o /\ h.cur = [d.cur EXCEPT ![id] = p[2]]
        /\ h.alt = d.alt /\ h.config = d.config /\ h.address = d.address
    BY <1>1, <1>7, <2>1 DEF Devices, Same, Currents
  <2>3. SetCurPacket(f, p) = Acknowledge(h, "nothing")
    BY <1>1, <1>6, <1>8 DEF SetCurPacket, Takes, g
  <2> HIDE DEF h
  <2> DEFINE a == Acknowledge(h, "nothing")
  <2>4. /\ a \in Devices /\ Same(a, h) /\ a.after = "nothing" /\ a.cout = o /\ Acking(a) /\ Armed(a.cin)
    BY <1>4, <2>2, AcknowledgeGives DEF Writing
  <2> HIDE DEF a
  <2> DEFINE q == Settle(o)
             e == [a EXCEPT !.cout = q]
  <2>6. q \in Endpoints(FALSE) /\ Free(q) /\ ~ q.stall
    BY <1>4, SettleKeeps DEF Free, Idle
  <2> HIDE DEF q
  <2>7. /\ e \in Devices /\ e.cur = h.cur /\ e.alt = h.alt /\ e.config = h.config /\ e.address = h.address
        /\ e.cin = a.cin /\ e.cout = q /\ e.after = "nothing"
    BY <2>4, <2>6 DEF Devices, Same
  <2>8. HandleBuffers(d) = e
    BY <1>5, <2>3, <2>4 DEF a, q
  <2> HIDE DEF e
  <2> QED
    BY <1>8, <2>2, <2>4, <2>6, <2>7, <2>8 DEF Acking, p
<1>9. CASE ~ Takes(d, p)
  <2>1. SetCurPacket(f, p) = StallPipe(g)
    BY <1>1, <1>6, <1>9 DEF SetCurPacket, Takes, g
  <2> DEFINE a == StallPipe(g)
  <2>2. /\ a \in Devices /\ Same(a, g) /\ Refusing(a) /\ a.cout.xfer = g.cout.xfer
    BY <1>4, <1>7, StallPipeRefuses DEF Writing, Fresh, Free, Idle
  <2> HIDE DEF a
  <2> DEFINE q == Settle(a.cout)
             e == [a EXCEPT !.cout = q]
  <2>3. a.cout \in Endpoints(FALSE) /\ Free(a.cout) /\ a.cout.stall /\ a.cout.xfer.handle = 1
    BY <1>4, <1>7, <2>2 DEF Devices, Refusing
  <2>4. q \in Endpoints(FALSE) /\ Free(q) /\ q.stall
    BY <2>3, SettleKeeps DEF Free, Idle
  <2>5. /\ e \in Devices /\ Same(e, a) /\ e.cin = a.cin /\ e.cout = q
    BY <2>2, <2>4 DEF Devices, Same
  <2>6. HandleBuffers(d) = e
    BY <1>5, <2>1 DEF a, q
  <2> HIDE DEF e
  <2> QED
    BY <1>7, <1>9, <2>2, <2>4, <2>5, <2>6 DEF Refusing, Same, p
<1> QED
  BY <1>8, <1>9

-----------------------------------------------------------------------------
(***************************************************************************)
(* Modes, and the wire.                                                    *)
(***************************************************************************)

LEMMA Becomes ==
  ASSUME NEW e \in Devices, BecomesDevice(e)
  PROVE  Device' = e
BY DEF Device, Devices, BecomesDevice

LEMMA Parts ==
  /\ Device.cin = cin /\ Device.cout = cout /\ Device.after = after
  /\ Device.pending = pending_set /\ Device.cur = cur /\ Device.alt = alt
  /\ Device.address = address /\ Device.pending_address = pending_address
  /\ Device.config = config
BY DEF Device

LEMMA PartsNext ==
  /\ Device'.cin = cin' /\ Device'.cout = cout' /\ Device'.after = after'
  /\ Device'.pending = pending_set' /\ Device'.cur = cur' /\ Device'.alt = alt'
  /\ Device'.address = address' /\ Device'.pending_address = pending_address'
  /\ Device'.config = config'
BY DEF Device

\* The six modes exclude each other.
LEMMA OneMode ==
  ASSUME NEW d
  PROVE  /\ Reading(d) => ~ (Confirming(d) \/ Writing(d) \/ Acking(d) \/ Refusing(d) \/ Over(d))
         /\ Confirming(d) => ~ (Writing(d) \/ Acking(d) \/ Refusing(d) \/ Over(d))
         /\ Writing(d) => ~ (Acking(d) \/ Refusing(d) \/ Over(d))
         /\ Acking(d) => ~ (Refusing(d) \/ Over(d))
         /\ Refusing(d) => ~ Over(d)
<1>1. Reading(d) => ~ (Confirming(d) \/ Writing(d) \/ Acking(d) \/ Refusing(d) \/ Over(d))
  BY DEF Reading, Confirming, Writing, Acking, Refusing, Over, Single, Runs, Fresh, Free, Armed,
         Raised, Idle, NoTransfer
<1>2. Confirming(d) => ~ (Writing(d) \/ Acking(d) \/ Refusing(d) \/ Over(d))
  BY DEF Confirming, Writing, Acking, Refusing, Over, Single, Runs, Fresh, Free, Armed,
         Raised, Idle, NoTransfer
<1>3. Writing(d) => ~ (Acking(d) \/ Refusing(d) \/ Over(d))
  BY DEF Writing, Acking, Refusing, Over, Single, Runs, Fresh, Free, Armed, Raised, Idle, NoTransfer
<1>4. Acking(d) => ~ (Refusing(d) \/ Over(d))
  BY DEF Acking, Refusing, Over, Single, Runs, Fresh, Free, Armed, Raised, Idle, NoTransfer
<1>5. Refusing(d) => ~ Over(d)
  BY DEF Refusing, Over, Idle
<1> QED
  BY <1>1, <1>2, <1>3, <1>4, <1>5

\* A buffer is not in two places.
LEMMA OnePlace ==
  ASSUME NEW ep
  PROVE  /\ Armed(ep) => ~ Raised(ep) /\ ~ Idle(ep) /\ ep.raised = <<>>
         /\ Raised(ep) => ~ Idle(ep) /\ ep.raised # <<>>
         /\ Free(ep) => ~ Raised(ep) /\ ~ Armed(ep)
         /\ Fresh(ep) => Idle(ep) /\ Free(ep)
         /\ Idle(ep) => ep.raised = <<>>
BY DEF Armed, Raised, Idle, Free, Fresh

\* Which endpoint a mode waits for; the other has nothing raised and nothing armed.
LEMMA Waits ==
  ASSUME NEW d
  PROVE  /\ Reading(d) \/ Acking(d) => (Armed(d.cin) \/ Raised(d.cin)) /\ Idle(d.cout)
         /\ Confirming(d) \/ Writing(d) => (Armed(d.cout) \/ Raised(d.cout)) /\ Idle(d.cin)
         /\ Refusing(d) \/ Over(d) => Idle(d.cin) /\ Idle(d.cout)
         /\ Refusing(d) => d.cin.stall /\ d.cout.stall
         /\ ~ Refusing(d) /\ (Reading(d) \/ Confirming(d) \/ Writing(d) \/ Acking(d) \/ Over(d)) =>
              ~ d.cin.stall /\ ~ d.cout.stall
BY DEF Reading, Confirming, Writing, Acking, Refusing, Over, Single, Runs, Fresh, Free

\* An endpoint that listens is armed.
LEMMA ReadyIsArmed ==
  ASSUME NEW in \in BOOLEAN, NEW ep \in Endpoints(in)
  PROVE  /\ ep.hw = 0
         /\ Ready(ep) => ~ Idle(ep) /\ ~ Raised(ep)
         /\ Armed(ep) /\ ~ ep.stall => Ready(ep)
BY DEF Ready, Armed, Raised, Idle, Endpoints

\* The packet at the controller's turn goes through.
LEMMA ThroughRaises ==
  ASSUME NEW in \in BOOLEAN, NEW ep \in Endpoints(in), Armed(ep), NEW data \in Contents
  PROVE  LET e == Through(ep, data)
         IN  /\ e \in Endpoints(in) /\ Raised(e) /\ e.buf[0].data = data
             /\ e.buf[0].pid = ep.buf[0].pid /\ e.pid = ep.pid /\ e.xfer = ep.xfer
             /\ e.halt = ep.halt /\ e.stall = ep.stall
<1> DEFINE e == Through(ep, data)
           c == [ep.buf EXCEPT ![0].at = "cpu", ![0].data = data]
<1>1. /\ ep.hw = 0 /\ ep.bufs = 1 /\ ep.raised = <<>> /\ ep.owned = 0 /\ ep.buf \in [{0} -> Buffers]
  BY DEF Endpoints, Armed
<1>2. /\ c \in [{0} -> Buffers] /\ c[0].at = "cpu" /\ c[0].data = data
      /\ c[0].pid = ep.buf[0].pid
  BY <1>1 DEF Buffers
<1>3. OtherBuffer(ep, 0) = 0 /\ Append(ep.raised, 0) = <<0>>
  BY <1>1 DEF OtherBuffer
<1>4. e = [ep EXCEPT !.buf = c, !.raised = <<0>>, !.hw = 0]
  BY <1>1, <1>3 DEF Through
<1> HIDE DEF c, e
<1> QED
  BY <1>1, <1>2, <1>4 DEF Endpoints, Raised, e

\* ... and the mode is as before.
LEMMA ThroughIn ==
  ASSUME NEW d \in Devices, Armed(d.cin), Reading(d) \/ Acking(d)
  PROVE  LET c == Through(d.cin, NoData)
             e == [d EXCEPT !.cin = c]
         IN  /\ e \in Devices /\ Same(e, d) /\ Raised(c) /\ c.xfer = d.cin.xfer /\ c.pid = d.cin.pid
             /\ Reading(d) => Reading(e)
             /\ Acking(d) => Acking(e)
<1> DEFINE c == Through(d.cin, NoData)
           e == [d EXCEPT !.cin = c]
<1>1. d.cin \in Endpoints(TRUE) /\ NoData \in Contents
  BY PacketContents DEF Devices
<1>2. /\ c \in Endpoints(TRUE) /\ Raised(c) /\ c.buf[0].pid = d.cin.buf[0].pid /\ c.pid = d.cin.pid
      /\ c.xfer = d.cin.xfer /\ c.halt = d.cin.halt /\ c.stall = d.cin.stall
  BY <1>1, ThroughRaises, ZenonT(100)
<1> HIDE DEF c
<1>3. \A kind : Runs(d.cin, kind) => Runs(c, kind)
  BY <1>2 DEF Runs
<1>4. e \in Devices /\ Same(e, d) /\ e.cin = c /\ e.cout = d.cout /\ e.after = d.after
  BY <1>2 DEF Devices, Same
<1> HIDE DEF e
<1> QED
  BY <1>2, <1>3, <1>4 DEF Reading, Acking, Single, c, e

LEMMA ThroughOut ==
  ASSUME NEW d \in Devices, Armed(d.cout), Confirming(d) \/ Writing(d), NEW data \in Contents
  PROVE  LET c == Through(d.cout, data)
             e == [d EXCEPT !.cout = c]
         IN  /\ e \in Devices /\ Same(e, d) /\ Raised(c) /\ c.buf[0].data = data
             /\ Confirming(d) => Confirming(e)
             /\ Writing(d) => Writing(e)
<1> DEFINE c == Through(d.cout, data)
           e == [d EXCEPT !.cout = c]
<1>1. d.cout \in Endpoints(FALSE)
  BY DEF Devices
<1>2. /\ c \in Endpoints(FALSE) /\ Raised(c) /\ c.buf[0].pid = d.cout.buf[0].pid
      /\ c.pid = d.cout.pid /\ c.buf[0].data = data
      /\ c.xfer = d.cout.xfer /\ c.halt = d.cout.halt /\ c.stall = d.cout.stall
  BY <1>1, ThroughRaises
<1> HIDE DEF c
<1>3. \A kind : Runs(d.cout, kind) => Runs(c, kind)
  BY <1>2 DEF Runs
<1>4. e \in Devices /\ Same(e, d) /\ e.cout = c /\ e.cin = d.cin /\ e.pending = d.pending
  BY <1>2 DEF Devices, Same
<1> HIDE DEF e
<1> QED
  BY <1>2, <1>3, <1>4 DEF Confirming, Writing, Single, c, e

-----------------------------------------------------------------------------
(***************************************************************************)
(* Every step keeps the invariant.                                         *)
(***************************************************************************)

LEMMA InRange ==
  ASSUME DeviceInv
  PROVE  /\ Device \in Devices /\ cin \in Endpoints(TRUE) /\ cout \in Endpoints(FALSE)
         /\ cur \in Currents /\ alt \in Alts \cup {0} /\ config \in {0, 1}
         /\ address \in Addresses \cup {0} /\ pending_address \in Addresses \cup {0}
BY Parts DEF DeviceInv, Devices

\* A step that touches neither the device nor what the host holds.
LEMMA Untouched ==
  ASSUME DeviceInv, HostInv, UNCHANGED <<pipeVars, stateVars, setup, host>>
  PROVE  DeviceInv' /\ HostInv'
<1>1. Device' = Device
  BY DEF Device, pipeVars, stateVars
<1> USE DEF pipeVars, stateVars
<1>2. DeviceInv'
  BY <1>1 DEF DeviceInv
<1>3. AnswersThisRequest' <=> AnswersThisRequest
  BY DEF AnswersThisRequest
<1>4. ReadInv' <=> ReadInv
  BY DEF ReadInv, Answer
<1>5. HostInv'
  BY <1>1, <1>3, <1>4 DEF HostInv
<1> QED
  BY <1>2, <1>5

LEMMA IrqEnterKeeps == ASSUME IInv, IrqEnter PROVE IInv'
<1>1. DeviceInv' /\ HostInv'
  BY Untouched DEF IInv, IrqEnter
<1>2. WireInv'
  BY DEF IInv, IrqEnter, WireInv, Pending, Handled, pipeVars, stateVars
<1> QED
  BY <1>1, <1>2 DEF IInv

\* What the interrupt finds when it serves a setup packet, and what it does.
LEMMA SetupStep ==
  ASSUME IInv, IrqSetup
  PROVE  /\ setup = host.req /\ host.req \in Requests
         /\ Device' \in Devices /\ ServedAs(Device, Device', host.req)
<1>1. setup = host.req /\ host.req \in Requests /\ cin.raised = <<>> /\ cout.raised = <<>>
  BY DEF IInv, WireInv, IrqSetup, Handled
<1>2. /\ HandleSetup(Device, host.req) \in Devices
      /\ ServedAs(Device, HandleSetup(Device, host.req), host.req)
  BY <1>1, SetupServed, Parts DEF IInv, DeviceInv
<1>3. Device' = HandleSetup(Device, host.req)
  BY <1>1, <1>2, Becomes DEF IrqSetup
<1> QED
  BY <1>1, <1>2, <1>3

LEMMA IrqSetupKeeps == ASSUME IInv, IrqSetup PROVE IInv'
<1> DEFINE r == host.req
           refused == r.op = "UNKNOWN"
                      \/ (r.op \in {"GET_CUR", "SET_CUR", "SET_INTERFACE"} /\ config = 0)
<1>1. setup = r /\ r \in Requests /\ Device' \in Devices /\ ServedAs(Device, Device', r)
  BY SetupStep
<1>2. /\ host' = host /\ setup' = NoRequest /\ irq' = irq \ {"setup"}
      /\ reset_seen' = reset_seen /\ aborts' = aborts /\ setup # NoRequest
  BY <1>1, RequestKinds DEF IrqSetup
<1>3. cur' = cur /\ address' = address
  BY <1>1, Parts, PartsNext DEF ServedAs
<1>4. /\ refused => Refusing(Device')
      /\ ~ refused /\ IsRead(r) =>
           /\ Reading(Device') /\ Armed(cin') /\ cin'.xfer.submit = Expected(r) - 1
           /\ cin'.buf[0].pid = 1 /\ cin'.buf[0].data = Answer(r, 1)
      /\ ~ refused /\ r.op = "SET_CUR" =>
           Writing(Device') /\ Armed(cout') /\ pending_set'.id = r.what
      /\ ~ refused /\ ~ IsRead(r) /\ r.op # "SET_CUR" =>
           /\ Acking(Device') /\ Armed(cin')
           /\ after' = "address" <=> r.op = "SET_ADDRESS"
           /\ after' = "address" => pending_address' = r.value
  BY <1>1, Parts, PartsNext DEF ServedAs, Answer
<1>5. /\ \/ Refusing(Device') \/ Reading(Device') \/ Writing(Device') \/ Acking(Device')
      /\ cin'.raised = <<>> /\ cout'.raised = <<>>
  BY <1>4, Waits, OnePlace, PartsNext
<1>6. DeviceInv'
  BY <1>1, <1>3, <1>5 DEF DeviceInv, IInv
<1>7. WireInv'
  BY <1>1, <1>2, <1>5 DEF WireInv, IInv, Handled
<1>8. host \in Hosts /\ host.got = <<>>
      /\ (host.stage = "idle" \/ (host.stage = FirstStage(r) /\ host.pid = 1))
  BY <1>1, <1>2 DEF IInv, HostInv
<1>9. AnswersThisRequest'
  BY <1>2, <1>8 DEF AnswersThisRequest
<1>10. HostInv'
  <2>1. ~ Confirming(Device') /\ ~ Over(Device')
    BY <1>5, OneMode
  <2>2. ASSUME Reading(Device')
        PROVE  /\ ~ refused /\ IsRead(r) /\ Armed(cin') /\ ~ Raised(cin')
               /\ cin'.xfer.submit = Expected(r) - 1
               /\ cin'.buf[0].pid = 1 /\ cin'.buf[0].data = Answer(r, 1)
    BY <1>4, <2>2, OneMode, OnePlace
  <2>3. ASSUME Writing(Device')
        PROVE  r.op = "SET_CUR" /\ Armed(cout') /\ ~ Raised(cout') /\ pending_set'.id = r.what
    BY <1>4, <2>3, OneMode, OnePlace
  <2>4. ASSUME Acking(Device')
        PROVE  /\ ~ IsRead(r) /\ r.op # "SET_CUR" /\ Armed(cin')
               /\ after' = "address" <=> r.op = "SET_ADDRESS"
               /\ after' = "address" => pending_address' = r.value
    BY <1>4, <2>4, OneMode
  <2>5. ASSUME Reading(Device'), host.stage # "idle"
        PROVE  ReadInv'
    <3>1. Len(host.got) = 0 /\ Expected(r) \in Nat /\ Expected(r) > 0
      BY <1>8, Sizes DEF Expected
    <3>2. host.stage = "in" /\ host.pid = 1
      BY <1>8, <2>2, <2>5 DEF FirstStage, IsRead
    <3>3. Answer(r, 1)' = Answer(r, 1)
      BY <1>2, <1>3 DEF Answer
    <3> QED
      BY <1>2, <2>2, <2>5, <3>1, <3>2, <3>3 DEF ReadInv, Answer
  <2>6. FirstStage(r) = IF IsRead(r) THEN "in" ELSE IF r.op = "SET_CUR" THEN "out" ELSE "status_in"
    BY DEF FirstStage, IsRead
  <2> QED
    BY <1>2, <1>8, <1>9, <2>1, <2>3, <2>4, <2>5, <2>6 DEF HostInv, IsRead
<1> QED
  BY <1>6, <1>7, <1>10 DEF IInv

\* What the interrupt finds when it serves a buffer: no setup packet waits, and
\* one of four modes has a packet through.
LEMMA BufferFound ==
  ASSUME IInv, IrqBuffers
  PROVE  /\ setup = NoRequest /\ Device \in Devices
         /\ \/ Reading(Device) /\ Raised(cin)
            \/ Confirming(Device) /\ Raised(cout)
            \/ Writing(Device) /\ Raised(cout)
            \/ Acking(Device) /\ Raised(cin)
<1>1. setup = NoRequest /\ ~ Handled
  BY DEF IInv, WireInv, IrqBuffers
<1>2. cin.raised # <<>> \/ cout.raised # <<>>
  BY <1>1 DEF Handled
<1> QED
  BY <1>1, <1>2, Waits, OnePlace, Parts DEF IInv, DeviceInv

\* What every way of serving a buffer has in common: nothing stays raised, and the
\* wire is as it was.
LEMMA BufferTaken ==
  ASSUME IInv, IrqBuffers, NEW e \in Devices, BecomesDevice(e), e.cur["rate"] \in Rates, e.cur["volume"] \in Volumes,
         \/ (Reading(e) \/ Acking(e)) /\ Armed(e.cin)
         \/ Confirming(e) /\ Armed(e.cout)
         \/ Refusing(e) \/ Over(e)
  PROVE  /\ Device' = e /\ DeviceInv' /\ WireInv'
         /\ setup' = NoRequest /\ host' = host /\ reset_seen' = reset_seen /\ ~ Raised(cin') /\ ~ Raised(cout')
<1>1. Device' = e
  BY Becomes
<1>2. e.cin.raised = <<>> /\ e.cout.raised = <<>>
  BY Waits, OnePlace
<1>3. cin' = e.cin /\ cout' = e.cout /\ cur' = e.cur
  BY <1>1, PartsNext
<1>4. DeviceInv'
  BY <1>1, <1>3 DEF DeviceInv
<1>5. setup = NoRequest
  BY BufferFound
<1>6. /\ setup' = setup /\ host' = host /\ reset_seen' = reset_seen /\ aborts' = aborts
      /\ irq' = irq \ {"buffers"}
  BY DEF IrqBuffers
<1>7. WireInv'
  BY <1>2, <1>3, <1>5, <1>6 DEF WireInv, Handled, IInv
<1> QED
  BY <1>1, <1>2, <1>3, <1>4, <1>5, <1>6, <1>7, OnePlace

\* The four of them.
LEMMA ReadStep ==
  ASSUME IInv, IrqBuffers, Reading(Device), Raised(cin)
  PROVE  IInv' /\ Same(Device', Device) /\ (Reading(Device') \/ Confirming(Device'))
<1> DEFINE e == HandleBuffers(Device)
           left == cin.xfer.submit
<1>1. /\ e \in Devices /\ Same(e, Device)
      /\ left > 0 =>
           /\ Reading(e) /\ Armed(e.cin) /\ e.cin.xfer.submit = left - 1
           /\ e.cin.buf[0].pid = cin.pid
           /\ e.cin.buf[0].data = DescriptorPart(Packets - left + 1)
      /\ left = 0 => Confirming(e) /\ Armed(e.cout)
  BY ReadHandled, BufferFound, Parts
<1>2. left \in Nat
  BY InRange, Sizes DEF Endpoints, Transfers, IInv
<1>3. BecomesDevice(e)
  BY DEF IrqBuffers
<1> HIDE DEF e
<1>4. e.cur = cur /\ cur["rate"] \in Rates /\ cur["volume"] \in Volumes
  BY <1>1, Parts DEF Same, IInv, DeviceInv
<1>5. /\ Device' = e /\ DeviceInv' /\ WireInv'
      /\ setup' = NoRequest /\ host' = host /\ ~ Raised(cin') /\ ~ Raised(cout')
  BY <1>1, <1>2, <1>3, <1>4, BufferTaken
<1>6. cin' = e.cin /\ cout' = e.cout /\ cur' = cur
  BY <1>1, <1>5, PartsNext, Parts DEF Same
<1>7. host \in Hosts /\ AnswersThisRequest /\ (~ IsRead(host.req) \/ host.stage = "idle" => host.got = <<>>)
  BY DEF IInv, HostInv
<1>8. AnswersThisRequest'
  BY <1>5, <1>6, <1>7 DEF AnswersThisRequest
<1>9. ASSUME host.stage # "idle" PROVE ReadInv
  BY <1>9, BufferFound DEF IInv, HostInv
<1>10. HostInv'
  <2>1. CASE left > 0
    <3>1. /\ ~ Confirming(Device') /\ ~ Writing(Device') /\ ~ Acking(Device') /\ ~ Refusing(Device')
          /\ ~ Over(Device')
      BY <1>1, <1>5, <2>1, OneMode
    <3>2. ASSUME host.stage # "idle" PROVE ReadInv'
      <4> DEFINE n == Len(host.got)
      <4>1. /\ n \in Nat /\ n > 0 /\ Expected(host.req) - n = left
            /\ IsRead(host.req) /\ host.stage = "in" /\ host.pid = cin.pid
        BY <1>7, <1>9, <2>1, <3>2 DEF ReadInv, Hosts
      <4>2. host.req.op = "GET_DESCRIPTOR" /\ n = Packets - left /\ Packets \in Nat
        BY <2>1, <4>1, Sizes DEF Expected
      <4>3. e.cin.buf[0].data = DescriptorPart(n + 1)
        BY <1>1, <2>1, <4>2
      <4> HIDE DEF n, left
      <4> QED
        BY <1>1, <1>5, <1>6, <2>1, <4>1, <4>2, <4>3 DEF ReadInv, Answer, n
    <3> QED
      BY <1>5, <1>7, <1>8, <3>1, <3>2 DEF HostInv
  <2>2. CASE left = 0
    <3>1. /\ ~ Reading(Device') /\ ~ Writing(Device') /\ ~ Acking(Device') /\ ~ Refusing(Device')
          /\ ~ Over(Device') /\ Armed(cout')
      BY <1>1, <1>5, <1>6, <2>2, OneMode
    <3>2. ASSUME host.stage # "idle"
          PROVE  IsRead(host.req) /\ host.pid = 1 /\ host.stage = "status_out"
      BY <1>9, <2>2, <3>2 DEF ReadInv
    <3> QED
      BY <1>5, <1>7, <1>8, <3>1, <3>2 DEF HostInv
  <2> QED
    BY <1>2, <2>1, <2>2
<1> QED
  BY <1>1, <1>2, <1>5, <1>10 DEF IInv

LEMMA ConfirmStep ==
  ASSUME IInv, IrqBuffers, Confirming(Device), Raised(cout)
  PROVE  IInv' /\ Same(Device', Device) /\ Over(Device')
<1> DEFINE e == HandleBuffers(Device)
<1>1. e \in Devices /\ Same(e, Device) /\ Over(e)
  BY ConfirmHandled, BufferFound, Parts
<1>2. BecomesDevice(e)
  BY DEF IrqBuffers
<1> HIDE DEF e
<1>3. e.cur = cur /\ cur["rate"] \in Rates /\ cur["volume"] \in Volumes
  BY <1>1, Parts DEF Same, IInv, DeviceInv
<1>4. /\ Device' = e /\ DeviceInv' /\ WireInv' /\ setup' = NoRequest /\ host' = host
  BY <1>1, <1>2, <1>3, BufferTaken
<1>5. cur' = cur
  BY <1>3, <1>4, PartsNext
<1>6. /\ host \in Hosts /\ AnswersThisRequest /\ (~ IsRead(host.req) \/ host.stage = "idle" => host.got = <<>>)
      /\ host.stage # "idle" => host.stage = "done"
  BY BufferFound, OnePlace DEF IInv, HostInv
<1>7. AnswersThisRequest'
  BY <1>4, <1>5, <1>6 DEF AnswersThisRequest
<1>8. /\ ~ Reading(Device') /\ ~ Confirming(Device') /\ ~ Writing(Device') /\ ~ Acking(Device')
      /\ ~ Refusing(Device')
  BY <1>1, <1>4, OneMode
<1>9. HostInv'
  BY <1>4, <1>6, <1>7, <1>8 DEF HostInv
<1> QED
  BY <1>1, <1>4, <1>9 DEF IInv

LEMMA AckStep ==
  ASSUME IInv, IrqBuffers, Acking(Device), Raised(cin)
  PROVE  /\ IInv' /\ Over(Device') /\ cur' = cur /\ alt' = alt /\ config' = config
         /\ address' = IF after = "address" THEN pending_address ELSE address
<1> DEFINE e == HandleBuffers(Device)
<1>1. /\ e \in Devices /\ Over(e) /\ e.cur = cur /\ e.alt = alt /\ e.config = config
      /\ e.address = IF after = "address" THEN pending_address ELSE address
  BY AckHandled, BufferFound, Parts
<1>2. BecomesDevice(e)
  BY DEF IrqBuffers
<1> HIDE DEF e
<1>3. cur["rate"] \in Rates /\ cur["volume"] \in Volumes
  BY DEF IInv, DeviceInv
<1>4. /\ Device' = e /\ DeviceInv' /\ WireInv' /\ setup' = NoRequest /\ host' = host
  BY <1>1, <1>2, <1>3, BufferTaken
<1>5. /\ cur' = cur /\ alt' = alt /\ config' = config
      /\ address' = IF after = "address" THEN pending_address ELSE address
  BY <1>1, <1>4, PartsNext
<1>6. /\ host \in Hosts /\ AnswersThisRequest /\ (~ IsRead(host.req) \/ host.stage = "idle" => host.got = <<>>)
      /\ host.stage # "idle" => host.stage = "done"
  BY BufferFound, OnePlace DEF IInv, HostInv
<1>7. AnswersThisRequest'
  BY <1>4, <1>5, <1>6 DEF AnswersThisRequest
<1>8. /\ ~ Reading(Device') /\ ~ Confirming(Device') /\ ~ Writing(Device') /\ ~ Acking(Device')
      /\ ~ Refusing(Device')
  BY <1>1, <1>4, OneMode
<1>9. HostInv'
  BY <1>4, <1>6, <1>7, <1>8 DEF HostInv
<1> QED
  BY <1>1, <1>4, <1>5, <1>9 DEF IInv

LEMMA WriteStep ==
  ASSUME IInv, IrqBuffers, Writing(Device), Raised(cout)
  PROVE  LET r == host.req
             p == Packet(r.what, r.value, r.len)
         IN  /\ IInv' /\ r \in Requests /\ r.op = "SET_CUR"
             /\ host.stage \in {"status_in", "idle"}
             /\ Takes(Device, p) =>
                  /\ Acking(Device') /\ Armed(cin') /\ after' = "nothing"
                  /\ cur' = [cur EXCEPT ![r.what] = r.value]
                  /\ alt' = alt /\ config' = config /\ address' = address
             /\ ~ Takes(Device, p) => Refusing(Device') /\ Same(Device', Device)
<1> DEFINE e == HandleBuffers(Device)
           r == host.req
           p == Packet(r.what, r.value, r.len)
<1>1. /\ host \in Hosts /\ r.op = "SET_CUR" /\ r.what = pending_set.id
      /\ cout.buf[0].data = p /\ host.stage \in {"status_in", "idle"} /\ host.got = <<>>
      /\ host.stage # "idle" => host.pid = 1
  BY BufferFound DEF IInv, HostInv, IsRead
<1>2. r \in Requests
  BY <1>1 DEF Hosts, NoRequest, Request
<1>3. /\ p[2] = r.value /\ r.what \in Controls /\ r.value \in Values(r.what)
  BY <1>1, <1>2, RequestKinds DEF Packet
<1>4. pending_set.id = "volume" => p[2] \in Volumes
  BY <1>1, <1>3 DEF Values
<1>5. /\ e \in Devices
      /\ Takes(Device, p) =>
           /\ Acking(e) /\ Armed(e.cin) /\ e.after = "nothing"
           /\ e.cur = [cur EXCEPT ![r.what] = r.value]
           /\ e.alt = alt /\ e.config = config /\ e.address = address
      /\ ~ Takes(Device, p) => Refusing(e) /\ Same(e, Device)
  <2> HIDE DEF p
  <2> QED
    BY <1>1, <1>3, <1>4, WriteHandled, BufferFound, Parts
<1>6. BecomesDevice(e)
  BY DEF IrqBuffers
<1> HIDE DEF e
<1>7. e.cur["rate"] \in Rates /\ e.cur["volume"] \in Volumes
  <2>1. cur \in Currents /\ cur["rate"] \in Rates /\ cur["volume"] \in Volumes
    BY InRange DEF IInv, DeviceInv
  <2>2. CASE Takes(Device, p)
    <3>1. r.what = "rate" => r.value \in Rates
      BY <1>1, <1>3, <2>2, Parts DEF Takes
    <3>2. r.what = "volume" => r.value \in Volumes
      BY <1>1, <1>3, <1>4
    <3> QED
      BY <1>5, <2>1, <2>2, <3>1, <3>2 DEF Currents, Controls
  <2>3. CASE ~ Takes(Device, p)
    BY <1>5, <2>1, <2>3, Parts DEF Same
  <2> QED
    BY <2>2, <2>3
<1>8. /\ Device' = e /\ DeviceInv' /\ WireInv' /\ setup' = NoRequest /\ host' = host
  BY <1>5, <1>6, <1>7, BufferTaken
<1>9. AnswersThisRequest'
  BY <1>1, <1>8 DEF AnswersThisRequest
<1>10. HostInv'
  <2>1. CASE Takes(Device, p)
    <3>1. /\ ~ Reading(Device') /\ ~ Confirming(Device') /\ ~ Writing(Device') /\ ~ Refusing(Device')
          /\ ~ Over(Device') /\ Armed(cin') /\ after' = "nothing"
      BY <1>5, <1>8, <2>1, OneMode, PartsNext
    <3> QED
      BY <1>1, <1>8, <1>9, <3>1 DEF HostInv, IsRead
  <2>2. CASE ~ Takes(Device, p)
    <3>1. /\ ~ Reading(Device') /\ ~ Confirming(Device') /\ ~ Writing(Device') /\ ~ Acking(Device')
          /\ ~ Over(Device')
      BY <1>5, <1>8, <2>2, OneMode
    <3> QED
      BY <1>1, <1>8, <1>9, <3>1 DEF HostInv
  <2> QED
    BY <2>1, <2>2
<1> HIDE DEF p
<1> QED
  BY <1>1, <1>2, <1>5, <1>8, <1>10, PartsNext DEF IInv, p

LEMMA IrqBuffersKeeps == ASSUME IInv, IrqBuffers PROVE IInv'
BY BufferFound, ReadStep, ConfirmStep, WriteStep, AckStep

\* A reset of the bus finds nothing in progress to end.
LEMMA ResetStep ==
  ASSUME IInv, IrqReset
  PROVE  setup = NoRequest /\ cin' = cin /\ cout' = cout
<1>1. setup = NoRequest /\ cin.raised = <<>> /\ cout.raised = <<>>
  BY DEF IInv, WireInv, IrqReset, Handled
<1>2. cin' = cin /\ cout' = cout
  BY <1>1, InRange DEF IInv, IrqReset, Endpoints
<1> QED
  BY <1>1, <1>2

LEMMA IrqResetKeeps == ASSUME IInv, IrqReset PROVE IInv'
<1>1. setup = NoRequest /\ cin' = cin /\ cout' = cout
  BY ResetStep
<1>2. /\ setup' = NoRequest /\ irq' = {} /\ reset_seen' = "none" /\ host' = host /\ aborts' = aborts
      /\ after' = after /\ pending_set' = pending_set /\ cur' = cur /\ pending_address' = pending_address
      /\ config' = 0 /\ address' = 0 /\ alt' = alt /\ irq = {"reset"}
  BY DEF IrqReset
<1>3. Device' \in Devices
  BY <1>1, <1>2 DEF IInv, DeviceInv, Devices, Device
<1>4. /\ Reading(Device') <=> Reading(Device)
      /\ Confirming(Device') <=> Confirming(Device)
      /\ Writing(Device') <=> Writing(Device)
      /\ Acking(Device') <=> Acking(Device)
      /\ Refusing(Device') <=> Refusing(Device)
      /\ Over(Device') <=> Over(Device)
  BY <1>1, <1>2, Parts, PartsNext
     DEF Reading, Confirming, Writing, Acking, Refusing, Over
<1>5. DeviceInv'
  BY <1>2, <1>3, <1>4 DEF IInv, DeviceInv
<1>6. WireInv'
  BY <1>1, <1>2 DEF IInv, WireInv, Handled
<1>7. AnswersThisRequest' <=> AnswersThisRequest
  BY <1>2 DEF AnswersThisRequest
<1>8. ReadInv' <=> ReadInv
  BY <1>1, <1>2 DEF ReadInv, Answer
<1>9. HostInv'
  BY <1>1, <1>2, <1>4, <1>7, <1>8 DEF IInv, HostInv
<1> QED
  BY <1>5, <1>6, <1>9 DEF IInv

LEMMA SendSetupKeeps == ASSUME IInv, ~ MayOverrun, SendSetup PROVE IInv'
<1>1. PICK r \in Requests :
        /\ setup' = r
        /\ host' = [host EXCEPT !.req = r, !.got = <<>>, !.pid = 1, !.before = Now,
                                !.stage = FirstStage(r)]
  BY DEF SendSetup, Now, FirstStage
<1>2. /\ irq = {} /\ Pending = {} /\ reset_seen = "none" /\ aborts' \in 0 .. MaxAborts
      /\ UNCHANGED <<pipeVars, stateVars, reset_seen, irq>>
  BY ControlAssumption DEF SendSetup, Quiet, IInv, WireInv
<1>3. Handled
  BY <1>2 DEF Pending, Handled
<1>4. r # NoRequest /\ FirstStage(r) \in {"in", "out", "status_in"}
  BY RequestKinds DEF FirstStage, IsRead
<1>5. Device' = Device
  BY <1>2 DEF Device, pipeVars, stateVars
<1>6. DeviceInv'
  BY <1>2, <1>5 DEF IInv, DeviceInv, stateVars
<1>7. host \in Hosts
  BY DEF IInv, HostInv
<1>8. host' \in Hosts /\ host'.req = r /\ host'.got = <<>> /\ host'.pid = 1 /\ host'.stage = FirstStage(r)
  <2>1. Now \in [cur : Currents, alt : Alts \cup {0}, config : {0, 1}]
    BY InRange DEF IInv, Now
  <2>2. <<>> \in Seq(Contents)
    OBVIOUS
  <2> HIDE DEF Hosts
  <2> QED
    BY <1>1, <1>4, <1>7, <2>1, <2>2 DEF Hosts
<1>9. WireInv'
  BY <1>1, <1>2, <1>3, <1>4, <1>8 DEF IInv, WireInv, Handled, pipeVars
<1>10. HostInv'
  BY <1>1, <1>4, <1>8 DEF HostInv, AnswersThisRequest
<1> QED
  BY <1>6, <1>9, <1>10 DEF IInv

\* Between two interrupts: no packet has gone through while one is served.
LEMMA Between ==
  ASSUME IInv, setup = NoRequest, reset_seen = "none", Handled
  PROVE  irq = {}
BY DEF IInv, WireInv

\* A packet reaches the box in the mode that waits for it.
LEMMA Reached ==
  ASSUME IInv
  PROVE  /\ host.stage \in {"in", "status_in"} /\ Reaches(cin) =>
              Armed(cin) /\ Handled /\ irq = {} /\ cin.hw = 0
              /\ (host.stage = "in" => Reading(Device)) /\ (host.stage = "status_in" => Acking(Device))
         /\ host.stage \in {"out", "status_out"} /\ Reaches(cout) =>
              Armed(cout) /\ Handled /\ irq = {}
              /\ (host.stage = "out" => Writing(Device)) /\ (host.stage = "status_out" => Confirming(Device))
<1>1. ASSUME host.stage \in {"in", "status_in"}, Reaches(cin)
      PROVE  /\ Armed(cin) /\ Handled /\ irq = {} /\ cin.hw = 0
             /\ (host.stage = "in" => Reading(Device)) /\ (host.stage = "status_in" => Acking(Device))
  <2>1. Ready(cin) /\ setup = NoRequest /\ reset_seen = "none"
    BY <1>1 DEF Reaches
  <2>2. ~ Idle(cin) /\ ~ Raised(cin) /\ cin.hw = 0
    BY <2>1, ReadyIsArmed, InRange DEF IInv
  <2>3. Reading(Device) \/ Acking(Device)
    BY <2>2, Waits, Parts DEF IInv, DeviceInv
  <2>4. Armed(cin) /\ Handled
    BY <2>2, <2>3, Waits, OnePlace, Parts DEF Handled
  <2>5. host.stage = "in" => Reading(Device)
    BY <1>1, <2>1, <2>3, <2>4 DEF IInv, HostInv
  <2>6. host.stage = "status_in" => Acking(Device)
    BY <1>1, <2>1, <2>3, <2>4 DEF IInv, HostInv, ReadInv
  <2> QED
    BY <2>1, <2>2, <2>4, <2>5, <2>6, Between
<1>2. ASSUME host.stage \in {"out", "status_out"}, Reaches(cout)
      PROVE  /\ Armed(cout) /\ Handled /\ irq = {}
             /\ (host.stage = "out" => Writing(Device)) /\ (host.stage = "status_out" => Confirming(Device))
  <2>1. Ready(cout) /\ setup = NoRequest /\ reset_seen = "none"
    BY <1>2 DEF Reaches
  <2>2. ~ Idle(cout) /\ ~ Raised(cout)
    BY <2>1, ReadyIsArmed, InRange DEF IInv
  <2>3. Writing(Device) \/ Confirming(Device)
    BY <2>2, Waits, Parts DEF IInv, DeviceInv
  <2>4. Armed(cout) /\ Handled
    BY <2>2, <2>3, Waits, OnePlace, Parts DEF Handled
  <2>5. /\ host.stage = "out" => Writing(Device)
        /\ host.stage = "status_out" => Confirming(Device)
    BY <1>2, <2>1, <2>3, <2>4 DEF IInv, HostInv
  <2> QED
    BY <2>1, <2>4, <2>5, Between
<1> QED
  BY <1>1, <1>2

LEMMA ReadPacketKeeps == ASSUME IInv, ReadPacket PROVE IInv' /\ Reading(Device')
<1> DEFINE n == Len(host.got)
           data == cin.buf[0].data
           got == Append(host.got, data)
<1>1. /\ Reaches(cin) /\ host.stage = "in" /\ setup = NoRequest /\ reset_seen = "none"
      /\ cin' = Through(cin, NoData)
      /\ UNCHANGED <<cout, after, pending_set, stateVars, setup, reset_seen, irq, aborts>>
  BY DEF ReadPacket, Reaches
<1>2. Armed(cin) /\ Reading(Device) /\ irq = {} /\ Handled /\ cin.hw = 0
  BY <1>1, Reached
<1>3. ReadInv /\ host \in Hosts /\ AnswersThisRequest
  BY <1>1, <1>2 DEF IInv, HostInv
<1>4. /\ IsRead(host.req) /\ n \in Nat /\ Expected(host.req) - n > 0
      /\ cin.xfer.submit = Expected(host.req) - n - 1
      /\ cin.buf[0].pid = host.pid /\ data = Answer(host.req, n + 1)
      /\ cin.pid = 1 - host.pid /\ host.pid \in {0, 1} /\ Expected(host.req) \in Nat
  BY <1>2, <1>3, Parts, Sizes DEF ReadInv, Hosts, Expected, Reading, Single, Runs
<1>5. host' = IF Len(got) < Expected(host.req)
              THEN [host EXCEPT !.got = got, !.pid = 1 - host.pid]
              ELSE [host EXCEPT !.got = got, !.pid = 1, !.stage = "status_out"]
  BY <1>2 DEF ReadPacket
<1>6. data \in Contents
  BY InRange DEF IInv, Endpoints, Buffers
<1>7. /\ got \in Seq(Contents) /\ Len(got) = n + 1
      /\ \A k \in 1 .. n + 1 : got[k] = IF k = n + 1 THEN data ELSE host.got[k]
  BY <1>3, <1>6 DEF Hosts
<1> HIDE DEF got, n, data
<1>8. /\ host' \in Hosts /\ host'.req = host.req /\ host'.got = got
      /\ n + 1 < Expected(host.req) => host'.stage = "in" /\ host'.pid = 1 - host.pid
      /\ n + 1 = Expected(host.req) => host'.stage = "status_out" /\ host'.pid = 1
      /\ host'.stage \in {"in", "status_out"}
  <2>1. CASE n + 1 < Expected(host.req)
    <3>1. host' = [host EXCEPT !.got = got, !.pid = 1 - host.pid] /\ 1 - host.pid \in {0, 1}
      BY <1>4, <1>5, <1>7, <2>1
    <3>2. host' \in Hosts /\ host'.req = host.req /\ host'.got = got /\ host'.stage = "in"
          /\ host'.pid = 1 - host.pid
      BY <1>1, <1>3, <1>7, <3>1 DEF Hosts
    <3> QED
      BY <1>4, <2>1, <3>2
  <2>2. CASE ~ (n + 1 < Expected(host.req))
    <3>1. host' = [host EXCEPT !.got = got, !.pid = 1, !.stage = "status_out"]
      BY <1>5, <1>7, <2>2
    <3>2. host' \in Hosts /\ host'.req = host.req /\ host'.got = got /\ host'.stage = "status_out"
          /\ host'.pid = 1
      BY <1>1, <1>3, <1>7, <3>1 DEF Hosts
    <3> QED
      BY <1>4, <2>2, <3>2
  <2> QED
    BY <2>1, <2>2
<1> DEFINE e == [Device EXCEPT !.cin = Through(@, NoData)]
<1>9. /\ e \in Devices /\ Reading(e) /\ Raised(e.cin) /\ e.cin.xfer = cin.xfer /\ e.cin.pid = cin.pid
      /\ Device' = e
  <2>1. /\ e \in Devices /\ Raised(Through(cin, NoData)) /\ Through(cin, NoData).xfer = cin.xfer
        /\ Through(cin, NoData).pid = cin.pid /\ Reading(e)
    BY <1>2, ThroughIn, InRange, Parts DEF IInv
  <2>2. Device' = e
    BY <1>1 DEF Device, stateVars
  <2> QED
    BY <1>1, <2>1, <2>2, PartsNext
<1> HIDE DEF e
<1>10. /\ Reading(Device') /\ Raised(cin') /\ ~ Armed(cin') /\ cin'.xfer = cin.xfer /\ cin'.pid = cin.pid
       /\ ~ Confirming(Device') /\ ~ Writing(Device') /\ ~ Acking(Device') /\ ~ Refusing(Device')
       /\ ~ Over(Device')
  BY <1>9, PartsNext, OneMode, OnePlace
<1>11. DeviceInv'
  BY <1>1, <1>9 DEF IInv, DeviceInv, stateVars
<1>12. WireInv'
  BY <1>1, <1>2, <1>8 DEF IInv, WireInv
<1>13. AnswersThisRequest'
  <2>1. \A k \in 1 .. n + 1 : got[k] = Answer(host.req, k)
    <3>1. \A k \in 1 .. n : host.got[k] = Answer(host.req, k)
      BY <1>3 DEF AnswersThisRequest, Answer, Hosts, n
    <3>2. \A k \in 1 .. n + 1 : k = n + 1 \/ k \in 1 .. n
      BY <1>4
    <3> QED
      BY <1>4, <1>7, <3>1, <3>2
  <2>2. DOMAIN got = 1 .. n + 1 /\ cur' = cur
    BY <1>1, <1>7 DEF stateVars
  <2> QED
    BY <1>8, <2>1, <2>2 DEF AnswersThisRequest, Answer
<1>14. ReadInv'
  BY <1>1, <1>4, <1>7, <1>8, <1>10 DEF ReadInv, Answer, stateVars
<1>15. HostInv'
  BY <1>1, <1>4, <1>8, <1>10, <1>13, <1>14 DEF HostInv
<1> QED
  BY <1>10, <1>11, <1>12, <1>15 DEF IInv

LEMMA WritePacketKeeps == ASSUME IInv, WritePacket PROVE IInv' /\ Writing(Device')
<1> DEFINE r == host.req
           data == Packet(r.what, r.value, r.len)
           e == [Device EXCEPT !.cout = Through(@, data)]
<1>1. /\ Reaches(cout) /\ host.stage = "out" /\ setup = NoRequest /\ reset_seen = "none"
      /\ cout' = Through(cout, data)
      /\ host' = [host EXCEPT !.stage = "status_in", !.pid = 1]
      /\ UNCHANGED <<cin, after, pending_set, stateVars, setup, reset_seen, irq, aborts>>
  BY DEF WritePacket, Reaches
<1>2. Armed(cout) /\ Writing(Device) /\ irq = {} /\ Handled
  BY <1>1, Reached
<1>3. /\ host \in Hosts /\ AnswersThisRequest /\ r.op = "SET_CUR" /\ r.what = pending_set.id
      /\ host.got = <<>>
  BY <1>1, <1>2 DEF IInv, HostInv, IsRead
<1>4. r \in Requests
  BY <1>3 DEF Hosts, NoRequest, Request
<1>5. data \in Contents
  <2>1. r.what \in Controls /\ r.value \in AllValues /\ r.len \in {1, Length(r.what)}
    BY <1>3, <1>4, RequestKinds, PacketContents
  <2>2. r.len \in 1 .. 3
    BY <2>1, PacketContents
  <2> QED
    BY <2>1, <2>2, PacketContents
<1> HIDE DEF data
<1>6. /\ e \in Devices /\ Raised(Through(cout, data)) /\ Through(cout, data).buf[0].data = data
      /\ Writing(e)
  BY <1>2, <1>5, ThroughOut, InRange, Parts DEF IInv
<1>7. Device' = e
  BY <1>1 DEF Device, stateVars
<1> HIDE DEF e
<1>8. /\ Raised(cout') /\ ~ Armed(cout') /\ cout'.buf[0].data = data
      /\ ~ Reading(Device') /\ ~ Confirming(Device') /\ ~ Acking(Device') /\ ~ Refusing(Device')
      /\ ~ Over(Device')
  BY <1>1, <1>6, <1>7, OneMode, OnePlace
<1>9. /\ host' \in Hosts /\ host'.req = r /\ host'.got = <<>> /\ host'.stage = "status_in"
      /\ host'.pid = 1
  BY <1>1, <1>3 DEF Hosts
<1>10. DeviceInv'
  BY <1>1, <1>6, <1>7 DEF IInv, DeviceInv, stateVars
<1>11. WireInv'
  BY <1>1, <1>2, <1>9 DEF IInv, WireInv
<1>12. HostInv'
  BY <1>1, <1>3, <1>8, <1>9 DEF HostInv, AnswersThisRequest, data
<1> QED
  BY <1>6, <1>7, <1>10, <1>11, <1>12 DEF IInv

LEMMA StatusInKeeps == ASSUME IInv, StatusIn PROVE IInv' /\ Acking(Device') /\ Raised(cin')
<1> DEFINE e == [Device EXCEPT !.cin = Through(@, NoData)]
<1>1. /\ Reaches(cin) /\ host.stage = "status_in" /\ setup = NoRequest /\ reset_seen = "none"
      /\ cin' = Through(cin, NoData)
      /\ host' = [host EXCEPT !.stage = "done",
                    !.address = IF host.req.op = "SET_ADDRESS" THEN host.req.value ELSE host.address]
      /\ UNCHANGED <<cout, after, pending_set, stateVars, setup, reset_seen, irq, aborts>>
  BY DEF StatusIn, Reaches
<1>2. Armed(cin) /\ Acking(Device) /\ irq = {} /\ Handled
  BY <1>1, Reached
<1>3. /\ host \in Hosts /\ AnswersThisRequest /\ ~ IsRead(host.req) /\ host.got = <<>> /\ host.pid = 1
      /\ after = "address" <=> host.req.op = "SET_ADDRESS"
      /\ after = "address" => pending_address = host.req.value
  BY <1>1, <1>2 DEF IInv, HostInv
<1>4. e \in Devices /\ Raised(Through(cin, NoData)) /\ Acking(e)
  BY <1>2, ThroughIn, InRange, Parts DEF IInv
<1>5. Device' = e
  BY <1>1 DEF Device, stateVars
<1> HIDE DEF e
<1>6. /\ Raised(cin') /\ ~ Armed(cin')
      /\ ~ Reading(Device') /\ ~ Confirming(Device') /\ ~ Writing(Device') /\ ~ Refusing(Device')
      /\ ~ Over(Device')
  BY <1>1, <1>4, <1>5, OneMode, OnePlace
<1>7. /\ host' \in Hosts /\ host'.req = host.req /\ host'.got = <<>> /\ host'.stage = "done"
      /\ host'.pid = 1
  <2>1. host.req.op = "SET_ADDRESS" => host.req.value \in Addresses \cup {0}
    BY <1>3, InRange DEF IInv
  <2> QED
    BY <1>1, <1>3, <2>1 DEF Hosts
<1>8. DeviceInv'
  BY <1>1, <1>4, <1>5 DEF IInv, DeviceInv, stateVars
<1>9. WireInv'
  BY <1>1, <1>2, <1>7 DEF IInv, WireInv
<1>10. HostInv'
  BY <1>1, <1>3, <1>6, <1>7 DEF HostInv, AnswersThisRequest, stateVars
<1> QED
  BY <1>4, <1>5, <1>6, <1>8, <1>9, <1>10 DEF IInv

LEMMA StatusOutKeeps == ASSUME IInv, StatusOut PROVE IInv' /\ Confirming(Device')
<1> DEFINE e == [Device EXCEPT !.cout = Through(@, Empty)]
<1>1. /\ Reaches(cout) /\ host.stage = "status_out" /\ setup = NoRequest /\ reset_seen = "none"
      /\ cout' = Through(cout, Empty)
      /\ host' = [host EXCEPT !.stage = "done"]
      /\ UNCHANGED <<cin, after, pending_set, stateVars, setup, reset_seen, irq, aborts>>
  BY DEF StatusOut, Reaches
<1>2. Armed(cout) /\ Confirming(Device) /\ irq = {} /\ Handled
  BY <1>1, Reached
<1>3. host \in Hosts /\ AnswersThisRequest /\ IsRead(host.req) /\ host.pid = 1
  BY <1>1, <1>2 DEF IInv, HostInv
<1>4. e \in Devices /\ Raised(Through(cout, Empty)) /\ Confirming(e)
  BY <1>2, ThroughOut, InRange, Parts, PacketContents DEF IInv
<1>5. Device' = e
  BY <1>1 DEF Device, stateVars
<1> HIDE DEF e
<1>6. /\ Raised(cout') /\ ~ Armed(cout')
      /\ ~ Reading(Device') /\ ~ Acking(Device') /\ ~ Writing(Device') /\ ~ Refusing(Device')
      /\ ~ Over(Device')
  BY <1>1, <1>4, <1>5, OneMode, OnePlace
<1>7. /\ host' \in Hosts /\ host'.req = host.req /\ host'.got = host.got /\ host'.stage = "done"
      /\ host'.pid = 1
  BY <1>1, <1>3 DEF Hosts
<1>8. DeviceInv'
  BY <1>1, <1>4, <1>5 DEF IInv, DeviceInv, stateVars
<1>9. WireInv'
  BY <1>1, <1>2, <1>7 DEF IInv, WireInv
<1>10. AnswersThisRequest'
  BY <1>1, <1>3, <1>7 DEF AnswersThisRequest, stateVars
<1>11. HostInv'
  BY <1>1, <1>3, <1>6, <1>7, <1>10 DEF HostInv
<1> QED
  BY <1>4, <1>5, <1>8, <1>9, <1>11 DEF IInv

LEMMA SeeStallKeeps == ASSUME IInv, SeeStall PROVE IInv' /\ Refusing(Device) /\ Device' = Device
<1>1. /\ setup = NoRequest /\ (cin.stall \/ cout.stall)
      /\ host.stage \in {"in", "status_in", "out", "status_out"}
      /\ host' = [host EXCEPT !.stage = "stalled"]
      /\ UNCHANGED <<pipeVars, stateVars, setup, reset_seen, irq, aborts>>
  BY DEF SeeStall
<1>2. Device' = Device
  BY <1>1 DEF Device, pipeVars, stateVars
<1>3. Refusing(Device)
  BY <1>1, Waits, Parts DEF IInv, DeviceInv
<1>4. /\ ~ Reading(Device) /\ ~ Confirming(Device) /\ ~ Writing(Device) /\ ~ Acking(Device)
      /\ ~ Over(Device)
  BY <1>3, OneMode
<1>5. host \in Hosts /\ AnswersThisRequest /\ (~ IsRead(host.req) => host.got = <<>>)
  BY DEF IInv, HostInv
<1>6. /\ host' \in Hosts /\ host'.req = host.req /\ host'.got = host.got /\ host'.stage = "stalled"
  BY <1>1, <1>5 DEF Hosts
<1>7. DeviceInv'
  BY <1>1, <1>2 DEF IInv, DeviceInv, stateVars
<1>8. WireInv'
  BY <1>1, <1>6 DEF IInv, WireInv, Handled, pipeVars
<1>9. AnswersThisRequest'
  BY <1>1, <1>5, <1>6 DEF AnswersThisRequest, stateVars
<1>10. HostInv'
  BY <1>1, <1>2, <1>4, <1>5, <1>6, <1>9 DEF HostInv
<1> QED
  BY <1>2, <1>3, <1>7, <1>8, <1>10 DEF IInv

LEMMA ResetOrErrorKeeps ==
  ASSUME IInv, NEW what \in {"reset", "error"}, ResetOrError(what)
  PROVE  IInv'
<1>1. /\ reset_seen = "none" /\ reset_seen' = what
      /\ UNCHANGED <<pipeVars, stateVars, setup, irq, aborts>>
  BY DEF ResetOrError
<1>2. Device' = Device /\ (Handled' <=> Handled)
  BY <1>1 DEF Device, Handled, pipeVars, stateVars
<1>3. CASE what = "error"
  <2>1. host' = host
    BY <1>3 DEF ResetOrError
  <2>2. DeviceInv' /\ HostInv'
    BY <1>1, <2>1, Untouched DEF IInv
  <2>3. WireInv'
    BY <1>1, <1>2, <2>1 DEF IInv, WireInv
  <2> QED
    BY <2>2, <2>3 DEF IInv
<1>4. CASE what = "reset"
  <2>1. host' = [host EXCEPT !.stage = "idle", !.address = 0, !.got = <<>>]
    BY <1>4 DEF ResetOrError
  <2>2. host \in Hosts
    BY DEF IInv, HostInv
  <2>3. host' \in Hosts /\ host'.req = host.req /\ host'.got = <<>> /\ host'.stage = "idle"
    <3>1. <<>> \in Seq(Contents) /\ 0 \in Addresses \cup {0}
      OBVIOUS
    <3> QED
      BY <2>1, <2>2, <3>1 DEF Hosts
  <2>4. DeviceInv'
    BY <1>1, <1>2 DEF IInv, DeviceInv, stateVars
  <2>5. WireInv'
    BY <1>1, <1>2, <1>4, <2>3 DEF IInv, WireInv
  <2>6. HostInv'
    BY <1>1, <1>2, <2>3 DEF IInv, HostInv, AnswersThisRequest, pipeVars
  <2> QED
    BY <2>4, <2>5, <2>6 DEF IInv
<1> QED
  BY <1>3, <1>4

LEMMA InitHolds == Init => IInv /\ Told
<1> SUFFICES ASSUME Init PROVE IInv /\ Told
  OBVIOUS
<1>1. NewEndpoint(TRUE, 1) \in Endpoints(TRUE) /\ NewEndpoint(FALSE, 1) \in Endpoints(FALSE)
  <2> DEFINE c == [b \in 0 .. 1 - 1 |-> [at |-> "cpu", pid |-> 0, data |-> NoData]]
  <2>1. c \in [{0} -> Buffers]
    BY OneBuffer, PacketContents DEF Buffers
  <2>2. NoTransfer \in Transfers
    BY Sizes DEF NoTransfer, Transfers
  <2>3. \A in \in BOOLEAN : NewEndpoint(in, 1) =
          [in |-> in, bufs |-> 1, owned |-> 0, give |-> 0, take |-> 0, first |-> FALSE,
           pid |-> 0, halt |-> "none", stall |-> FALSE, xfer |-> NoTransfer,
           buf |-> c, raised |-> <<>>, hw |-> 0]
    BY DEF NewEndpoint
  <2> HIDE DEF c
  <2> QED
    BY <2>1, <2>2, <2>3, OneBuffer DEF Endpoints
<1>2. \A in \in BOOLEAN :
        LET ep == NewEndpoint(in, 1)
        IN  Idle(ep) /\ ~ ep.stall /\ ep.xfer = NoTransfer
  BY OneBuffer DEF NewEndpoint, Idle
<1>3. /\ cin = NewEndpoint(TRUE, 1) /\ cout = NewEndpoint(FALSE, 1) /\ after = "nothing"
      /\ pending_set = [id |-> "none", len |-> 0] /\ alt = 0 /\ address = 0 /\ pending_address = 0
      /\ config = 0 /\ setup = NoRequest /\ reset_seen = "none" /\ irq = {} /\ aborts = 0
      /\ host = [req |-> NoRequest, stage |-> "idle", got |-> <<>>, pid |-> 1, address |-> 0,
                 before |-> [cur |-> cur, alt |-> alt, config |-> config]]
  BY DEF Init
<1>4. cur \in Currents /\ cur["rate"] \in Rates /\ cur["volume"] \in Volumes
  <2>1. PICK r \in Rates, v \in Volumes : cur = [c \in Controls |-> IF c = "rate" THEN r ELSE v]
    BY DEF Init
  <2> QED
    BY <2>1 DEF Currents, Controls
<1>5. Device \in Devices
  BY <1>1, <1>3, <1>4 DEF Device, Devices
<1>6. Over(Device)
  <2>1. /\ Idle(cin) /\ ~ cin.stall /\ cin.xfer = NoTransfer
        /\ Idle(cout) /\ ~ cout.stall /\ cout.xfer = NoTransfer
    BY <1>2, <1>3
  <2>2. NoTransfer.kind = "none"
    BY DEF NoTransfer
  <2> QED
    BY <2>1, <2>2, Parts DEF Over
<1>7. DeviceInv
  BY <1>4, <1>5, <1>6 DEF DeviceInv
<1>8. cin.raised = <<>> /\ cout.raised = <<>>
  BY <1>2, <1>3 DEF Idle
<1>9. WireInv
  <2>1. aborts \in 0 .. MaxAborts
    BY <1>3, ControlAssumption
  <2> QED
    BY <1>3, <1>8, <2>1 DEF WireInv, Handled
<1>10. host \in Hosts
  BY <1>3, <1>4 DEF Hosts
<1>11. HostInv
  <2>1. ~ Writing(Device)
    BY <1>6, OneMode
  <2>2. AnswersThisRequest
    BY <1>3 DEF AnswersThisRequest
  <2>3. host.stage = "idle" /\ host.got = <<>>
    BY <1>3
  <2> QED
    BY <1>3, <1>10, <2>1, <2>2, <2>3 DEF HostInv
<1>12. Told
  <2>1. ~ Acking(Device)
    BY <1>6, OneMode
  <2> QED
    BY <1>3, <2>1 DEF Told, OutcomeInv, AddressInv
<1> QED
  BY <1>7, <1>9, <1>11, <1>12 DEF IInv

LEMMA StepKeeps == ASSUME IInv, ~ MayOverrun, [Next]_vars PROVE IInv'
<1>1. CASE UNCHANGED vars
  <2>1. DeviceInv' /\ HostInv'
    BY <1>1, Untouched DEF IInv, vars
  <2>2. WireInv'
    BY <1>1 DEF IInv, WireInv, Handled, vars, pipeVars
  <2> QED
    BY <2>1, <2>2 DEF IInv
<1>2. CASE Irq
  BY <1>2, IrqEnterKeeps, IrqSetupKeeps, IrqBuffersKeeps, IrqResetKeeps DEF Irq
<1>3. CASE Exchange
  BY <1>3, ReadPacketKeeps, WritePacketKeeps, StatusInKeeps, StatusOutKeeps,
  SeeStallKeeps
     DEF Exchange
<1>4. CASE SendSetup
  BY <1>4, SendSetupKeeps
<1>5. CASE \E what \in {"reset", "error"} : ResetOrError(what)
  BY <1>5, ResetOrErrorKeeps
<1> QED
  BY <1>1, <1>2, <1>3, <1>4, <1>5 DEF Next

-----------------------------------------------------------------------------
(***************************************************************************)
(* ... and what the host is told.                                          *)
(***************************************************************************)

\* What a request did is known as long as its mode is.
LEMMA OutcomeStays ==
  ASSUME IInv, OutcomeInv, UNCHANGED <<cur, alt, config, setup>>, setup = NoRequest,
         host'.req = host.req, host'.before = host.before,
         host'.stage # "idle" => host.stage # "idle",
         reset_seen' # "none" => host'.stage = "idle",
         Writing(Device') <=> Writing(Device), Refusing(Device') <=> Refusing(Device)
  PROVE  OutcomeInv'
<1>1. Now' = Now
  BY DEF Now
<1> QED
  BY <1>1 DEF OutcomeInv

LEMMA IrqEnterTold == ASSUME IInv, Told, IrqEnter PROVE Told'
<1>1. Device' = Device /\ Now' = Now
  BY DEF IrqEnter, Device, Now, pipeVars, stateVars
<1>2. UNCHANGED <<pipeVars, stateVars, setup, reset_seen, host>>
  BY DEF IrqEnter
<1> QED
  BY <1>1, <1>2 DEF Told, OutcomeInv, AddressInv, pipeVars, stateVars

LEMMA IrqSetupTold == ASSUME IInv, Told, IrqSetup PROVE Told'
<1> DEFINE r == host.req
           b == host.before
           refused == r.op = "UNKNOWN"
                      \/ (r.op \in {"GET_CUR", "SET_CUR", "SET_INTERFACE"} /\ config = 0)
<1>1. setup = r /\ r \in Requests /\ setup # NoRequest /\ ServedAs(Device, Device', r)
  BY SetupStep, RequestKinds
<1>2. setup' = NoRequest /\ host' = host /\ reset_seen' = reset_seen
  BY DEF IrqSetup
<1>3. /\ cur' = cur /\ address' = address
      /\ refused => Refusing(Device') /\ Same(Device', Device)
      /\ ~ refused /\ IsRead(r) => Same(Device', Device) /\ Reading(Device')
      /\ ~ refused /\ r.op = "SET_CUR" => Same(Device', Device) /\ Writing(Device')
      /\ ~ refused /\ ~ IsRead(r) /\ r.op # "SET_CUR" =>
           /\ Acking(Device') /\ Armed(cin')
           /\ alt' = IF r.op = "SET_INTERFACE" THEN r.value ELSE alt
           /\ config' = IF r.op = "SET_CONFIGURATION" THEN r.value ELSE config
  BY <1>1, Parts, PartsNext DEF ServedAs
<1>4. Same(Device', Device) => Now' = Now /\ config' = config
  BY Parts, PartsNext DEF Same, Now
<1>5. host \in Hosts
  BY DEF IInv, HostInv
<1>6. b \in [cur : Currents, alt : Alts \cup {0}, config : {0, 1}]
  BY <1>5 DEF Hosts
<1>7. OutcomeInv'
  <2>1. CASE host.stage = "idle"
    BY <1>2, <2>1 DEF OutcomeInv
  <2>2. CASE host.stage # "idle"
    <3>1. Now = b /\ b.config = config /\ reset_seen = "none"
      BY <1>1, <2>2 DEF Told, OutcomeInv, Now
    <3>2. CASE refused
      <4>1. Refuses(r, b.config # 0) /\ Now' = b /\ ~ Writing(Device')
        BY <1>3, <1>4, <3>1, <3>2, OneMode DEF Refuses
      <4> QED
        BY <1>2, <1>3, <3>1, <3>2, <4>1 DEF OutcomeInv
    <3>3. CASE ~ refused /\ IsRead(r)
      <4>1. ~ Refuses(r, b.config # 0) /\ Now' = Effect(r, b)
        BY <1>3, <1>4, <3>1, <3>3 DEF Refuses, Effect, IsRead
      <4> QED
        BY <1>2, <1>3, <3>1, <3>3, <4>1, OneMode DEF OutcomeInv
    <3>4. CASE ~ refused /\ r.op = "SET_CUR"
      <4>1. Now' = b /\ config' # 0 /\ ~ Refusing(Device')
        BY <1>3, <1>4, <3>1, <3>4, OneMode
      <4> QED
        BY <1>2, <1>3, <3>1, <3>4, <4>1 DEF OutcomeInv
    <3>5. CASE ~ refused /\ ~ IsRead(r) /\ r.op # "SET_CUR"
      <4>1. /\ alt' = IF r.op = "SET_INTERFACE" THEN r.value ELSE alt
            /\ config' = IF r.op = "SET_CONFIGURATION" THEN r.value ELSE config
            /\ ~ Writing(Device') /\ ~ Refusing(Device')
        BY <1>3, <3>5, OneMode
      <4>2. b.cur = cur /\ b.alt = alt
        BY <3>1 DEF Now
      <4>3. Now' = [cur |-> cur, alt |-> alt', config |-> config']
        BY <1>3 DEF Now
      <4>4. Effect(r, b) = [cur |-> cur, alt |-> alt', config |-> config']
        <5>1. CASE r.op = "SET_INTERFACE"
          BY <1>6, <3>1, <4>1, <4>2, <5>1 DEF Effect
        <5>2. CASE r.op = "SET_CONFIGURATION"
          BY <1>6, <3>1, <4>1, <4>2, <5>2 DEF Effect
        <5>3. CASE r.op \notin {"SET_INTERFACE", "SET_CONFIGURATION"}
          BY <1>6, <3>1, <3>5, <4>1, <4>2, <5>3 DEF Effect
        <5> QED
          BY <5>1, <5>2, <5>3
      <4>5. ~ Refuses(r, b.config # 0)
        BY <3>1, <3>5 DEF Refuses, IsRead
      <4> QED
        BY <1>2, <3>1, <4>1, <4>3, <4>4, <4>5 DEF OutcomeInv
    <3> QED
      BY <3>2, <3>3, <3>4, <3>5
  <2> QED
    BY <2>1, <2>2
<1>8. AddressInv'
  <2>1. Acking(Device') => ~ Raised(cin')
    BY <1>3, OneMode, OnePlace
  <2> QED
    BY <1>1, <1>2, <1>3, <2>1 DEF Told, AddressInv
<1> QED
  BY <1>7, <1>8 DEF Told

LEMMA IrqBuffersTold == ASSUME IInv, Told, IrqBuffers PROVE Told'
<1>1. /\ setup = NoRequest /\ Device \in Devices /\ setup' = setup /\ host' = host
      /\ reset_seen' = reset_seen
  BY BufferFound DEF IrqBuffers
<1>2. Same(Device', Device) =>
        /\ cur' = cur /\ alt' = alt /\ config' = config /\ address' = address
        /\ pending_address' = pending_address
  BY Parts, PartsNext DEF Same
<1>3. reset_seen # "none" => host.stage = "idle"
  BY DEF Told, OutcomeInv
<1>4. CASE Reading(Device) /\ Raised(cin)
  <2>1. Same(Device', Device) /\ (Reading(Device') \/ Confirming(Device'))
    BY <1>4, ReadStep
  <2>2. ~ Writing(Device) /\ ~ Refusing(Device) /\ ~ Writing(Device') /\ ~ Refusing(Device')
        /\ ~ Acking(Device) /\ ~ Acking(Device')
    BY <1>4, <2>1, OneMode
  <2>3. OutcomeInv'
    BY <1>1, <1>2, <1>3, <2>1, <2>2, OutcomeStays DEF Told
  <2>4. AddressInv'
    BY <1>1, <1>2, <2>1, <2>2 DEF Told, AddressInv
  <2> QED
    BY <2>3, <2>4 DEF Told
<1>5. CASE Confirming(Device) /\ Raised(cout)
  <2>1. Same(Device', Device) /\ Over(Device')
    BY <1>5, ConfirmStep
  <2>2. ~ Writing(Device) /\ ~ Refusing(Device) /\ ~ Writing(Device') /\ ~ Refusing(Device')
        /\ ~ Acking(Device) /\ ~ Acking(Device')
    BY <1>5, <2>1, OneMode
  <2>3. OutcomeInv'
    BY <1>1, <1>2, <1>3, <2>1, <2>2, OutcomeStays DEF Told
  <2>4. AddressInv'
    BY <1>1, <1>2, <2>1, <2>2 DEF Told, AddressInv
  <2> QED
    BY <2>3, <2>4 DEF Told
<1>6. CASE Acking(Device) /\ Raised(cin)
  <2>1. /\ Over(Device') /\ cur' = cur /\ alt' = alt /\ config' = config
        /\ address' = IF after = "address" THEN pending_address ELSE address
    BY <1>6, AckStep
  <2>2. ~ Writing(Device) /\ ~ Refusing(Device) /\ ~ Writing(Device') /\ ~ Refusing(Device')
        /\ ~ Acking(Device')
    BY <1>6, <2>1, OneMode
  <2>3. OutcomeInv'
    BY <1>1, <1>3, <2>1, <2>2, OutcomeStays DEF Told
  <2>4. AddressInv'
    BY <1>1, <1>6, <2>1, <2>2 DEF Told, AddressInv
  <2> QED
    BY <2>3, <2>4 DEF Told
<1>7. CASE Writing(Device) /\ Raised(cout)
  <2> DEFINE r == host.req
             b == host.before
             p == Packet(r.what, r.value, r.len)
  <2>1. /\ r \in Requests /\ r.op = "SET_CUR"
        /\ Takes(Device, p) =>
             /\ Acking(Device') /\ Armed(cin') /\ after' = "nothing"
             /\ cur' = [cur EXCEPT ![r.what] = r.value]
             /\ alt' = alt /\ config' = config /\ address' = address
        /\ ~ Takes(Device, p) => Refusing(Device') /\ Same(Device', Device)
    BY <1>7, WriteStep
  <2>2. p[2] = r.value /\ p[3] = r.len
    BY DEF Packet
  <2>3. r.what = pending_set.id /\ pending_set.len = Length(r.what)
    BY <1>1, <1>7, Parts DEF IInv, HostInv, Writing
  <2>4. Takes(Device, p) <=> ~ (r.len < Length(r.what)) /\ (r.what = "rate" => r.value \in Rates)
    BY <2>2, <2>3, Parts DEF Takes
  <2> HIDE DEF p
  <2>5. ~ Refusing(Device) /\ ~ Acking(Device)
    BY <1>7, OneMode
  <2>6. host.stage # "idle" => Now = b /\ config # 0 /\ b.config = config
    BY <1>1, <1>7 DEF Told, OutcomeInv, Now
  <2>7. CASE Takes(Device, p)
    <3>1. ~ Writing(Device') /\ ~ Refusing(Device') /\ ~ Raised(cin')
      BY <2>1, <2>7, OneMode, OnePlace
    <3>2. ASSUME host.stage # "idle" PROVE Now' = Effect(r, b) /\ ~ Refuses(r, b.config # 0)
      <4>1. b = [cur |-> cur, alt |-> alt, config |-> config]
        BY <2>6, <3>2 DEF Now
      <4>2. Effect(r, b) = [cur |-> [cur EXCEPT ![r.what] = r.value], alt |-> alt, config |-> config]
        BY <2>1, <4>1 DEF Effect
      <4>3. Now' = [cur |-> [cur EXCEPT ![r.what] = r.value], alt |-> alt, config |-> config]
        BY <2>1, <2>7 DEF Now
      <4>4. ~ Refuses(r, b.config # 0)
        BY <2>1, <2>4, <2>6, <2>7, <3>2 DEF Refuses
      <4> QED
        BY <4>2, <4>3, <4>4
    <3>3. OutcomeInv'
      BY <1>1, <1>3, <3>1, <3>2 DEF OutcomeInv
    <3>4. AddressInv'
      BY <1>1, <2>1, <2>5, <2>7, <3>1 DEF Told, AddressInv
    <3> QED
      BY <3>3, <3>4 DEF Told
  <2>8. CASE ~ Takes(Device, p)
    <3>1. ~ Writing(Device') /\ Refusing(Device') /\ ~ Acking(Device')
      BY <2>1, <2>8, OneMode
    <3>2. Refuses(r, TRUE) /\ \A c \in BOOLEAN : Refuses(r, c)
      BY <2>1, <2>4, <2>8 DEF Refuses
    <3>3. Now' = Now
      BY <1>2, <2>1, <2>8 DEF Now
    <3>4. OutcomeInv'
      BY <1>1, <1>3, <2>6, <3>1, <3>2, <3>3 DEF OutcomeInv
    <3>5. AddressInv'
      BY <1>1, <1>2, <2>1, <2>5, <2>8, <3>1 DEF Told, AddressInv
    <3> QED
      BY <3>4, <3>5 DEF Told
  <2> QED
    BY <2>7, <2>8
<1> QED
  BY <1>4, <1>5, <1>6, <1>7, BufferFound

LEMMA WireTold ==
  ASSUME IInv, Told, setup = NoRequest, reset_seen = "none",
         UNCHANGED <<stateVars, setup, reset_seen>>,
         host.stage # "idle", host'.stage # "idle", host'.req = host.req, host'.before = host.before,
         Writing(Device') <=> Writing(Device), Refusing(Device') <=> Refusing(Device),
         ~ Acking(Device), ~ Acking(Device'), host'.address = host.address
  PROVE  Told'
<1>1. OutcomeInv'
  BY OutcomeStays DEF Told, stateVars
<1>2. AddressInv'
  BY DEF Told, AddressInv, stateVars
<1> QED
  BY <1>1, <1>2 DEF Told

LEMMA ExchangeTold == ASSUME IInv, Told, Exchange PROVE Told'
<1>1. host \in Hosts
  BY DEF IInv, HostInv
<1>2. CASE ReadPacket
  <2>1. /\ setup = NoRequest /\ reset_seen = "none" /\ host.stage = "in"
        /\ UNCHANGED <<stateVars, setup, reset_seen>> /\ Reading(Device) /\ Reading(Device')
    BY <1>2, Reached, ReadPacketKeeps DEF ReadPacket, Reaches
  <2>2. /\ host'.stage # "idle" /\ host'.req = host.req /\ host'.before = host.before
        /\ host'.address = host.address
    BY <1>1, <1>2, <2>1 DEF ReadPacket, Hosts
  <2> QED
    BY <2>1, <2>2, WireTold, OneMode
<1>3. CASE WritePacket
  <2>1. /\ setup = NoRequest /\ reset_seen = "none" /\ host.stage = "out"
        /\ UNCHANGED <<stateVars, setup, reset_seen>> /\ Writing(Device) /\ Writing(Device')
    BY <1>3, Reached, WritePacketKeeps DEF WritePacket, Reaches
  <2>2. /\ host'.stage # "idle" /\ host'.req = host.req /\ host'.before = host.before
        /\ host'.address = host.address
    BY <1>1, <1>3 DEF WritePacket, Hosts
  <2> QED
    BY <2>1, <2>2, WireTold, OneMode
<1>4. CASE StatusOut
  <2>1. /\ setup = NoRequest /\ reset_seen = "none" /\ host.stage = "status_out"
        /\ UNCHANGED <<stateVars, setup, reset_seen>> /\ Confirming(Device) /\ Confirming(Device')
    BY <1>4, Reached, StatusOutKeeps DEF StatusOut, Reaches
  <2>2. /\ host'.stage # "idle" /\ host'.req = host.req /\ host'.before = host.before
        /\ host'.address = host.address
    BY <1>1, <1>4 DEF StatusOut, Hosts
  <2> QED
    BY <2>1, <2>2, WireTold, OneMode
<1>5. CASE SeeStall
  <2>1. /\ setup = NoRequest /\ reset_seen = "none" /\ host.stage # "idle"
        /\ UNCHANGED <<stateVars, setup, reset_seen>> /\ Refusing(Device) /\ Device' = Device
    BY <1>5, SeeStallKeeps DEF SeeStall
  <2>2. /\ host'.stage # "idle" /\ host'.req = host.req /\ host'.before = host.before
        /\ host'.address = host.address
    BY <1>1, <1>5 DEF SeeStall, Hosts
  <2> QED
    BY <2>1, <2>2, WireTold, OneMode
<1>6. CASE StatusIn
  <2>1. /\ setup = NoRequest /\ reset_seen = "none" /\ host.stage = "status_in"
        /\ UNCHANGED <<stateVars, setup, reset_seen, after>>
        /\ Acking(Device) /\ Armed(cin) /\ Acking(Device') /\ Raised(cin')
    BY <1>6, Reached, StatusInKeeps DEF StatusIn, Reaches
  <2>2. /\ host'.stage # "idle" /\ host'.req = host.req /\ host'.before = host.before
        /\ host'.address = IF host.req.op = "SET_ADDRESS" THEN host.req.value ELSE host.address
    BY <1>1, <1>6 DEF StatusIn, Hosts
  <2>3. /\ after = "address" <=> host.req.op = "SET_ADDRESS"
        /\ after = "address" => pending_address = host.req.value
    BY <2>1 DEF IInv, HostInv
  <2>4. OutcomeInv'
    BY <2>1, <2>2, OutcomeStays, OneMode DEF Told, stateVars
  <2>5. host.address = address
    BY <2>1, OnePlace DEF Told, AddressInv
  <2>6. AddressInv'
    BY <2>1, <2>2, <2>3, <2>5 DEF AddressInv, stateVars
  <2> QED
    BY <2>4, <2>6 DEF Told
<1> QED
  BY <1>2, <1>3, <1>4, <1>5, <1>6 DEF Exchange

LEMMA IrqResetTold == ASSUME IInv, Told, IrqReset PROVE Told'
<1>1. /\ reset_seen # "none" /\ host.stage = "idle" /\ host.address = 0
  BY DEF Told, OutcomeInv, AddressInv, IInv, WireInv, IrqReset
<1>2. cin' = cin /\ Handled
  BY ResetStep DEF IInv, WireInv, IrqReset
<1>3. ~ Raised(cin')
  BY <1>2, OnePlace DEF Handled
<1>4. host' = host /\ reset_seen' = "none" /\ address' = 0 /\ setup' = NoRequest
  BY DEF IrqReset
<1> QED
  BY <1>1, <1>3, <1>4 DEF Told, OutcomeInv, AddressInv

LEMMA SendSetupTold == ASSUME IInv, Told, ~ MayOverrun, SendSetup PROVE Told'
<1>1. PICK r \in Requests :
        /\ setup' = r
        /\ host' = [host EXCEPT !.req = r, !.got = <<>>, !.pid = 1, !.before = Now,
                                !.stage = FirstStage(r)]
  BY DEF SendSetup, Now, FirstStage
<1>2. /\ Pending = {} /\ reset_seen = "none" /\ reset_seen' = "none" /\ setup = NoRequest
      /\ UNCHANGED <<pipeVars, stateVars>>
  BY DEF SendSetup, Quiet
<1>3. ~ Raised(cin)
  BY <1>2, OnePlace DEF Pending
<1>4. r # NoRequest /\ FirstStage(r) # "idle"
  BY RequestKinds DEF FirstStage, IsRead
<1>5. host \in Hosts
  BY DEF IInv, HostInv
<1>6. host'.stage = FirstStage(r) /\ host'.before = Now /\ host'.address = host.address
  BY <1>1, <1>5 DEF Hosts
<1>7. Now' = Now /\ address' = address
  BY <1>2 DEF Now, stateVars
<1> QED
  BY <1>1, <1>2, <1>3, <1>4, <1>6, <1>7 DEF Told, OutcomeInv, AddressInv

LEMMA ResetTold ==
  ASSUME IInv, Told, ~ MayError, NEW what \in {"reset", "error"}, ResetOrError(what)
  PROVE  Told'
<1>1. reset_seen' # "none" /\ host' = [host EXCEPT !.stage = "idle", !.address = 0, !.got = <<>>]
  BY DEF ResetOrError
<1>2. host \in Hosts
  BY DEF IInv, HostInv
<1>3. host'.stage = "idle" /\ host'.address = 0
  BY <1>1, <1>2 DEF Hosts
<1> QED
  BY <1>1, <1>3 DEF Told, OutcomeInv, AddressInv

LEMMA StepTold == ASSUME IInv, Told, ~ MayOverrun, ~ MayError, [Next]_vars PROVE Told'
<1>1. CASE UNCHANGED vars
  <2>1. Device' = Device /\ Now' = Now
    BY <1>1 DEF vars, Device, Now, pipeVars, stateVars
  <2> QED
    BY <1>1, <2>1 DEF Told, OutcomeInv, AddressInv, vars, pipeVars, stateVars
<1>2. CASE Irq
  BY <1>2, IrqEnterTold, IrqSetupTold, IrqBuffersTold, IrqResetTold DEF Irq
<1>3. CASE Exchange
  BY <1>3, ExchangeTold
<1>4. CASE SendSetup
  BY <1>4, SendSetupTold
<1>5. CASE \E what \in {"reset", "error"} : ResetOrError(what)
  BY <1>5, ResetTold
<1> QED
  BY <1>1, <1>2, <1>3, <1>4, <1>5 DEF Next

-----------------------------------------------------------------------------
(***************************************************************************)
(* What the invariant says of the properties.                              *)
(***************************************************************************)

LEMMA Places ==
  ASSUME NEW in \in BOOLEAN, NEW ep \in Endpoints(in)
  PROVE  /\ Armed(ep) => Accounted(ep)
         /\ Raised(ep) => Accounted(ep)
         /\ Idle(ep) /\ (ep.xfer.kind # "none" => ep.owned = 1) => Accounted(ep)
<1>1. DOMAIN ep.buf = {0} /\ ep.owned \in {0, 1} /\ ep.bufs = 1
  BY DEF Endpoints
<1>2. /\ ep.buf[0].at = "hw" => AtController(ep) = {0}
      /\ ep.buf[0].at = "cpu" => AtController(ep) = {}
  BY <1>1 DEF AtController
<1>3. Cardinality({0}) = 1 /\ Cardinality({}) = 0
  BY FS_EmptySet, FS_Singleton
<1> DEFINE n == Cardinality(AtController(ep))
           m == Len(ep.raised)
<1>4. (ep.raised = <<>> => m = 0) /\ (ep.raised = <<0>> => m = 1)
  <2>1. Len(<<>>) = 0 /\ Len(<<0>>) = 1
    OBVIOUS
  <2> QED
    BY <2>1, Zenon
<1>5. /\ Armed(ep) => ep.owned = 0 /\ n = 1 /\ m = 0
      /\ Raised(ep) => ep.owned = 0 /\ n = 0 /\ m = 1
      /\ Idle(ep) => n = 0 /\ m = 0
  BY <1>1, <1>2, <1>3, <1>4 DEF Armed, Raised, Idle
<1>6. Accounted(ep) <=> (ep.xfer.kind # "none" => ep.owned + n + m = 1)
  BY <1>1 DEF Accounted
<1> HIDE DEF n, m
<1> QED
  BY <1>5, <1>6

LEMMA TypeFollows == IInv => TypeOK
<1> SUFFICES ASSUME IInv PROVE TypeOK
  OBVIOUS
<1>1. \A in \in BOOLEAN : \A ep \in Endpoints(in) :
        /\ ep.owned \in 0 .. 1 /\ ep.pid \in {0, 1} /\ Len(ep.raised) <= 1
        /\ ep.halt \in {"none", "stall", "halted"}
        /\ ep.xfer.kind \in {"none", "packet", "stream", "set_cur"}
        /\ ep.xfer.submit \in 0 .. Packets /\ ep.xfer.handle \in 0 .. Packets
  <2> TAKE in \in BOOLEAN
  <2> TAKE ep \in Endpoints(in)
  <2>1. Len(<<>>) <= 1 /\ Len(<<0>>) <= 1
    OBVIOUS
  <2>2. ep.xfer \in Transfers /\ ep.raised \in {<<>>, <<0>>}
    BY DEF Endpoints
  <2> QED
    BY <2>1, <2>2 DEF Endpoints, Transfers
<1>2. /\ after \in {"nothing", "ack", "address"}
      /\ pending_set \in [id : Controls \cup {"none"}, len : {0, 2, 3}]
  BY Parts DEF IInv, DeviceInv, Devices
<1>3. host \in Hosts
  BY DEF IInv, HostInv
<1>4. host.req \in Requests \cup {NoRequest}
  BY <1>3 DEF Hosts
<1>5. cin \in Endpoints(TRUE) /\ cout \in Endpoints(FALSE)
  BY InRange DEF IInv
<1> QED
  BY <1>1, <1>2, <1>4, <1>5, InRange DEF IInv, DeviceInv, WireInv, TypeOK

LEMMA AccountsFollow == IInv => BuffersAccounted
<1> SUFFICES ASSUME IInv PROVE Accounted(cin) /\ Accounted(cout)
  BY DEF BuffersAccounted
<1>1. NoTransfer.kind = "none"
  BY DEF NoTransfer
<1>2. Idle(cin) \/ Armed(cin) \/ Raised(cin)
  BY Waits, Parts DEF IInv, DeviceInv
<1>3. Idle(cout) \/ Armed(cout) \/ Raised(cout)
  BY Waits, Parts DEF IInv, DeviceInv
<1>4. Idle(cin) => (cin.xfer.kind # "none" => cin.owned = 1)
  BY <1>1, OnePlace, Waits, Parts
     DEF IInv, DeviceInv, Reading, Confirming, Writing, Acking, Refusing, Over,
         Fresh, Free
<1>5. Idle(cout) => (cout.xfer.kind # "none" => cout.owned = 1)
  BY <1>1, OnePlace, Waits, Parts
     DEF IInv, DeviceInv, Reading, Confirming, Writing, Acking, Refusing, Over,
         Fresh, Free
<1>6. cin \in Endpoints(TRUE) /\ cout \in Endpoints(FALSE)
  BY InRange DEF IInv
<1> QED
  BY <1>2, <1>3, <1>4, <1>5, <1>6, Places

\* An armed endpoint is armed in a mode, with the packet id the host expects next.
LEMMA PidsAgree ==
  ASSUME IInv, setup = NoRequest, host.stage # "idle"
  PROVE  /\ Armed(cin) => cin.buf[0].pid = host.pid
         /\ Armed(cout) => cout.buf[0].pid = host.pid
<1>1. ASSUME Armed(cin) PROVE cin.buf[0].pid = host.pid
  <2>1. CASE Reading(Device)
    BY <1>1, <2>1 DEF IInv, HostInv, ReadInv
  <2>2. CASE Acking(Device)
    <3>1. cin.buf[0].pid = 1
      BY <2>2, Parts DEF Acking, Single
    <3>2. host.pid = 1
      BY <2>2 DEF IInv, HostInv
    <3> QED
      BY <3>1, <3>2
  <2> QED
    BY <1>1, <2>1, <2>2, Waits, OnePlace, Parts DEF IInv, DeviceInv
<1>2. ASSUME Armed(cout) PROVE cout.buf[0].pid = host.pid
  <2>1. Confirming(Device) \/ Writing(Device)
    BY <1>2, Waits, OnePlace, Parts DEF IInv, DeviceInv
  <2>2. cout.buf[0].pid = 1
    BY <2>1, Parts DEF Confirming, Writing, Single
  <2>3. host.pid = 1
    BY <2>1 DEF IInv, HostInv
  <2> QED
    BY <2>2, <2>3
<1> QED
  BY <1>1, <1>2

LEMMA PidsFollow == IInv => PidsInSequence
<1> SUFFICES ASSUME IInv, setup = NoRequest
             PROVE  /\ host.stage \in {"in", "status_in"} /\ Ready(cin) => cin.buf[0].pid = host.pid
                    /\ host.stage \in {"out", "status_out"} /\ Ready(cout) => cout.buf[0].pid = host.pid
  BY DEF PidsInSequence
<1>1. cin \in Endpoints(TRUE) /\ cout \in Endpoints(FALSE)
  BY InRange DEF IInv
<1>2. Ready(cin) => Armed(cin)
  BY <1>1, ReadyIsArmed, Waits, Parts DEF IInv, DeviceInv
<1>3. Ready(cout) => Armed(cout)
  BY <1>1, ReadyIsArmed, Waits, Parts DEF IInv, DeviceInv
<1> QED
  BY <1>2, <1>3, PidsAgree

LEMMA OutcomeFollows == IInv /\ Told => OutcomeIsTrue
<1> SUFFICES ASSUME IInv, Told, setup = NoRequest
             PROVE  LET r == host.req
                        b == host.before
                    IN  /\ host.stage = "done" => ~ Refuses(r, b.config # 0) /\ Now = Effect(r, b)
                        /\ host.stage = "stalled" => Refuses(r, b.config # 0) /\ Now = b
  BY DEF OutcomeIsTrue, Now, Effect
<1>1. FirstStage(host.req) \in {"in", "out", "status_in"}
  BY DEF FirstStage, IsRead
<1>2. host.stage = "done" => ~ Writing(Device) /\ ~ Refusing(Device)
  BY <1>1 DEF IInv, HostInv
<1>3. host.stage = "stalled" => Refusing(Device)
  <2>1. Reading(Device) => Armed(cin) \/ Raised(cin)
    BY Waits, Parts
  <2>2. Reading(Device) /\ host.stage # "idle" => host.stage \in {"in", "status_out"}
    <3>1. \A n, m \in Int : n >= m => n > m \/ n = m
      OBVIOUS
    <3>2. Reading(Device) /\ host.stage # "idle" =>
            Len(host.got) \in Nat /\ Expected(host.req) \in Nat
      BY Sizes DEF Expected, IInv, HostInv, Hosts
    <3> QED
      BY <2>1, <3>1, <3>2 DEF IInv, HostInv, ReadInv
  <2> QED
    BY <2>2 DEF IInv, HostInv, DeviceInv
<1>4. host.stage # "idle" /\ ~ Writing(Device) /\ ~ Refusing(Device) =>
        Now = Effect(host.req, host.before) /\ ~ Refuses(host.req, host.before.config # 0)
  BY DEF Told, OutcomeInv
<1>5. host.stage # "idle" /\ Refusing(Device) =>
        Now = host.before /\ Refuses(host.req, host.before.config # 0)
  BY DEF Told, OutcomeInv
<1> QED
  BY <1>2, <1>3, <1>4, <1>5

LEMMA WaitingFollows == IInv /\ Told => NeverLeftWaiting
<1> SUFFICES ASSUME IInv, Told, Quiet
             PROVE  /\ address = host.address
                    /\ host.stage \in {"in", "status_in"} => Reaches(cin) \/ cin.stall
                    /\ host.stage \in {"out", "status_out"} => Reaches(cout) \/ cout.stall
  BY DEF NeverLeftWaiting, SameAddress
<1>1. setup = NoRequest /\ reset_seen = "none" /\ cin.raised = <<>> /\ cout.raised = <<>>
  BY DEF Quiet, Pending
<1>2. ~ Raised(cin) /\ ~ Raised(cout)
  BY <1>1, OnePlace
<1>3. address = host.address
  BY <1>1, <1>2 DEF Told, AddressInv
<1>4. cin \in Endpoints(TRUE) /\ cout \in Endpoints(FALSE)
  BY InRange DEF IInv
<1>5. host.stage \in {"in", "status_in"} => Armed(cin) \/ Refusing(Device)
  BY <1>1, <1>2, Waits, Parts DEF IInv, HostInv, DeviceInv
<1>6. host.stage \in {"out", "status_out"} => Armed(cout) \/ Refusing(Device)
  <2>1. Reading(Device) /\ host.stage # "idle" => host.stage = "in"
    BY <1>1, <1>2, Waits, Parts DEF IInv, HostInv, ReadInv
  <2> QED
    BY <1>1, <1>2, <2>1, Waits, Parts DEF IInv, HostInv, DeviceInv
<1>7. ASSUME host.stage \in {"in", "status_in"}, ~ cin.stall PROVE Reaches(cin)
  <2>1. Armed(cin)
    BY <1>5, <1>7, Waits, Parts
  <2>2. Ready(cin) /\ cin.hw = 0
    BY <1>4, <1>7, <2>1, ReadyIsArmed
  <2>3. cin.buf[0].pid = host.pid
    BY <1>1, <1>7, <2>1, PidsAgree
  <2> QED
    BY <1>1, <1>3, <2>2, <2>3 DEF Reaches
<1>8. ASSUME host.stage \in {"out", "status_out"}, ~ cout.stall PROVE Reaches(cout)
  <2>1. Armed(cout)
    BY <1>6, <1>8, Waits, Parts
  <2>2. Ready(cout) /\ cout.hw = 0
    BY <1>4, <1>8, <2>1, ReadyIsArmed
  <2>3. cout.buf[0].pid = host.pid
    BY <1>1, <1>8, <2>1, PidsAgree
  <2> QED
    BY <1>1, <1>3, <2>2, <2>3 DEF Reaches
<1> QED
  BY <1>3, <1>7, <1>8

\* The only step that changes a control.
LEMMA Changes ==
  ASSUME IInv, ~ MayOverrun, [Next]_vars, NEW c \in Controls, cur'[c] # cur[c]
  PROVE  /\ host.req.op = "SET_CUR" /\ host.req.what = c /\ host.req.value = cur'[c]
         /\ host.stage \in {"status_in", "idle"}
<1>1. ASSUME cur' = cur PROVE FALSE
  BY <1>1
<1>2. CASE IrqBuffers
  <2>1. Same(Device', Device) => cur' = cur
    BY Parts, PartsNext DEF Same
  <2>2. Writing(Device) /\ Raised(cout)
    BY <1>1, <1>2, <2>1, BufferFound, ReadStep, ConfirmStep, AckStep
  <2> DEFINE r == host.req
             p == Packet(r.what, r.value, r.len)
  <2>3. /\ r.op = "SET_CUR" /\ host.stage \in {"status_in", "idle"}
        /\ Takes(Device, p) => cur' = [cur EXCEPT ![r.what] = r.value]
        /\ ~ Takes(Device, p) => Same(Device', Device)
    BY <1>2, <2>2, WriteStep
  <2>4. cur' = [cur EXCEPT ![r.what] = r.value] /\ cur \in Currents
    BY <1>1, <2>1, <2>3, InRange DEF IInv
  <2> QED
    BY <2>3, <2>4 DEF Currents
<1>3. CASE IrqSetup
  <2>1. cur' = cur
    BY <1>3, SetupStep, Parts, PartsNext DEF ServedAs
  <2> QED
    BY <1>1, <2>1
<1>4. CASE IrqEnter \/ IrqReset \/ UNCHANGED vars
  BY <1>1, <1>4 DEF IrqEnter, IrqReset, vars, stateVars
<1>5. CASE Exchange
  BY <1>1, <1>5
     DEF Exchange, ReadPacket, WritePacket, StatusIn, StatusOut, SeeStall,
         stateVars
<1>6. CASE SendSetup \/ \E what \in {"reset", "error"} : ResetOrError(what)
  BY <1>1, <1>6 DEF SendSetup, ResetOrError, stateVars
<1> QED
  BY <1>2, <1>3, <1>4, <1>5, <1>6 DEF Next, Irq

-----------------------------------------------------------------------------
(***************************************************************************)
(* The theorems.  Each has the hypothesis of the runs: the interrupt of a  *)
(* status stage comes before the next setup packet (usb_overrun shows what *)
(* happens otherwise) and, for what the host is told, the wire damages no  *)
(* packet (usb_device.c:1042).                                             *)
(***************************************************************************)

\* Every request passes through the modes in step with the host, whether it gives up,
\* resets the bus, or has its packets damaged (usb_device.c:596-625, 929-1051).
THEOREM Inductive == ~ MayOverrun => (Spec => []IInv)
<1> SUFFICES ASSUME ~ MayOverrun PROVE Spec => []IInv
  OBVIOUS
<1>1. Init => IInv
  BY InitHolds
<1>2. IInv /\ [Next]_vars => IInv'
  BY StepKeeps
<1> QED
  BY <1>1, <1>2, PTL DEF Spec

\* ... and what has come of it is known in each mode.
THEOREM OutcomeKnown == ~ MayOverrun /\ ~ MayError => (Spec => [](IInv /\ Told))
<1> SUFFICES ASSUME ~ MayOverrun, ~ MayError PROVE Spec => [](IInv /\ Told)
  OBVIOUS
<1>1. Init => IInv /\ Told
  BY InitHolds
<1>2. IInv /\ Told /\ [Next]_vars => (IInv /\ Told)'
  BY StepKeeps, StepTold
<1> QED
  BY <1>1, <1>2, PTL DEF Spec

\* No buffer of endpoint 0 is lost or counted twice and no packet id is out of step,
\* however a control transfer ends, also with damaged packets
\* (usb_device.c:127-161, 371-449, 929-935).
THEOREM PipeStaysIntact == ~ MayOverrun => (Spec => []PipeIntact)
<1> SUFFICES ASSUME ~ MayOverrun PROVE Spec => []PipeIntact
  OBVIOUS
<1>1. IInv => PipeIntact
  BY TypeFollows, AccountsFollow, PidsFollow DEF PipeIntact
<1>2. Spec => []IInv
  BY Inductive
<1> QED
  BY <1>1, <1>2, PTL

\* What the host reads is the answer to the request it made last
\* (usb_device.c:929-968; usb_dac.c: do_get_request).
THEOREM AnswersFit == ~ MayOverrun => (Spec => []AnswersThisRequest)
<1> SUFFICES ASSUME ~ MayOverrun PROVE Spec => []AnswersThisRequest
  OBVIOUS
<1>1. IInv => AnswersThisRequest
  BY DEF IInv, HostInv
<1>2. Spec => []IInv
  BY Inductive
<1> QED
  BY <1>1, <1>2, PTL

\* A control changes only in the SET_CUR that changes it (usb_dac.c: do_set_current,
\* set_cur_packet).
THEOREM ControlsObey == ~ MayOverrun => (Spec => ChangedOnRequest)
<1> SUFFICES ASSUME ~ MayOverrun PROVE Spec => ChangedOnRequest
  OBVIOUS
<1>1. IInv /\ [Next]_vars =>
        [\A c \in Controls : cur'[c] # cur[c] =>
           /\ host.req.op = "SET_CUR" /\ host.req.what = c /\ host.req.value = cur'[c]
           /\ host.stage \in {"status_in", "idle"}]_vars
  BY Changes
<1>2. Spec => []IInv
  BY Inductive
<1> QED
  BY <1>1, <1>2, PTL DEF Spec, ChangedOnRequest

\* What a host is told of a request is true (usb_device.c:596-625, 929-968;
\* usb_dac.c:623-703).
THEOREM HostIsToldTheTruth == ~ MayOverrun /\ ~ MayError => (Spec => []OutcomeIsTrue)
<1> SUFFICES ASSUME ~ MayOverrun, ~ MayError PROVE Spec => []OutcomeIsTrue
  OBVIOUS
<1>1. IInv /\ Told => OutcomeIsTrue
  BY OutcomeFollows
<1>2. Spec => [](IInv /\ Told)
  BY OutcomeKnown
<1> QED
  BY <1>1, <1>2, PTL

\* With nothing left to handle, the box is at the host's address and the host's next
\* token finds its buffer, or a stall (usb_device.c:330-346, 596-625, 760-768).
THEOREM HostIsServed == ~ MayOverrun /\ ~ MayError => (Spec => []NeverLeftWaiting)
<1> SUFFICES ASSUME ~ MayOverrun, ~ MayError PROVE Spec => []NeverLeftWaiting
  OBVIOUS
<1>1. IInv /\ Told => NeverLeftWaiting
  BY WaitingFollows
<1>2. Spec => [](IInv /\ Told)
  BY OutcomeKnown
<1> QED
  BY <1>1, <1>2, PTL
=============================================================================
