--------------------------- MODULE UsbStreamProofs ---------------------------
(***************************************************************************)
(* The isochronous endpoints' safety properties, for any rates and however *)
(* packets are numbered, through any configurations, halts, resets and     *)
(* changes of the rate.                                                    *)
(*                                                                         *)
(* Outside the interrupt an endpoint is idle or runs, and when it runs     *)
(* its two buffers are in one of two arrangements (out) or three (fb):     *)
(* the inductive invariant says which buffer is where in each              *)
(* (EndpointsInv), what the interrupt finds (WireInv), which packets are   *)
(* on their way (PacketsInv), and for which rate the feedback that waits   *)
(* was made (FeedbackInv).                                                 *)
(***************************************************************************)
EXTENDS UsbStream, FiniteSetTheorems, TLAPS

Contents  == Rates \cup 0 .. NumPackets - 1 \cup {NoData}
Transfers == [kind : {"none", "iso"}, submit : 0 .. 2, handle : 0 .. 4, outstanding : BOOLEAN]
Buffers   == [at : {"cpu", "hw"}, pid : {0, 1}, data : Contents]
Endpoints(in) ==
  [in : {in}, bufs : {2}, owned : 0 .. 2, give : {0, 1}, take : {0, 1}, first : BOOLEAN,
   pid : {0, 1}, halt : {"none", "halted"}, stall : BOOLEAN, xfer : Transfers,
   buf : [{0, 1} -> Buffers], raised : {<<>>, <<0>>, <<1>>, <<0, 1>>, <<1, 0>>}, hw : {0, 1}]

\* Reset, and no transfer.
Idle(ep) ==
  /\ ep.owned = 2 /\ ep.give = 0 /\ ep.first /\ ep.xfer = NoTransfer
  /\ ep.halt = "none" /\ ~ ep.stall
  /\ ep.buf[0].at = "cpu" /\ ep.buf[1].at = "cpu"

\* A transfer that has been granted so many packets beyond what was given.
Counts(t, granted, waiting) ==
  t.kind = "iso" /\ t.submit = granted /\ t.handle = waiting /\ ~ t.outstanding
Runs(ep, granted, waiting) ==
  /\ ~ ep.first /\ Counts(ep.xfer, granted, waiting)
  /\ ep.stall <=> ep.halt # "none"

\* Where the buffers are: one of them at the controller or raised, the other the
\* processor's, when audio comes in...
OneOut(ep) ==
  LET b == 1 - ep.give
  IN  /\ ep.owned = 1 /\ ep.buf[ep.give].at = "cpu"
      /\ \/ ep.raised = <<>> /\ ep.hw = b /\ ep.buf[b].at = "hw"
         \/ ep.raised = <<b>> /\ ep.hw = ep.give /\ ep.buf[b].at = "cpu"

\* ... and both of them when feedback goes out, given in turn.
BothIn(ep) ==
  LET a == ep.give
      b == 1 - ep.give
  IN  /\ ep.owned = 0
      /\ \/ ep.raised = <<>> /\ ep.hw = a /\ ep.buf[a].at = "hw" /\ ep.buf[b].at = "hw"
         \/ ep.raised = <<a>> /\ ep.hw = b /\ ep.buf[a].at = "cpu" /\ ep.buf[b].at = "hw"
         \/ ep.raised = <<a, b>> /\ ep.hw = a /\ ep.buf[a].at = "cpu" /\ ep.buf[b].at = "cpu"

Hears(ep) == ep \in Endpoints(FALSE) /\ Runs(ep, 0, 1) /\ OneOut(ep)
Tells(ep) == ep \in Endpoints(TRUE) /\ Runs(ep, 1, 3) /\ BothIn(ep)

EndpointsInv ==
  /\ config \in {0, 1}
  /\ config = 0 => /\ out \in Endpoints(FALSE) /\ Idle(out) /\ out.raised = <<>>
                   /\ fb \in Endpoints(TRUE) /\ Idle(fb) /\ fb.raised = <<>>
  /\ config = 1 => Hears(out) /\ Tells(fb)

\* A request comes and is served while the endpoints have nothing to handle, and
\* a halt leaves them so.
WireInv ==
  /\ request \in StreamRequests \cup {"none"} /\ reset_seen \in BOOLEAN
  /\ irq \subseteq {"setup", "buffers", "reset"}
  /\ request # "none" =>
       ~ reset_seen /\ irq \subseteq {"setup"} /\ out.raised = <<>> /\ fb.raised = <<>>
  /\ "setup" \in irq => request # "none"
  /\ out.halt # "none" => out.raised = <<>>
  /\ fb.halt # "none" => fb.raised = <<>>

\* At most one packet is on its way, and it is the next.
PacketsInv ==
  /\ accepted \in 0 .. NumPackets - 1 /\ consumed \in 0 .. NumPackets - 1
  /\ out.raised = <<>> => consumed = accepted
  /\ out.raised # <<>> =>
       accepted = (consumed + 1) % NumPackets /\ out.buf[Head(out.raised)].data = accepted

\* Feedback for another rate was given before the rate changed: at most both
\* buffers, and after one read the one that is read next.
FeedbackInv ==
  /\ rate \in Rates /\ told \in Rates /\ since \in 0 .. 3
  /\ \A b \in {0, 1} :
       fb.buf[b].at = "hw" =>
         /\ fb.buf[b].data \in Rates
         /\ since >= 2 \/ (since = 1 /\ b # fb.hw) => fb.buf[b].data = rate
  /\ since = 3 => told = rate

IInv == EndpointsInv /\ WireInv /\ PacketsInv /\ FeedbackInv

-----------------------------------------------------------------------------
(***************************************************************************)
(* The operators on an endpoint of two buffers.                            *)
(***************************************************************************)

LEMMA Two ==
  /\ 0 .. 2 - 1 = {0, 1}
  /\ \A b \in {0, 1} : (b + 1) % 2 = 1 - b /\ 1 - b \in {0, 1} /\ 1 - b # b /\ 1 - (1 - b) = b
OBVIOUS

LEMMA AppendOne ==
  ASSUME NEW x, NEW y
  PROVE  Append(<<x>>, y) = <<x, y>>
<1> DEFINE S == {x, y}
<1>1. ASSUME NEW s \in Seq(S), Len(s) = 1, s[1] = x
      PROVE  Append(s, y) = <<x, y>>
  <2> DEFINE t == Append(s, y)
  <2>1. y \in S
    OBVIOUS
  <2> HIDE DEF S
  <2>0. Len(s) + 1 = 2
    BY <1>1
  <2>2. t \in Seq(S) /\ Len(t) = 2
    <3>1. t \in Seq(S)
      BY <2>1
    <3>2. Len(t) = Len(s) + 1
      BY <2>1
    <3> QED
      BY <2>0, <3>1, <3>2
  <2>3. t[2] = y
    <3>1. t[Len(s) + 1] = y
      BY <2>1
    <3> QED
      BY <2>0, <3>1
  <2>4. t[1] = x
    <3>1. \A i \in 1 .. Len(s) : t[i] = s[i]
      BY <2>1
    <3> QED
      BY <1>1, <3>1
  <2> HIDE DEF t
  <2>5. t = [i \in 1 .. 2 |-> t[i]]
    BY <2>2
  <2>6. t = [i \in 1 .. 2 |-> IF i = 1 THEN x ELSE y]
    BY <2>3, <2>4, <2>5
  <2>7. <<x, y>> = [i \in 1 .. 2 |-> IF i = 1 THEN x ELSE y]
    OBVIOUS
  <2> QED
    BY <2>6, <2>7 DEF t
<1>2. <<x>> \in Seq(S) /\ Len(<<x>>) = 1 /\ <<x>>[1] = x
  OBVIOUS
<1> QED
  BY <1>1, <1>2

LEMMA OneAndTwo ==
  /\ Len(<<>>) = 0
  /\ \A x : <<x>> # <<>> /\ Head(<<x>>) = x /\ Len(<<x>>) = 1
  /\ \A x, y : <<x, y>> # <<>> /\ Head(<<x, y>>) = x /\ Len(<<x, y>>) = 2
OBVIOUS

LEMMA DataContents ==
  NoData \in Contents /\ Rates \subseteq Contents /\ 0 .. NumPackets - 1 \subseteq Contents
BY DEF Contents

LEMMA NoTransferFits ==
  /\ NoTransfer \in Transfers /\ NoTransfer.kind = "none" /\ NoTransfer.submit = 0
BY DEF NoTransfer, Transfers

\* What an endpoint keeps while a buffer of it changes hands.
Keeps(e, ep) == e.halt = ep.halt /\ e.stall = ep.stall

\* _usb_give_buffer: the buffer is the controller's, and the first of all is where
\* the controller begins.
LEMMA GiveGives ==
  ASSUME NEW in \in BOOLEAN, NEW ep \in Endpoints(in), ep.owned > 0, ep.xfer.submit > 0,
         NEW data \in Contents
  PROVE  LET e == Give(ep, data)
         IN  /\ e \in Endpoints(in) /\ Keeps(e, ep) /\ e.raised = ep.raised
             /\ ~ e.first /\ e.owned = ep.owned - 1 /\ e.give = 1 - ep.give
             /\ e.hw = (IF ep.first THEN ep.give ELSE ep.hw)
             /\ e.buf[ep.give].at = "hw" /\ e.buf[ep.give].data = data
             /\ e.buf[1 - ep.give] = ep.buf[1 - ep.give]
             /\ \A g, w : Counts(ep.xfer, g, w) => Counts(e.xfer, g - 1, w)
<1> DEFINE e == Give(ep, data)
           c == [ep.buf EXCEPT ![ep.give] = [at |-> "hw", pid |-> ep.pid, data |-> data]]
           t == [ep.xfer EXCEPT !.submit = ep.xfer.submit - 1]
           h == IF ep.first THEN ep.give ELSE ep.hw
           o == ep.owned - 1
<1>1. /\ ep.give \in {0, 1} /\ ep.hw \in {0, 1} /\ ep.pid \in {0, 1} /\ ep.owned \in 0 .. 2
      /\ ep.buf \in [{0, 1} -> Buffers] /\ ep.xfer \in Transfers /\ ep.bufs = 2
  BY DEF Endpoints
<1>2. OtherBuffer(ep, ep.give) = 1 - ep.give /\ 1 - ep.give \in {0, 1} /\ 1 - ep.give # ep.give
  BY <1>1, Two DEF OtherBuffer
<1>3. [at |-> "hw", pid |-> ep.pid, data |-> data] \in Buffers
  BY <1>1 DEF Buffers
<1>4. /\ c \in [{0, 1} -> Buffers] /\ c[ep.give].at = "hw" /\ c[ep.give].data = data
      /\ c[1 - ep.give] = ep.buf[1 - ep.give]
  BY <1>1, <1>2, <1>3
<1>5. t \in Transfers /\ h \in {0, 1} /\ o \in 0 .. 2 /\ 1 - ep.pid \in {0, 1}
  BY <1>1 DEF Transfers
<1>6. e = [ep EXCEPT !.buf = c, !.hw = h, !.first = FALSE, !.pid = 1 - ep.pid, !.owned = o,
                     !.xfer = t, !.give = 1 - ep.give]
  BY <1>1, <1>2 DEF Give, Endpoints
<1> HIDE DEF c, t, h, o, e
<1>7. /\ e \in Endpoints(in) /\ e.buf = c /\ e.hw = h /\ e.first = FALSE /\ e.owned = o
      /\ e.xfer = t /\ e.give = 1 - ep.give /\ Keeps(e, ep) /\ e.raised = ep.raised
  BY <1>2, <1>4, <1>5, <1>6 DEF Endpoints, Keeps
<1>8. \A g, w : Counts(ep.xfer, g, w) => Counts(t, g - 1, w)
  BY <1>1 DEF Counts, Transfers, t
<1> QED
  BY <1>4, <1>7, <1>8 DEF e, h, o

\* usb_grow_transfer: a packet more.
LEMMA GrowGrows ==
  ASSUME NEW in \in BOOLEAN, NEW ep \in Endpoints(in), ep.xfer.submit < 2, ep.xfer.handle < 4
  PROVE  LET e == Grow(ep)
         IN  /\ e \in Endpoints(in) /\ Keeps(e, ep) /\ e.raised = ep.raised
             /\ e.first = ep.first /\ e.owned = ep.owned /\ e.give = ep.give /\ e.hw = ep.hw
             /\ e.buf = ep.buf
             /\ \A g, w : Counts(ep.xfer, g, w) => Counts(e.xfer, g + 1, w + 1)
<1> DEFINE t == [ep.xfer EXCEPT !.submit = ep.xfer.submit + 1, !.handle = ep.xfer.handle + 1]
           e == Grow(ep)
<1>0. ep.xfer \in Transfers
  BY DEF Endpoints
<1>1. t \in Transfers
  <2>1. ep.xfer.submit + 1 \in 0 .. 2 /\ ep.xfer.handle + 1 \in 0 .. 4
    BY <1>0 DEF Transfers
  <2> QED
    BY <1>0, <2>1 DEF Transfers
<1>2. e = [ep EXCEPT !.xfer = t]
  BY DEF Grow, Endpoints, Transfers
<1> HIDE DEF t, e
<1>3. /\ e \in Endpoints(in) /\ Keeps(e, ep) /\ e.raised = ep.raised
      /\ e.first = ep.first /\ e.owned = ep.owned /\ e.give = ep.give /\ e.hw = ep.hw
      /\ e.buf = ep.buf /\ e.xfer = t
  BY <1>1, <1>2 DEF Endpoints, Keeps
<1>4. \A g, w : Counts(ep.xfer, g, w) => Counts(t, g + 1, w + 1)
  BY <1>0 DEF Counts, Transfers, t
<1> QED
  BY <1>3, <1>4 DEF e

\* _usb_handle_transfer, its first half: the oldest raised buffer is the processor's.
LEMMA TakeTakes ==
  ASSUME NEW in \in BOOLEAN, NEW ep \in Endpoints(in), ep.owned < 2, ep.raised # <<>>
  PROVE  LET e == Take(ep)
         IN  /\ e \in Endpoints(in) /\ Keeps(e, ep) /\ e.raised = Tail(ep.raised)
             /\ e.first = ep.first /\ e.owned = ep.owned + 1 /\ e.give = ep.give /\ e.hw = ep.hw
             /\ \A b \in {0, 1} : e.buf[b].at = ep.buf[b].at
             /\ \A b \in {0, 1} : b # Head(ep.raised) => e.buf[b] = ep.buf[b]
             /\ e.xfer = ep.xfer
<1> DEFINE a == Head(ep.raised)
           c == [ep.buf EXCEPT ![a].data = NoData]
           o == ep.owned + 1
           r == Tail(ep.raised)
           e == Take(ep)
<1>1. a \in {0, 1} /\ r \in {<<>>, <<0>>, <<1>>}
  <2>1. ep.raised \in {<<0>>, <<1>>, <<0, 1>>, <<1, 0>>}
    BY DEF Endpoints
  <2>2. /\ Head(<<0>>) = 0 /\ Tail(<<0>>) = <<>> /\ Head(<<1>>) = 1 /\ Tail(<<1>>) = <<>>
        /\ Head(<<0, 1>>) = 0 /\ Tail(<<0, 1>>) = <<1>>
        /\ Head(<<1, 0>>) = 1 /\ Tail(<<1, 0>>) = <<0>>
    OBVIOUS
  <2> QED
    BY <2>1, <2>2
<1>2. ep.buf \in [{0, 1} -> Buffers] /\ ep.owned \in 0 .. 2
  BY DEF Endpoints
<1>3. o \in 0 .. 2
  BY <1>2
<1>4. /\ c \in [{0, 1} -> Buffers]
      /\ \A b \in {0, 1} : c[b].at = ep.buf[b].at
      /\ \A b \in {0, 1} : b # a => c[b] = ep.buf[b]
  BY <1>1, <1>2, DataContents DEF Buffers
<1>5. e = [ep EXCEPT !.owned = o, !.take = a, !.raised = r, !.buf = c]
  BY DEF Take, Endpoints
<1> HIDE DEF a, c, o, r, e
<1>6. /\ e \in Endpoints(in) /\ Keeps(e, ep) /\ e.raised = r
      /\ e.first = ep.first /\ e.owned = o /\ e.give = ep.give /\ e.hw = ep.hw
      /\ e.buf = c /\ e.xfer = ep.xfer
  BY <1>1, <1>3, <1>4, <1>5 DEF Endpoints, Keeps
<1> QED
  BY <1>4, <1>6 DEF e, o, r, a

\* ... and its second: a packet less to wait for.
LEMMA SettleSettles ==
  ASSUME NEW in \in BOOLEAN, NEW ep \in Endpoints(in), ep.halt = "none", ep.xfer.handle > 1
  PROVE  LET e == Settle(ep)
         IN  /\ e \in Endpoints(in) /\ Keeps(e, ep) /\ e.raised = ep.raised
             /\ e.first = ep.first /\ e.owned = ep.owned /\ e.give = ep.give /\ e.hw = ep.hw
             /\ e.buf = ep.buf
             /\ \A g, w : Counts(ep.xfer, g, w) => Counts(e.xfer, g, w - 1)
<1> DEFINE n == ep.xfer.handle - 1
           t == [ep.xfer EXCEPT !.handle = n]
           e == Settle(ep)
<1>0. ep.xfer \in Transfers
  BY DEF Endpoints
<1>1. n \in 0 .. 4 /\ n # 0
  BY <1>0 DEF Transfers
<1>2. t \in Transfers
  BY <1>0, <1>1 DEF Transfers
<1>3. e = [ep EXCEPT !.xfer = t]
  <2>1. e = [ep EXCEPT !.xfer.handle = n]
    BY <1>1 DEF Settle
  <2> HIDE DEF e, n
  <2> QED
    BY <2>1
<1> HIDE DEF t, e, n
<1>4. /\ e \in Endpoints(in) /\ Keeps(e, ep) /\ e.raised = ep.raised
      /\ e.first = ep.first /\ e.owned = ep.owned /\ e.give = ep.give /\ e.hw = ep.hw
      /\ e.buf = ep.buf /\ e.xfer = t
  BY <1>2, <1>3 DEF Endpoints, Keeps
<1>5. \A g, w : Counts(ep.xfer, g, w) => Counts(t, g, w - 1)
  BY <1>0 DEF Counts, Transfers, t, n
<1> QED
  BY <1>4, <1>5 DEF e

\* A hard reset of an endpoint, and with what a bus reset forgets.
LEMMA ResetIdles ==
  ASSUME NEW in \in BOOLEAN, NEW ep \in Endpoints(in)
  PROVE  LET e == Reset(ep, TRUE)
             f == [e EXCEPT !.raised = <<>>]
         IN  /\ e \in Endpoints(in) /\ Idle(e) /\ e.raised = ep.raised
             /\ f \in Endpoints(in) /\ Idle(f) /\ f.raised = <<>>
<1> DEFINE c == [b \in DOMAIN ep.buf |-> [ep.buf[b] EXCEPT !.at = "cpu"]]
           e == Reset(ep, TRUE)
           f == [e EXCEPT !.raised = <<>>]
<1>1. DOMAIN ep.buf = {0, 1} /\ ep.buf[0] \in Buffers /\ ep.buf[1] \in Buffers
  BY DEF Endpoints
<1>2. c \in [{0, 1} -> Buffers] /\ c[0].at = "cpu" /\ c[1].at = "cpu"
  BY <1>1 DEF Buffers
<1> DEFINE q == IF AtController(ep) # {} /\ (ep.bufs = 1 \/ ep.owned = 1) THEN 1 - ep.pid
                ELSE ep.pid
           d == ResetBuffers(ep)
           t == NoTransfer
           g == [ep EXCEPT !.buf = c, !.stall = FALSE, !.pid = q]
<1>3. q \in {0, 1} /\ t \in Transfers
  BY NoTransferFits DEF Endpoints
<1>6. /\ d = [g EXCEPT !.owned = 2, !.give = 0, !.take = 0, !.first = TRUE]
      /\ e = [d EXCEPT !.xfer = t, !.halt = "none", !.pid = 0]
  BY DEF Reset, ResetBuffers, Endpoints
<1>7. g \in Endpoints(in) /\ g.buf = c /\ g.stall = FALSE /\ g.raised = ep.raised
  <2> HIDE DEF c, q
  <2> QED
    BY <1>2, <1>3 DEF Endpoints
<1> HIDE DEF c, q, g, d, t, e
<1>8. /\ d \in Endpoints(in) /\ d.owned = 2 /\ d.give = 0 /\ d.first = TRUE
      /\ d.stall = FALSE /\ d.buf = c /\ d.raised = ep.raised
  <2>1. d.owned = 2 /\ d.give = 0 /\ d.stall = FALSE
    BY <1>6, <1>7 DEF Endpoints
  <2>4. d.first = TRUE
    BY <1>6, <1>7 DEF Endpoints
  <2>2. d.buf = c /\ d.raised = ep.raised
    BY <1>6, <1>7 DEF Endpoints
  <2>3. d \in Endpoints(in)
    <3> DEFINE h == [g EXCEPT !.owned = 2, !.give = 0]
    <3>1. h \in Endpoints(in)
      BY <1>7, SMTT(30) DEF Endpoints
    <3>2. d = [h EXCEPT !.take = 0, !.first = TRUE]
      BY <1>6
    <3> HIDE DEF h
    <3> QED
      BY <3>1, <3>2 DEF Endpoints
  <2> QED
    BY <2>1, <2>2, <2>3, <2>4
<1>4. /\ e \in Endpoints(in) /\ e.owned = 2 /\ e.give = 0 /\ e.first = TRUE
      /\ e.xfer = t /\ e.halt = "none" /\ e.stall = FALSE /\ e.buf = c
      /\ e.raised = ep.raised
  BY <1>3, <1>6, <1>8, SMTT(30) DEF Endpoints
<1>5. /\ f \in Endpoints(in) /\ f.owned = 2 /\ f.give = 0 /\ f.first = TRUE
      /\ f.xfer = t /\ f.halt = "none" /\ f.stall = FALSE /\ f.buf = c
      /\ f.raised = <<>>
  BY <1>4 DEF Endpoints
<1> HIDE DEF f
<1> QED
  BY <1>2, <1>4, <1>5 DEF Idle, e, f, t

\* The endpoints as they are made.
LEMMA NewIdles ==
  ASSUME NEW in \in BOOLEAN
  PROVE  LET e == Restart(NewEndpoint(in, 2), FALSE, NoData)
         IN  e \in Endpoints(in) /\ Idle(e) /\ e.raised = <<>>
<1> DEFINE n == NewEndpoint(in, 2)
           c == [b \in 0 .. 2 - 1 |-> [at |-> "cpu", pid |-> 0, data |-> NoData]]
<1>1. c \in [{0, 1} -> Buffers]
  BY Two, DataContents DEF Buffers
<1>2. n = [in |-> in, bufs |-> 2, owned |-> 0, give |-> 0, take |-> 0, first |-> FALSE,
           pid |-> 0, halt |-> "none", stall |-> FALSE, xfer |-> NoTransfer, buf |-> c,
           raised |-> <<>>, hw |-> 0]
  BY DEF NewEndpoint
<1> HIDE DEF n, c
<1>3. n \in Endpoints(in) /\ n.raised = <<>>
  BY <1>1, <1>2, NoTransferFits DEF Endpoints
<1> QED
  BY <1>3, ResetIdles DEF Restart, n

\* usb_start_transfer of what was reset: the transfer is there, and nothing given yet.
OnePacket == [kind |-> "iso", submit |-> 1, handle |-> 1, outstanding |-> FALSE]

LEMMA Starting ==
  ASSUME NEW in \in BOOLEAN, NEW ep \in Endpoints(in), Idle(ep), ep.raised = <<>>
  PROVE  LET e == [ep EXCEPT !.xfer = OnePacket]
         IN  /\ e \in Endpoints(in) /\ Counts(e.xfer, 1, 1) /\ e.owned = 2 /\ e.give = 0 /\ e.first
             /\ e.halt = "none" /\ ~ e.stall /\ e.raised = <<>> /\ e.buf = ep.buf
<1> DEFINE t == OnePacket
<1>1. t \in Transfers /\ Counts(t, 1, 1)
  BY DEF OnePacket, Transfers, Counts
<1> HIDE DEF t
<1> DEFINE e == [ep EXCEPT !.xfer = t]
<1>2. /\ e \in Endpoints(in) /\ e.xfer = t /\ e.owned = 2 /\ e.give = 0 /\ e.first
      /\ e.halt = "none" /\ ~ e.stall /\ e.raised = <<>> /\ e.buf = ep.buf
  BY <1>1 DEF Idle, Endpoints
<1> QED
  BY <1>1, <1>2 DEF t

\* Audio out: one buffer is given, for there is one packet in the transfer.
LEMMA RestartHears ==
  ASSUME NEW ep \in Endpoints(FALSE), ep.raised = <<>>
  PROVE  LET e == Restart(ep, TRUE, NoData)
         IN  Hears(e) /\ e.raised = <<>> /\ e.halt = "none"
<1> DEFINE r == Reset(ep, TRUE)
           f == [r EXCEPT !.xfer = OnePacket]
           g == Give(f, NoData)
<1>1. r \in Endpoints(FALSE) /\ Idle(r) /\ r.raised = <<>>
  BY ResetIdles
<1> HIDE DEF r
<1>2. /\ f \in Endpoints(FALSE) /\ Counts(f.xfer, 1, 1) /\ f.owned = 2 /\ f.give = 0 /\ f.first
      /\ f.halt = "none" /\ ~ f.stall /\ f.raised = <<>> /\ f.buf = r.buf
  BY <1>1, Starting
<1> HIDE DEF f
<1>3. f.xfer.submit > 0 /\ f.owned > 0 /\ NoData \in Contents
  BY <1>2, DataContents DEF Counts
<1>11. ~ f.in
  BY <1>2 DEF Endpoints
<1>4. /\ g \in Endpoints(FALSE) /\ Keeps(g, f) /\ g.raised = f.raised
      /\ ~ g.first /\ g.owned = f.owned - 1 /\ g.give = 1 - f.give
      /\ g.hw = (IF f.first THEN f.give ELSE f.hw)
      /\ g.buf[f.give].at = "hw" /\ g.buf[1 - f.give] = f.buf[1 - f.give]
      /\ \A a, w : Counts(f.xfer, a, w) => Counts(g.xfer, a - 1, w)
  <2> HIDE DEF g
  <2>1. FALSE \in BOOLEAN /\ f \in Endpoints(FALSE)
    BY <1>2
  <2>2. g = Give(f, NoData)
    BY DEF g
  <2> QED
    BY <1>3, <2>1, <2>2, GiveGives, Zenon
<1>5. GiveOne(f, NoData) = g
  BY <1>2, <1>3, <1>11 DEF GiveOne
<1> HIDE DEF g
<1>6. /\ g.halt = "none" /\ ~ g.stall /\ g.raised = <<>> /\ g.owned = 1 /\ g.give = 1 /\ g.hw = 0
      /\ g.buf[0].at = "hw" /\ g.buf[1].at = "cpu"
  BY <1>1, <1>2, <1>4 DEF Keeps, Idle
<1>7. Counts(g.xfer, 0, 1)
  <2>1. Counts(g.xfer, 1 - 1, 1)
    BY <1>2, <1>4
  <2> QED
    BY <2>1
<1>8. GiveOne(g, NoData) = g
  BY <1>7 DEF GiveOne, Counts
<1>9. Restart(ep, TRUE, NoData) = g
  BY <1>5, <1>8 DEF Restart, Start, GiveAsMany, r, f, OnePacket
<1>12. Runs(g, 0, 1)
  BY <1>4, <1>6, <1>7 DEF Runs
<1>10. OneOut(g)
  <2>1. g.give = 1 /\ 1 - g.give = 0
    BY <1>6
  <2> QED
    BY <1>6, <2>1 DEF OneOut
<1> QED
  BY <1>4, <1>6, <1>9, <1>10, <1>12 DEF Hears

\* Feedback: the transfer grows with every packet that is given.
LEMMA GrownAndGiven ==
  ASSUME NEW ep \in Endpoints(TRUE), ep.owned > 0, ep.halt = "none",
         NEW w \in 0 .. 3, Counts(ep.xfer, 1, w), NEW data \in Contents
  PROVE  LET e == GiveOne(ep, data)
         IN  /\ e \in Endpoints(TRUE) /\ Keeps(e, ep) /\ e.raised = ep.raised
             /\ ~ e.first /\ e.owned = ep.owned - 1 /\ e.give = 1 - ep.give
             /\ e.hw = (IF ep.first THEN ep.give ELSE ep.hw)
             /\ e.buf[ep.give].at = "hw" /\ e.buf[ep.give].data = data
             /\ e.buf[1 - ep.give] = ep.buf[1 - ep.give]
             /\ Counts(e.xfer, 1, w + 1)
<1> DEFINE f == Grow(ep)
           e == Give(f, data)
<1>1. ep.xfer.submit = 1 /\ ep.xfer.handle = w /\ ep.xfer.kind = "iso" /\ ep.in = TRUE
  BY DEF Counts, Endpoints
<1>2. /\ f \in Endpoints(TRUE) /\ Keeps(f, ep) /\ f.raised = ep.raised
      /\ f.first = ep.first /\ f.owned = ep.owned /\ f.give = ep.give /\ f.hw = ep.hw
      /\ f.buf = ep.buf
      /\ \A a, n : Counts(ep.xfer, a, n) => Counts(f.xfer, a + 1, n + 1)
  <2>1. ep.xfer.submit < 2 /\ ep.xfer.handle < 4 /\ TRUE \in BOOLEAN
    BY <1>1
  <2> QED
    BY <2>1, GrowGrows, Zenon
<1>3. GiveOne(ep, data) = e
  BY <1>1 DEF GiveOne
<1> HIDE DEF f
<1>4. Counts(f.xfer, 2, w + 1)
  <2>1. Counts(f.xfer, 1 + 1, w + 1)
    BY <1>2
  <2> QED
    BY <2>1
<1>5. f.owned > 0 /\ f.xfer.submit > 0
  BY <1>2, <1>4 DEF Counts
<1>6. /\ e \in Endpoints(TRUE) /\ Keeps(e, f) /\ e.raised = f.raised
      /\ ~ e.first /\ e.owned = f.owned - 1 /\ e.give = 1 - f.give
      /\ e.hw = (IF f.first THEN f.give ELSE f.hw)
      /\ e.buf[f.give].at = "hw" /\ e.buf[f.give].data = data
      /\ e.buf[1 - f.give] = f.buf[1 - f.give]
      /\ \A a, n : Counts(f.xfer, a, n) => Counts(e.xfer, a - 1, n)
  BY <1>2, <1>5, GiveGives
<1> HIDE DEF e
<1>7. Counts(e.xfer, 1, w + 1)
  <2>1. Counts(e.xfer, 2 - 1, w + 1)
    BY <1>4, <1>6
  <2> QED
    BY <2>1
<1> QED
  BY <1>2, <1>3, <1>6, <1>7 DEF Keeps

\* ... twice at the start, so that both buffers wait for the host.
LEMMA RestartTells ==
  ASSUME NEW ep \in Endpoints(TRUE), ep.raised = <<>>, NEW data \in Contents
  PROVE  LET e == Restart(ep, TRUE, data)
         IN  /\ Tells(e) /\ e.raised = <<>> /\ e.halt = "none"
             /\ e.buf[0].data = data /\ e.buf[1].data = data
<1> DEFINE r == Reset(ep, TRUE)
           f == [r EXCEPT !.xfer = OnePacket]
           g == GiveOne(f, data)
           h == GiveOne(g, data)
<1>1. r \in Endpoints(TRUE) /\ Idle(r) /\ r.raised = <<>>
  BY ResetIdles
<1> HIDE DEF r
<1>2. /\ f \in Endpoints(TRUE) /\ Counts(f.xfer, 1, 1) /\ f.owned = 2 /\ f.give = 0 /\ f.first
      /\ f.halt = "none" /\ ~ f.stall /\ f.raised = <<>> /\ f.buf = r.buf
  BY <1>1, Starting
<1> HIDE DEF f
<1>3. /\ g \in Endpoints(TRUE) /\ Keeps(g, f) /\ g.raised = f.raised
      /\ ~ g.first /\ g.owned = f.owned - 1 /\ g.give = 1 - f.give
      /\ g.hw = (IF f.first THEN f.give ELSE f.hw)
      /\ g.buf[f.give].at = "hw" /\ g.buf[f.give].data = data
      /\ g.buf[1 - f.give] = f.buf[1 - f.give]
      /\ Counts(g.xfer, 1, 1 + 1)
  <2>1. f.owned > 0 /\ 1 \in 0 .. 3
    BY <1>2
  <2> QED
    BY <1>2, <2>1, GrownAndGiven, Zenon
<1> HIDE DEF g
<1>4. /\ g.owned = 1 /\ g.give = 1 /\ g.hw = 0 /\ g.halt = "none" /\ ~ g.stall /\ g.raised = <<>>
      /\ g.buf[0].at = "hw" /\ g.buf[0].data = data /\ Counts(g.xfer, 1, 2)
  BY <1>2, <1>3 DEF Keeps
<1>5. /\ h \in Endpoints(TRUE) /\ Keeps(h, g) /\ h.raised = g.raised
      /\ ~ h.first /\ h.owned = g.owned - 1 /\ h.give = 1 - g.give
      /\ h.hw = (IF g.first THEN g.give ELSE g.hw)
      /\ h.buf[g.give].at = "hw" /\ h.buf[g.give].data = data
      /\ h.buf[1 - g.give] = g.buf[1 - g.give]
      /\ Counts(h.xfer, 1, 2 + 1)
  <2>1. g.owned > 0 /\ 2 \in 0 .. 3
    BY <1>4
  <2> QED
    BY <1>3, <1>4, <2>1, GrownAndGiven, Zenon
<1> HIDE DEF h
<1>6. /\ h.owned = 0 /\ h.give = 0 /\ h.hw = 0 /\ h.halt = "none" /\ ~ h.stall /\ h.raised = <<>>
      /\ h.buf[0].at = "hw" /\ h.buf[1].at = "hw"
      /\ h.buf[0].data = data /\ h.buf[1].data = data /\ Counts(h.xfer, 1, 3)
  BY <1>3, <1>4, <1>5 DEF Keeps
<1>7. Restart(ep, TRUE, data) = h
  BY DEF Restart, Start, GiveAsMany, r, f, g, h, OnePacket
<1>8. Runs(h, 1, 3)
  BY <1>5, <1>6 DEF Runs
<1>9. BothIn(h)
  <2>1. 1 - h.give = 1
    BY <1>6
  <2> QED
    BY <1>6, <2>1 DEF BothIn
<1> QED
  BY <1>5, <1>6, <1>7, <1>8, <1>9 DEF Tells

\* A packet from the host went through: its buffer is the processor's, and the other
\* is given.
LEMMA HearsOn ==
  ASSUME NEW ep, Hears(ep), ep.raised # <<>>, ep.halt = "none"
  PROVE  LET e == Handle(ep, NoData)
         IN  Hears(e) /\ e.raised = <<>> /\ e.halt = "none"
<1> DEFINE b == 1 - ep.give
           t == Take(ep)
           f == Grow(t)
           g == Give(f, NoData)
           s == Settle(g)
<1>1. /\ ep \in Endpoints(FALSE) /\ ~ ep.first /\ Counts(ep.xfer, 0, 1) /\ ~ ep.stall
      /\ ep.owned = 1 /\ ep.give \in {0, 1} /\ ep.raised = <<b>> /\ ep.hw = ep.give
      /\ ep.buf[b].at = "cpu" /\ ep.buf[ep.give].at = "cpu" /\ ~ ep.in
  BY DEF Hears, OneOut, Runs, Endpoints
<1>2. Tail(ep.raised) = <<>> /\ b \in {0, 1}
  BY <1>1
<1>3. /\ t \in Endpoints(FALSE) /\ Keeps(t, ep) /\ t.raised = Tail(ep.raised)
      /\ t.first = ep.first /\ t.owned = ep.owned + 1 /\ t.give = ep.give /\ t.hw = ep.hw
      /\ \A a \in {0, 1} : t.buf[a].at = ep.buf[a].at
      /\ t.xfer = ep.xfer
  <2>1. FALSE \in BOOLEAN /\ ep.owned < 2
    BY <1>1
  <2> QED
    BY <1>1, <2>1, TakeTakes, Zenon
<1>4. Handle(ep, NoData) = Settle(GiveAsMany(f, NoData))
  BY <1>1 DEF Handle, Counts
<1> HIDE DEF t
<1>5. t.owned = 2 /\ ~ t.first /\ t.halt = "none" /\ ~ t.stall /\ t.raised = <<>>
  BY <1>1, <1>2, <1>3 DEF Keeps
<1>6. /\ f \in Endpoints(FALSE) /\ Keeps(f, t) /\ f.raised = t.raised
      /\ f.first = t.first /\ f.owned = t.owned /\ f.give = t.give /\ f.hw = t.hw
      /\ f.buf = t.buf
      /\ \A a, n : Counts(t.xfer, a, n) => Counts(f.xfer, a + 1, n + 1)
  <2>1. t.xfer.submit < 2 /\ t.xfer.handle < 4 /\ FALSE \in BOOLEAN
    BY <1>1, <1>3 DEF Counts
  <2> QED
    BY <1>3, <2>1, GrowGrows, Zenon
<1> HIDE DEF f
<1>7. Counts(f.xfer, 1, 2)
  <2>1. Counts(f.xfer, 0 + 1, 1 + 1)
    BY <1>1, <1>3, <1>6
  <2> QED
    BY <2>1
<1>8. f.halt = "none" /\ ~ f.in /\ f.owned = 2
  BY <1>5, <1>6 DEF Keeps, Endpoints
<1>9. /\ g \in Endpoints(FALSE) /\ Keeps(g, f) /\ g.raised = f.raised
      /\ ~ g.first /\ g.owned = f.owned - 1 /\ g.give = 1 - f.give
      /\ g.hw = (IF f.first THEN f.give ELSE f.hw)
      /\ g.buf[f.give].at = "hw" /\ g.buf[1 - f.give] = f.buf[1 - f.give]
      /\ \A a, n : Counts(f.xfer, a, n) => Counts(g.xfer, a - 1, n)
  <2>1. f.xfer.submit > 0 /\ f.owned > 0 /\ NoData \in Contents /\ FALSE \in BOOLEAN
    BY <1>7, <1>8, DataContents DEF Counts
  <2> QED
    BY <1>6, <2>1, GiveGives, Zenon
<1>10. GiveOne(f, NoData) = g
  BY <1>7, <1>8 DEF GiveOne, Counts
<1> HIDE DEF g
<1>11. Counts(g.xfer, 0, 2)
  <2>1. Counts(g.xfer, 1 - 1, 2)
    BY <1>7, <1>9
  <2> QED
    BY <2>1
<1>12. GiveOne(g, NoData) = g
  BY <1>11 DEF GiveOne, Counts
<1>13. g.halt = "none" /\ ~ g.stall
  BY <1>5, <1>6, <1>9 DEF Keeps
<1>14. /\ s \in Endpoints(FALSE) /\ Keeps(s, g) /\ s.raised = g.raised
       /\ s.first = g.first /\ s.owned = g.owned /\ s.give = g.give /\ s.hw = g.hw
       /\ s.buf = g.buf
       /\ \A a, n : Counts(g.xfer, a, n) => Counts(s.xfer, a, n - 1)
  <2>1. g.xfer.handle > 1 /\ FALSE \in BOOLEAN
    BY <1>11 DEF Counts
  <2> QED
    BY <1>9, <1>13, <2>1, SettleSettles, Zenon
<1>15. Handle(ep, NoData) = s
  BY <1>4, <1>10, <1>12 DEF GiveAsMany
<1> HIDE DEF s
<1>16. Counts(s.xfer, 0, 1)
  <2>1. Counts(s.xfer, 0, 2 - 1)
    BY <1>11, <1>14
  <2> QED
    BY <2>1
<1>17. Runs(s, 0, 1) /\ s.halt = "none" /\ s.raised = <<>>
  BY <1>5, <1>6, <1>9, <1>13, <1>14, <1>16 DEF Runs, Keeps
<1>18. OneOut(s)
  <2>1. /\ s.give = b /\ s.owned = 1 /\ s.hw = ep.give /\ 1 - b = ep.give
        /\ s.buf = g.buf /\ g.buf[ep.give].at = "hw" /\ g.buf[b] = f.buf[b] /\ f.buf = t.buf
    BY <1>1, <1>3, <1>5, <1>6, <1>8, <1>9, <1>14
  <2>2. s.buf[s.give].at = "cpu" /\ s.buf[1 - s.give].at = "hw" /\ s.hw = 1 - s.give
    BY <1>1, <1>2, <1>3, <2>1
  <2> QED
    BY <1>17, <2>1, <2>2 DEF OneOut
<1> QED
  BY <1>14, <1>15, <1>17, <1>18 DEF Hears

\* The host read a packet: its buffer is given again.
LEMMA TellsOn ==
  ASSUME NEW ep, Tells(ep), ep.raised # <<>>, ep.halt = "none", NEW data \in Contents
  PROVE  LET e == Handle(ep, data)
         IN  /\ Tells(e) /\ e.raised = Tail(ep.raised) /\ e.halt = "none" /\ e.hw = ep.hw
             /\ e.buf[ep.give].data = data /\ e.buf[1 - ep.give] = ep.buf[1 - ep.give]
<1> DEFINE a == ep.give
           b == 1 - ep.give
           t == Take(ep)
           g == GiveOne(t, data)
           s == Settle(g)
<1>1. /\ ep \in Endpoints(TRUE) /\ ~ ep.first /\ Counts(ep.xfer, 1, 3) /\ ~ ep.stall /\ ep.in
      /\ ep.owned = 0 /\ a \in {0, 1} /\ b \in {0, 1} /\ a # b /\ 1 - b = a
  BY DEF Tells, BothIn, Runs, Endpoints
<1>2. \/ /\ ep.raised = <<a>> /\ ep.hw = b /\ ep.buf[b].at = "hw"
      \/ /\ ep.raised = <<a, b>> /\ ep.hw = a /\ ep.buf[b].at = "cpu"
  BY DEF Tells, BothIn
<1>3. /\ t \in Endpoints(TRUE) /\ Keeps(t, ep) /\ t.raised = Tail(ep.raised)
      /\ t.first = ep.first /\ t.owned = ep.owned + 1 /\ t.give = ep.give /\ t.hw = ep.hw
      /\ \A c \in {0, 1} : t.buf[c].at = ep.buf[c].at
      /\ \A c \in {0, 1} : c # Head(ep.raised) => t.buf[c] = ep.buf[c]
      /\ t.xfer = ep.xfer
  <2>1. ep.owned < 2 /\ TRUE \in BOOLEAN
    BY <1>1
  <2> QED
    BY <1>1, <2>1, TakeTakes, Zenon
<1>4. Handle(ep, data) = Settle(GiveAsMany(t, data))
  BY <1>1 DEF Handle, Counts
<1> HIDE DEF t
<1>5. /\ t.owned = 1 /\ ~ t.first /\ t.halt = "none" /\ ~ t.stall /\ t.give = a /\ t.hw = ep.hw
      /\ Counts(t.xfer, 1, 3) /\ t.buf[b] = ep.buf[b]
  <2>1. Head(ep.raised) = a
    BY <1>2
  <2> HIDE DEF a, b
  <2>2. t.buf[b] = ep.buf[b]
    BY <1>1, <1>3, <2>1, Zenon
  <2> QED
    BY <1>1, <1>3, <2>2 DEF Keeps, a
<1>6. /\ g \in Endpoints(TRUE) /\ Keeps(g, t) /\ g.raised = t.raised
      /\ ~ g.first /\ g.owned = t.owned - 1 /\ g.give = 1 - t.give
      /\ g.hw = (IF t.first THEN t.give ELSE t.hw)
      /\ g.buf[t.give].at = "hw" /\ g.buf[t.give].data = data
      /\ g.buf[1 - t.give] = t.buf[1 - t.give]
      /\ Counts(g.xfer, 1, 3 + 1)
  <2>1. t.owned > 0 /\ 3 \in 0 .. 3
    BY <1>5
  <2> QED
    BY <1>3, <1>5, <2>1, GrownAndGiven, Zenon
<1> HIDE DEF g
<1>7. /\ g.owned = 0 /\ g.give = b /\ g.hw = ep.hw /\ g.halt = "none" /\ ~ g.stall
      /\ g.buf[a].at = "hw" /\ g.buf[a].data = data /\ g.buf[b] = ep.buf[b]
      /\ Counts(g.xfer, 1, 4) /\ g.raised = Tail(ep.raised)
  BY <1>3, <1>5, <1>6 DEF Keeps
<1>8. GiveOne(g, data) = g
  BY <1>7 DEF GiveOne
<1>9. /\ s \in Endpoints(TRUE) /\ Keeps(s, g) /\ s.raised = g.raised
      /\ s.first = g.first /\ s.owned = g.owned /\ s.give = g.give /\ s.hw = g.hw
      /\ s.buf = g.buf
      /\ \A c, n : Counts(g.xfer, c, n) => Counts(s.xfer, c, n - 1)
  <2>1. g.xfer.handle > 1 /\ TRUE \in BOOLEAN
    BY <1>7 DEF Counts
  <2> QED
    BY <1>6, <1>7, <2>1, SettleSettles, Zenon
<1>10. Handle(ep, data) = s
  BY <1>4, <1>8 DEF GiveAsMany, g
<1> HIDE DEF s
<1>11. Counts(s.xfer, 1, 3)
  <2>1. Counts(s.xfer, 1, 4 - 1)
    BY <1>7, <1>9
  <2> QED
    BY <2>1
<1>12. Runs(s, 1, 3) /\ s.halt = "none" /\ s.raised = Tail(ep.raised) /\ s.hw = ep.hw
  BY <1>6, <1>7, <1>9, <1>11 DEF Runs, Keeps
<1>13. /\ s.owned = 0 /\ s.give = b /\ 1 - s.give = a
       /\ s.buf[a].at = "hw" /\ s.buf[a].data = data /\ s.buf[b] = ep.buf[b]
  BY <1>1, <1>7, <1>9
<1>14. BothIn(s)
  <2>1. CASE ep.raised = <<a>> /\ ep.hw = b /\ ep.buf[b].at = "hw"
    <3>1. s.raised = <<>>
      BY <1>12, <2>1
    <3> HIDE DEF a, b
    <3> QED
      BY <1>12, <1>13, <2>1, <3>1 DEF BothIn
  <2>2. CASE ep.raised = <<a, b>> /\ ep.hw = a /\ ep.buf[b].at = "cpu"
    <3>1. s.raised = <<b>>
      BY <1>12, <2>2
    <3> HIDE DEF a, b
    <3> QED
      BY <1>12, <1>13, <2>2, <3>1 DEF BothIn
  <2> QED
    BY <1>2, <2>1, <2>2
<1> QED
  BY <1>9, <1>10, <1>12, <1>13, <1>14 DEF Tells

\* A packet goes through the buffer at the controller's turn.
LEMMA ThroughRaises ==
  ASSUME NEW in \in BOOLEAN, NEW ep \in Endpoints(in), NEW data \in Contents,
         ep.raised = <<>> \/ ep.raised = <<1 - ep.hw>>
  PROVE  LET e == Through(ep, data)
         IN  /\ e \in Endpoints(in) /\ Keeps(e, ep) /\ e.raised = Append(ep.raised, ep.hw)
             /\ e.first = ep.first /\ e.owned = ep.owned /\ e.give = ep.give
             /\ e.hw = 1 - ep.hw /\ e.xfer = ep.xfer
             /\ e.buf[ep.hw].at = "cpu" /\ e.buf[ep.hw].data = data
             /\ e.buf[1 - ep.hw] = ep.buf[1 - ep.hw]
<1> DEFINE e == Through(ep, data)
           a == ep.hw
           b == 1 - ep.hw
           c == [ep.buf EXCEPT ![a].at = "cpu", ![a].data = data]
           r == Append(ep.raised, a)
<1>1. ep.hw \in {0, 1} /\ ep.buf \in [{0, 1} -> Buffers] /\ ep.bufs = 2
  BY DEF Endpoints
<1>2. OtherBuffer(ep, a) = b /\ b \in {0, 1} /\ a # b
  BY <1>1, Two DEF OtherBuffer
<1>3. /\ c \in [{0, 1} -> Buffers] /\ c[a].at = "cpu" /\ c[a].data = data /\ c[b] = ep.buf[b]
  BY <1>1, <1>2 DEF Buffers
<1>4. r \in {<<>>, <<0>>, <<1>>, <<0, 1>>, <<1, 0>>}
  <2>1. CASE ep.raised = <<>>
    BY <1>1, <2>1
  <2>2. CASE ep.raised = <<1 - ep.hw>>
    <3>1. r = <<1 - ep.hw, ep.hw>>
      BY <2>2, AppendOne
    <3>2. 1 - 0 = 1 /\ 1 - 1 = 0
      OBVIOUS
    <3> QED
      BY <1>1, <3>1, <3>2
  <2> QED
    BY <2>1, <2>2
<1>5. e = [ep EXCEPT !.buf = c, !.raised = r, !.hw = b]
  BY <1>1, <1>2 DEF Through, Endpoints
<1> HIDE DEF c, e, r
<1>6. /\ e \in Endpoints(in) /\ Keeps(e, ep) /\ e.raised = r
      /\ e.first = ep.first /\ e.owned = ep.owned /\ e.give = ep.give /\ e.hw = b
      /\ e.xfer = ep.xfer /\ e.buf = c
  BY <1>2, <1>3, <1>4, <1>5 DEF Endpoints, Keeps
<1> QED
  BY <1>3, <1>6 DEF e, r

\* The host sends a packet.
LEMMA HearsThrough ==
  ASSUME NEW ep, Hears(ep), Ready(ep), NEW data \in Contents
  PROVE  LET e == Through(ep, data)
         IN  /\ ep.raised = <<>> /\ e.raised = <<ep.hw>> /\ Hears(e) /\ e.halt = "none"
             /\ e.buf[ep.hw].data = data
<1> DEFINE a == ep.give
           b == 1 - ep.give
           e == Through(ep, data)
<1>1. /\ ep \in Endpoints(FALSE) /\ Runs(ep, 0, 1) /\ ~ ep.stall /\ ep.owned = 1
      /\ ep.raised = <<>> /\ ep.hw = b /\ a \in {0, 1} /\ ep.buf[a].at = "cpu"
  BY DEF Hears, Ready, OneOut, Endpoints
<1>2. 1 - b = a /\ Append(ep.raised, ep.hw) = <<b>>
  BY <1>1
<1>3. /\ e \in Endpoints(FALSE) /\ Keeps(e, ep) /\ e.raised = Append(ep.raised, ep.hw)
      /\ e.first = ep.first /\ e.owned = ep.owned /\ e.give = ep.give
      /\ e.hw = 1 - ep.hw /\ e.xfer = ep.xfer
      /\ e.buf[ep.hw].at = "cpu" /\ e.buf[ep.hw].data = data
      /\ e.buf[1 - ep.hw] = ep.buf[1 - ep.hw]
  <2>1. FALSE \in BOOLEAN
    OBVIOUS
  <2> QED
    BY <1>1, <2>1, ThroughRaises, Zenon
<1> HIDE DEF e
<1>4. e.halt = "none" /\ Runs(e, 0, 1)
  BY <1>1, <1>3 DEF Runs, Keeps
<1>5. /\ e.raised = <<b>> /\ e.hw = a /\ e.give = a /\ e.owned = 1
      /\ e.buf[b].at = "cpu" /\ e.buf[a].at = "cpu"
  BY <1>1, <1>2, <1>3
<1>6. OneOut(e)
  <2> HIDE DEF b
  <2>1. 1 - e.give = b
    BY <1>5 DEF b
  <2> QED
    BY <1>5, <2>1 DEF OneOut
<1> QED
  BY <1>1, <1>3, <1>4, <1>5, <1>6 DEF Hears, e

\* The host reads one.
LEMMA TellsThrough ==
  ASSUME NEW ep, Tells(ep), Ready(ep)
  PROVE  LET e == Through(ep, NoData)
         IN  /\ Tells(e) /\ e.halt = "none" /\ e.hw = 1 - ep.hw
             /\ ep.buf[ep.hw].at = "hw" /\ e.buf[ep.hw].at = "cpu"
             /\ e.buf[1 - ep.hw] = ep.buf[1 - ep.hw]
<1> DEFINE a == ep.give
           b == 1 - ep.give
           e == Through(ep, NoData)
<1>1. /\ ep \in Endpoints(TRUE) /\ Runs(ep, 1, 3) /\ ~ ep.stall /\ ep.owned = 0
      /\ a \in {0, 1} /\ 1 - b = a /\ b \in {0, 1} /\ ep.buf[ep.hw].at = "hw"
  BY DEF Tells, Ready, BothIn, Endpoints
<1>2. \/ ep.raised = <<>> /\ ep.hw = a /\ ep.buf[b].at = "hw"
      \/ ep.raised = <<a>> /\ ep.hw = b /\ ep.buf[a].at = "cpu"
  BY <1>1 DEF Tells, BothIn
<1>3. /\ e \in Endpoints(TRUE) /\ Keeps(e, ep) /\ e.raised = Append(ep.raised, ep.hw)
      /\ e.first = ep.first /\ e.owned = ep.owned /\ e.give = ep.give
      /\ e.hw = 1 - ep.hw /\ e.xfer = ep.xfer
      /\ e.buf[ep.hw].at = "cpu" /\ e.buf[ep.hw].data = NoData
      /\ e.buf[1 - ep.hw] = ep.buf[1 - ep.hw]
  <2>1. TRUE \in BOOLEAN /\ NoData \in Contents
    BY DataContents
  <2>2. ep.raised = <<>> \/ ep.raised = <<1 - ep.hw>>
    BY <1>1, <1>2
  <2> QED
    BY <1>1, <2>1, <2>2, ThroughRaises, Zenon
<1> HIDE DEF e
<1>4. e.halt = "none" /\ Runs(e, 1, 3)
  BY <1>1, <1>3 DEF Runs, Keeps
<1>5. e.give = a /\ 1 - e.give = b /\ e.owned = 0
  BY <1>1, <1>3
<1>6. BothIn(e)
  <2>1. CASE ep.raised = <<>> /\ ep.hw = a /\ ep.buf[b].at = "hw"
    <3>1. e.raised = <<a>> /\ e.hw = b /\ e.buf[a].at = "cpu" /\ e.buf[b].at = "hw"
      BY <1>3, <2>1
    <3> HIDE DEF a, b
    <3> QED
      BY <1>5, <3>1 DEF BothIn
  <2>2. CASE ep.raised = <<a>> /\ ep.hw = b /\ ep.buf[a].at = "cpu"
    <3>2. e.raised = <<a, b>>
      BY <1>3, <2>2, AppendOne
    <3>1. e.hw = a /\ e.buf[b].at = "cpu" /\ e.buf[a].at = "cpu"
      BY <1>1, <1>3, <2>2
    <3> HIDE DEF a, b
    <3> QED
      BY <1>5, <3>1, <3>2 DEF BothIn
  <2> QED
    BY <1>2, <2>1, <2>2
<1> QED
  BY <1>1, <1>3, <1>4, <1>6 DEF Tells, e

\* A halt leaves the buffers where they are.
LEMMA HaltKeeps ==
  ASSUME NEW ep
  PROVE  LET e == Stall(ep, "halted")
         IN  /\ Hears(ep) => Hears(e) /\ e.raised = ep.raised /\ e.hw = ep.hw /\ e.buf = ep.buf
             /\ Tells(ep) => Tells(e) /\ e.raised = ep.raised /\ e.hw = ep.hw /\ e.buf = ep.buf
<1> DEFINE e == Stall(ep, "halted")
<1>1. ASSUME NEW in \in BOOLEAN, ep \in Endpoints(in), NEW g, NEW w, Runs(ep, g, w)
      PROVE  /\ e \in Endpoints(in) /\ Runs(e, g, w)
             /\ e.raised = ep.raised /\ e.hw = ep.hw /\ e.buf = ep.buf
             /\ e.owned = ep.owned /\ e.give = ep.give
  <2>1. CASE ep.halt = "none"
    <3>1. e = [ep EXCEPT !.stall = TRUE, !.halt = "halted"]
      BY <2>1 DEF Stall
    <3> HIDE DEF e
    <3> QED
      BY <1>1, <3>1 DEF Endpoints, Runs
  <2>2. CASE ep.halt # "none"
    <3>1. e = [ep EXCEPT !.halt = "halted"]
      BY <2>2 DEF Stall
    <3> HIDE DEF e
    <3> QED
      BY <1>1, <2>2, <3>1 DEF Endpoints, Runs
  <2> QED
    BY <2>1, <2>2
<1> HIDE DEF e
<1>2. ASSUME Hears(ep)
      PROVE  Hears(e) /\ e.raised = ep.raised /\ e.hw = ep.hw /\ e.buf = ep.buf
  BY <1>1, <1>2 DEF Hears, OneOut
<1>3. ASSUME Tells(ep)
      PROVE  Tells(e) /\ e.raised = ep.raised /\ e.hw = ep.hw /\ e.buf = ep.buf
  BY <1>1, <1>3 DEF Tells, BothIn
<1> QED
  BY <1>2, <1>3 DEF e

\* What the two arrangements say of where the buffers are.
LEMMA HearsArranged ==
  ASSUME NEW ep, Hears(ep)
  PROVE  /\ ep \in Endpoints(FALSE) /\ ep.xfer.kind = "iso" /\ ep.halt \in {"none", "halted"}
         /\ ep.raised = <<>> \/ ep.raised = <<1 - ep.give>>
         /\ ep.raised = <<>> /\ ep.halt = "none" => Ready(ep)
<1> DEFINE b == 1 - ep.give
<1>1. ep \in Endpoints(FALSE) /\ ep.xfer.kind = "iso" /\ (ep.stall <=> ep.halt # "none")
  BY DEF Hears, Runs, Counts
<1>2. \/ ep.raised = <<>> /\ ep.hw = b /\ ep.buf[b].at = "hw"
      \/ ep.raised = <<b>>
  BY DEF Hears, OneOut
<1> HIDE DEF b
<1>3. ep.raised = <<>> /\ ep.halt = "none" => Ready(ep)
  BY <1>1, <1>2, OneAndTwo DEF Ready
<1>4. ep.halt \in {"none", "halted"}
  BY <1>1 DEF Endpoints
<1> QED
  BY <1>1, <1>2, <1>3, <1>4 DEF b

LEMMA TellsArranged ==
  ASSUME NEW ep, Tells(ep)
  PROVE  /\ ep \in Endpoints(TRUE) /\ ep.xfer.kind = "iso" /\ ep.halt \in {"none", "halted"}
         /\ \/ ep.raised = <<>>
            \/ ep.raised = <<ep.give>> /\ ep.hw = 1 - ep.give
            \/ ep.raised = <<ep.give, 1 - ep.give>> /\ ep.hw = ep.give
         /\ ep.raised = <<>> /\ ep.halt = "none" => Ready(ep)
<1> DEFINE a == ep.give
           b == 1 - ep.give
<1>1. ep \in Endpoints(TRUE) /\ ep.xfer.kind = "iso" /\ (ep.stall <=> ep.halt # "none")
  BY DEF Tells, Runs, Counts
<1>2. \/ ep.raised = <<>> /\ ep.hw = a /\ ep.buf[a].at = "hw"
      \/ ep.raised = <<a>> /\ ep.hw = b
      \/ ep.raised = <<a, b>> /\ ep.hw = a
  BY DEF Tells, BothIn
<1>5. \/ ep.raised = <<>>
      \/ ep.raised = <<ep.give>> /\ ep.hw = 1 - ep.give
      \/ ep.raised = <<ep.give, 1 - ep.give>> /\ ep.hw = ep.give
  <2>1. CASE ep.raised = <<>> /\ ep.hw = a /\ ep.buf[a].at = "hw"
    BY <2>1, Zenon
  <2>2. CASE ep.raised = <<a>> /\ ep.hw = b
    BY <2>2
  <2>3. CASE ep.raised = <<a, b>> /\ ep.hw = a
    BY <2>3
  <2> QED
    BY <1>2, <2>1, <2>2, <2>3
<1> HIDE DEF a, b
<1>3. ep.raised = <<>> /\ ep.halt = "none" => Ready(ep)
  BY <1>1, <1>2, OneAndTwo DEF Ready
<1>4. ep.halt \in {"none", "halted"}
  BY <1>1 DEF Endpoints
<1> QED
  BY <1>1, <1>3, <1>4, <1>5

-----------------------------------------------------------------------------
(***************************************************************************)
(* Every step keeps the invariant.                                         *)
(***************************************************************************)

LEMMA Numbers ==
  /\ NumPackets \in Nat /\ NumPackets > 3
  /\ \A n \in 0 .. NumPackets - 1 : (n + 1) % NumPackets \in 0 .. NumPackets - 1
  /\ 0 \in 0 .. NumPackets - 1
  /\ \A n \in 0 .. NumPackets - 1 : (n + 1) % NumPackets # n
BY StreamAssumption

LEMMA InitHolds == StreamInit => IInv
<1> SUFFICES ASSUME StreamInit PROVE IInv
  OBVIOUS
<1>1. out \in Endpoints(FALSE) /\ Idle(out) /\ out.raised = <<>>
  BY NewIdles, Zenon DEF StreamInit
<1>2. fb \in Endpoints(TRUE) /\ Idle(fb) /\ fb.raised = <<>>
  BY NewIdles, Zenon DEF StreamInit
<1>3. EndpointsInv
  <2>1. config = 0 /\ config # 1 /\ config \in {0, 1}
    BY DEF StreamInit
  <2> QED
    BY <1>1, <1>2, <2>1, Zenon DEF EndpointsInv
<1>4. WireInv
  BY <1>1, <1>2 DEF WireInv, StreamInit, Idle
<1>5. PacketsInv
  BY <1>1, Numbers DEF PacketsInv, StreamInit
<1>6. FeedbackInv
  <2>1. fb.buf[0].at = "cpu" /\ fb.buf[1].at = "cpu"
    BY <1>2, Zenon DEF Idle
  <2>2. rate \in Rates /\ told = rate /\ since = 3
    BY DEF StreamInit
  <2> QED
    BY <2>1, <2>2 DEF FeedbackInv
<1> QED
  BY <1>3, <1>4, <1>5, <1>6 DEF IInv

LEMMA IrqEnterKeeps == ASSUME IInv, IrqEnter PROVE IInv'
<1>1. /\ UNCHANGED <<out, fb, config, rate, request, reset_seen, accepted, consumed, told, since>>
      /\ irq = {} /\ irq' = Pending
  BY DEF IrqEnter, endpoints, linkVars
<1>2. EndpointsInv' /\ PacketsInv' /\ FeedbackInv'
  BY <1>1 DEF IInv, EndpointsInv, PacketsInv, FeedbackInv
<1>3. WireInv'
  BY <1>1 DEF IInv, WireInv, Pending
<1> QED
  BY <1>2, <1>3 DEF IInv

\* A setup packet is served with nothing raised, and leaves nothing raised.
LEMMA IrqSetupKeeps == ASSUME IInv, IrqSetup PROVE IInv'
<1>1. /\ UNCHANGED <<rate, reset_seen, accepted, consumed, told, since>>
      /\ "setup" \in irq /\ irq' = irq \ {"setup"} /\ request' = "none"
  BY DEF IrqSetup, linkVars
<1>2. request # "none" /\ irq \subseteq {"setup"} /\ out.raised = <<>> /\ fb.raised = <<>>
      /\ ~ reset_seen
  BY <1>1 DEF IInv, WireInv
<1>3. out \in Endpoints(FALSE) /\ fb \in Endpoints(TRUE) /\ config \in {0, 1}
  BY HearsArranged, TellsArranged DEF IInv, EndpointsInv
<1>4. rate \in Rates /\ rate \in Contents
  BY DataContents DEF IInv, FeedbackInv
<1> DEFINE OutStays == out'.raised = <<>> /\ (config' = 1 => Hears(out'))
                       /\ (config' = 0 => out' \in Endpoints(FALSE) /\ Idle(out'))
           FbStays  == fb'.raised = <<>> /\ (config' = 1 => Tells(fb'))
                       /\ (config' = 0 => fb' \in Endpoints(TRUE) /\ Idle(fb'))
           FbFresh  == \/ fb'.buf = fb.buf /\ fb'.hw = fb.hw
                       \/ fb'.buf[0].data = rate /\ fb'.buf[1].data = rate
                       \/ fb'.buf[0].at = "cpu" /\ fb'.buf[1].at = "cpu"
<1>5. config' \in {0, 1} /\ OutStays /\ FbStays /\ FbFresh
  <2>1. CASE request \in {"configure", "unconfigure"}
    <3>1. PICK c \in {0, 1} : /\ config' = c /\ out' = Restart(out, c # 0, NoData)
                              /\ fb' = Restart(fb, c # 0, rate)
      BY <2>1 DEF IrqSetup, Configure, FeedbackPacket
    <3>2. CASE c = 0
      <4>1. /\ out' \in Endpoints(FALSE) /\ Idle(out') /\ out'.raised = <<>>
            /\ fb' \in Endpoints(TRUE) /\ Idle(fb') /\ fb'.raised = <<>>
        BY <1>2, <1>3, <3>1, <3>2, ResetIdles DEF Restart
      <4>2. config' = 0 /\ config' # 1
        BY <3>1, <3>2
      <4>3. FbFresh
        BY <4>1, Zenon DEF Idle
      <4> QED
        BY <4>1, <4>2, <4>3, Zenon
    <3>3. CASE c = 1
      <4>1. Hears(out') /\ out'.raised = <<>>
        <5>1. out' = Restart(out, TRUE, NoData)
          BY <3>1, <3>3 DEF Restart
        <5> QED
          BY <1>2, <1>3, <5>1, RestartHears, Zenon
      <4>2. Tells(fb') /\ fb'.raised = <<>> /\ fb'.buf[0].data = rate /\ fb'.buf[1].data = rate
        <5>1. fb' = Restart(fb, TRUE, rate)
          BY <3>1, <3>3 DEF Restart
        <5> QED
          BY <1>2, <1>3, <1>4, <5>1, RestartTells, ZenonT(60)
      <4> QED
        BY <3>1, <3>3, <4>1, <4>2
    <3> QED
      BY <3>2, <3>3
  <2>2. CASE request \in {"halt_out", "clear_out"}
    <3>1. out' = Feature(out, request = "halt_out", NoData) /\ UNCHANGED <<fb, config>>
      BY <2>2 DEF IrqSetup
    <3>2. FbStays /\ FbFresh /\ config' \in {0, 1}
      BY <1>2, <1>3, <3>1 DEF IInv, EndpointsInv
    <3>3. CASE config = 0
      BY <1>2, <3>1, <3>2, <3>3 DEF IInv, EndpointsInv, Feature
    <3>4. CASE config = 1
      <4>0. Hears(out) /\ config # 0
        BY <3>4 DEF IInv, EndpointsInv
      <4>1. CASE request = "halt_out"
        <5>1. out' = Stall(out, "halted")
          BY <3>1, <4>0, <4>1 DEF Feature
        <5> QED
          BY <1>2, <3>1, <3>2, <3>4, <4>0, <5>1, HaltKeeps
      <4>2. CASE request # "halt_out"
        <5>1. out' = Restart(out, TRUE, NoData)
          BY <3>1, <4>0, <4>2 DEF Feature
        <5>2. Hears(out') /\ out'.raised = <<>>
          BY <1>2, <1>3, <5>1, RestartHears
        <5> QED
          BY <3>1, <3>2, <3>4, <5>2
      <4> QED
        BY <4>1, <4>2
    <3> QED
      BY <1>3, <3>3, <3>4
  <2>3. CASE request \notin {"configure", "unconfigure"} /\ request \notin {"halt_out", "clear_out"}
    <3>1. fb' = Feature(fb, request = "halt_fb", rate) /\ UNCHANGED <<out, config>>
      BY <2>3 DEF IrqSetup, FeedbackPacket
    <3>2. OutStays /\ config' \in {0, 1}
      BY <1>2, <1>3, <3>1 DEF IInv, EndpointsInv
    <3>3. CASE config = 0
      BY <1>2, <3>1, <3>2, <3>3 DEF IInv, EndpointsInv, Feature
    <3>4. CASE config = 1
      <4>0. Tells(fb) /\ config # 0
        BY <3>4 DEF IInv, EndpointsInv
      <4>1. CASE request = "halt_fb"
        <5>1. fb' = Stall(fb, "halted")
          BY <3>1, <4>0, <4>1 DEF Feature
        <5> QED
          BY <1>2, <3>1, <3>2, <3>4, <4>0, <5>1, HaltKeeps
      <4>2. CASE request # "halt_fb"
        <5>1. fb' = Restart(fb, TRUE, rate)
          BY <3>1, <4>0, <4>2 DEF Feature
        <5>2. Tells(fb') /\ fb'.raised = <<>> /\ fb'.buf[0].data = rate /\ fb'.buf[1].data = rate
          BY <1>2, <1>3, <1>4, <5>1, RestartTells, ZenonT(100)
        <5> QED
          BY <3>1, <3>2, <3>4, <5>2
      <4> QED
        BY <4>1, <4>2
    <3> QED
      BY <1>3, <3>3, <3>4
  <2> QED
    BY <2>1, <2>2, <2>3
<1>6. EndpointsInv'
  BY <1>5 DEF EndpointsInv
<1>7. WireInv'
  BY <1>1, <1>2, <1>5 DEF IInv, WireInv
<1>8. PacketsInv'
  BY <1>1, <1>2, <1>5 DEF IInv, PacketsInv
<1>9. FeedbackInv'
  BY <1>1, <1>4, <1>5 DEF IInv, FeedbackInv
<1> QED
  BY <1>6, <1>7, <1>8, <1>9 DEF IInv

\* The interrupt serves a buffer of each endpoint that raised one.
LEMMA IrqBuffersKeeps == ASSUME IInv, IrqBuffers PROVE IInv'
<1>1. /\ UNCHANGED <<config, rate, request, reset_seen, accepted, told, since>>
      /\ "buffers" \in irq /\ irq' = irq \ {"buffers"}
  BY DEF IrqBuffers
<1>2. request = "none"
  BY <1>1 DEF IInv, WireInv
<1>3. config \in {0, 1} /\ rate \in Rates /\ rate \in Contents
  BY DataContents DEF IInv, EndpointsInv, FeedbackInv
<1>4. WireInv'
  <2>1. out'.halt # "none" => out'.raised = <<>>
    <3>1. CASE out.raised = <<>>
      BY <3>1 DEF IrqBuffers, IInv, WireInv
    <3>2. CASE out.raised # <<>>
      <4>1. out.halt = "none" /\ out' = Handle(out, NoData)
        BY <3>2 DEF IrqBuffers, IInv, WireInv
      <4>2. Hears(out)
        BY <1>3, <3>2 DEF IInv, EndpointsInv
      <4> QED
        BY <3>2, <4>1, <4>2, HearsOn
    <3> QED
      BY <3>1, <3>2
  <2>2. fb'.halt # "none" => fb'.raised = <<>>
    <3>1. CASE fb.raised = <<>>
      BY <3>1 DEF IrqBuffers, IInv, WireInv
    <3>2. CASE fb.raised # <<>>
      <4>1. fb.halt = "none" /\ fb' = Handle(fb, rate)
        BY <3>2 DEF IrqBuffers, IInv, WireInv, FeedbackPacket
      <4>2. Tells(fb)
        BY <1>3, <3>2 DEF IInv, EndpointsInv
      <4> QED
        BY <1>3, <3>2, <4>1, <4>2, TellsOn
    <3> QED
      BY <3>1, <3>2
  <2> QED
    BY <1>1, <1>2, <2>1, <2>2 DEF IInv, WireInv
<1>5. /\ config' = 0 => out' \in Endpoints(FALSE) /\ Idle(out') /\ out'.raised = <<>>
      /\ config' = 1 => Hears(out')
      /\ PacketsInv'
  <2>1. CASE out.raised = <<>>
    <3>1. out' = out /\ consumed' = consumed
      BY <2>1 DEF IrqBuffers
    <3> QED
      BY <1>1, <3>1 DEF IInv, EndpointsInv, PacketsInv
  <2>2. CASE out.raised # <<>>
    <3>1. Hears(out) /\ config = 1 /\ out.halt = "none"
      BY <1>3, <2>2 DEF IInv, EndpointsInv, WireInv
    <3>2. out' = Handle(out, NoData) /\ consumed' = out.buf[Head(out.raised)].data
      BY <2>2, <3>1, HearsArranged DEF IrqBuffers, AudioPacket
    <3>3. Hears(out') /\ out'.raised = <<>>
      BY <2>2, <3>1, <3>2, HearsOn
    <3>4. consumed' = accepted /\ accepted \in 0 .. NumPackets - 1
      BY <2>2, <3>2 DEF IInv, PacketsInv
    <3> QED
      BY <1>1, <3>1, <3>3, <3>4 DEF PacketsInv
  <2> QED
    BY <2>1, <2>2
<1>6. /\ config' = 0 => fb' \in Endpoints(TRUE) /\ Idle(fb') /\ fb'.raised = <<>>
      /\ config' = 1 => Tells(fb')
      /\ FeedbackInv'
  <2>1. CASE fb.raised = <<>>
    <3>1. fb' = fb
      BY <2>1 DEF IrqBuffers
    <3> QED
      BY <1>1, <3>1 DEF IInv, EndpointsInv, FeedbackInv
  <2>2. CASE fb.raised # <<>>
    <3>1. Tells(fb) /\ config = 1 /\ fb.halt = "none"
      BY <1>3, <2>2 DEF IInv, EndpointsInv, WireInv
    <3>2. fb' = Handle(fb, rate)
      BY <2>2 DEF IrqBuffers, FeedbackPacket
    <3>3. /\ Tells(fb') /\ fb'.hw = fb.hw
          /\ fb'.buf[fb.give].data = rate /\ fb'.buf[1 - fb.give] = fb.buf[1 - fb.give]
      BY <1>3, <2>2, <3>1, <3>2, TellsOn
    <3>4. fb.give \in {0, 1} /\ 1 - fb.give \in {0, 1}
          /\ \A b \in {0, 1} : b = fb.give \/ b = 1 - fb.give
      BY <3>1 DEF Tells, Endpoints
    <3>5. FeedbackInv'
      BY <1>1, <1>3, <3>3, <3>4 DEF IInv, FeedbackInv
    <3> QED
      BY <1>1, <3>1, <3>3, <3>5
  <2> QED
    BY <2>1, <2>2
<1>7. EndpointsInv'
  BY <1>1, <1>3, <1>5, <1>6 DEF EndpointsInv
<1> QED
  BY <1>4, <1>5, <1>6, <1>7 DEF IInv

LEMMA IrqResetKeeps == ASSUME IInv, IrqReset PROVE IInv'
<1>1. /\ UNCHANGED <<rate, request, accepted, told, since>>
      /\ irq = {"reset"} /\ irq' = {} /\ config' = 0 /\ reset_seen' = FALSE /\ consumed' = accepted
      /\ out' = [Reset(out, TRUE) EXCEPT !.raised = <<>>]
      /\ fb' = [Reset(fb, TRUE) EXCEPT !.raised = <<>>]
  BY DEF IrqReset, Restart
<1>2. out \in Endpoints(FALSE) /\ fb \in Endpoints(TRUE)
  BY HearsArranged, TellsArranged DEF IInv, EndpointsInv
<1>3. out' \in Endpoints(FALSE) /\ Idle(out') /\ out'.raised = <<>>
  BY <1>1, <1>2, ResetIdles
<1>4. fb' \in Endpoints(TRUE) /\ Idle(fb') /\ fb'.raised = <<>>
  BY <1>1, <1>2, ResetIdles
<1>5. EndpointsInv'
  <2>1. config' = 0 /\ config' # 1 /\ config' \in {0, 1}
    BY <1>1
  <2> QED
    BY <1>3, <1>4, <2>1, Zenon DEF EndpointsInv
<1>6. WireInv'
  BY <1>1, <1>3, <1>4 DEF IInv, WireInv
<1>7. PacketsInv'
  BY <1>1, <1>3 DEF IInv, PacketsInv
<1>8. FeedbackInv'
  <2>1. fb'.buf[0].at = "cpu" /\ fb'.buf[1].at = "cpu"
    BY <1>4, Zenon DEF Idle
  <2> QED
    BY <1>1, <2>1 DEF IInv, FeedbackInv
<1> QED
  BY <1>5, <1>6, <1>7, <1>8 DEF IInv

LEMMA SetRateKeeps == ASSUME IInv, SetRate PROVE IInv'
<1>1. /\ UNCHANGED <<out, fb, config, request, reset_seen, irq, accepted, consumed, told>>
      /\ rate' \in Rates /\ since' = 0
  BY DEF SetRate, endpoints
<1>2. EndpointsInv' /\ WireInv' /\ PacketsInv'
  BY <1>1 DEF IInv, EndpointsInv, WireInv, PacketsInv
<1>3. FeedbackInv'
  BY <1>1 DEF IInv, FeedbackInv
<1> QED
  BY <1>2, <1>3 DEF IInv

LEMMA SendKeeps == ASSUME IInv, Send PROVE IInv'
<1>1. /\ UNCHANGED <<fb, config, rate, request, reset_seen, irq, consumed, told, since>>
      /\ request = "none" /\ ~ reset_seen /\ Ready(out)
      /\ accepted' = (accepted + 1) % NumPackets /\ out' = Through(out, accepted')
  BY DEF Send
<1>2. accepted \in 0 .. NumPackets - 1 /\ accepted' \in 0 .. NumPackets - 1 /\ accepted' \in Contents
  BY <1>1, Numbers, DataContents DEF IInv, PacketsInv
<1>3. config = 1 /\ Hears(out)
  <2>1. config # 0
    BY <1>1 DEF IInv, EndpointsInv, Idle, Ready, Endpoints
  <2> QED
    BY <2>1 DEF IInv, EndpointsInv
<1>4. /\ out.raised = <<>> /\ out'.raised = <<out.hw>> /\ Hears(out') /\ out'.halt = "none"
      /\ out'.buf[out.hw].data = accepted'
  BY <1>1, <1>2, <1>3, HearsThrough
<1>5. EndpointsInv'
  BY <1>1, <1>3, <1>4 DEF IInv, EndpointsInv
<1>6. WireInv'
  BY <1>1, <1>4 DEF IInv, WireInv
<1>7. PacketsInv'
  <2>1. out'.raised # <<>> /\ Head(out'.raised) = out.hw
    BY <1>4, OneAndTwo
  <2>2. consumed = accepted
    BY <1>4 DEF IInv, PacketsInv
  <2> QED
    BY <1>1, <1>2, <1>4, <2>1, <2>2 DEF PacketsInv
<1>8. FeedbackInv'
  BY <1>1 DEF IInv, FeedbackInv
<1> QED
  BY <1>5, <1>6, <1>7, <1>8 DEF IInv

LEMMA ReadKeeps == ASSUME IInv, Read PROVE IInv'
<1>1. /\ UNCHANGED <<out, config, rate, request, reset_seen, irq, accepted, consumed>>
      /\ request = "none" /\ ~ reset_seen /\ Ready(fb)
      /\ told' = fb.buf[fb.hw].data /\ since' = (IF since < 3 THEN since + 1 ELSE since)
      /\ fb' = Through(fb, NoData)
  BY DEF Read
<1>2. config = 1 /\ Tells(fb)
  <2>1. config # 0
    BY <1>1 DEF IInv, EndpointsInv, Idle, Ready, Endpoints
  <2> QED
    BY <2>1 DEF IInv, EndpointsInv
<1>3. /\ Tells(fb') /\ fb'.halt = "none" /\ fb'.hw = 1 - fb.hw
      /\ fb.buf[fb.hw].at = "hw" /\ fb'.buf[fb.hw].at = "cpu"
      /\ fb'.buf[1 - fb.hw] = fb.buf[1 - fb.hw]
  BY <1>1, <1>2, TellsThrough
<1>4. EndpointsInv'
  BY <1>1, <1>2, <1>3 DEF IInv, EndpointsInv
<1>5. WireInv'
  BY <1>1, <1>3 DEF IInv, WireInv
<1>6. PacketsInv'
  BY <1>1 DEF IInv, PacketsInv
<1>7. FeedbackInv'
  <2>1. fb.hw \in {0, 1} /\ 1 - fb.hw \in {0, 1} /\ fb.hw # 1 - fb.hw
        /\ \A b \in {0, 1} : b = fb.hw \/ b = 1 - fb.hw
    BY <1>2 DEF Tells, Endpoints
  <2>2. since \in 0 .. 3 /\ since' \in 0 .. 3 /\ rate \in Rates
    BY <1>1 DEF IInv, FeedbackInv
  <2>3. told' \in Rates /\ (since >= 2 => told' = rate)
    BY <1>1, <1>3, <2>1 DEF IInv, FeedbackInv
  <2>4. \A b \in {0, 1} : fb'.buf[b].at = "hw" => b = 1 - fb.hw /\ fb.buf[b].at = "hw"
    BY <1>3, <2>1
  <2>5. \A b \in {0, 1} :
          fb'.buf[b].at = "hw" => /\ fb'.buf[b].data \in Rates
                                  /\ since >= 1 => fb'.buf[b].data = rate
    BY <1>3, <2>1, <2>2, <2>4 DEF IInv, FeedbackInv
  <2>6. since' = 3 => since >= 2
    BY <1>1, <2>2
  <2>7. since' >= 2 => since >= 1
    BY <1>1, <2>2
  <2>8. \A b \in {0, 1} : fb'.buf[b].at = "hw" => b = fb'.hw
    BY <1>3, <2>4
  <2> QED
    BY <1>1, <2>2, <2>3, <2>5, <2>6, <2>7, <2>8 DEF FeedbackInv
<1> QED
  BY <1>4, <1>5, <1>6, <1>7 DEF IInv

LEMMA AskKeeps == ASSUME IInv, Ask PROVE IInv'
<1>1. /\ UNCHANGED <<out, fb, config, rate, reset_seen, irq, accepted, consumed, told, since>>
      /\ Quiet /\ request' \in StreamRequests
  BY DEF Ask, endpoints, linkVars
<1>2. irq = {} /\ out.raised = <<>> /\ fb.raised = <<>> /\ ~ reset_seen
  BY <1>1 DEF Quiet, Pending
<1>3. EndpointsInv' /\ PacketsInv' /\ FeedbackInv'
  BY <1>1 DEF IInv, EndpointsInv, PacketsInv, FeedbackInv
<1>4. WireInv'
  BY <1>1, <1>2 DEF IInv, WireInv
<1> QED
  BY <1>3, <1>4 DEF IInv

LEMMA BusResetKeeps == ASSUME IInv, BusReset PROVE IInv'
<1>1. /\ UNCHANGED <<out, fb, config, rate, request, irq, accepted, consumed, told, since>>
      /\ request = "none" /\ reset_seen' = TRUE
  BY DEF BusReset, endpoints, linkVars
<1>2. EndpointsInv' /\ PacketsInv' /\ FeedbackInv'
  BY <1>1 DEF IInv, EndpointsInv, PacketsInv, FeedbackInv
<1>3. WireInv'
  BY <1>1 DEF IInv, WireInv
<1> QED
  BY <1>2, <1>3 DEF IInv

LEMMA StepKeeps == ASSUME IInv, [StreamNext]_streamVars PROVE IInv'
<1>1. CASE UNCHANGED streamVars
  BY <1>1 DEF streamVars, endpoints, linkVars, IInv, EndpointsInv, WireInv, PacketsInv, FeedbackInv
<1>2. CASE StreamNext
  BY <1>2, IrqEnterKeeps, IrqSetupKeeps, IrqBuffersKeeps, IrqResetKeeps, SetRateKeeps, SendKeeps,
     ReadKeeps, AskKeeps, BusResetKeeps, Zenon DEF StreamNext, Irq, Host
<1> QED
  BY <1>1, <1>2

-----------------------------------------------------------------------------
(***************************************************************************)
(* What follows from it.                                                   *)
(***************************************************************************)

LEMMA TypeFollows == IInv => StreamTypeOK
<1> SUFFICES ASSUME IInv PROVE StreamTypeOK
  OBVIOUS
<1>1. ASSUME NEW in \in BOOLEAN, NEW ep \in Endpoints(in),
             ep.xfer = NoTransfer \/ Counts(ep.xfer, 0, 1) \/ Counts(ep.xfer, 1, 3)
      PROVE  /\ ep.bufs = 2 /\ ep.owned \in 0 .. 2
             /\ ep.give \in {0, 1} /\ ep.take \in {0, 1} /\ ep.hw \in {0, 1} /\ ep.pid \in {0, 1}
             /\ ep.halt \in {"none", "halted"} /\ ep.stall \in BOOLEAN
             /\ ep.xfer.kind \in {"none", "iso"} /\ ep.xfer.submit \in 0 .. 1
             /\ ep.xfer.handle \in 0 .. 3 /\ Len(ep.raised) <= 2
  <2>1. Len(ep.raised) <= 2
    <3>1. ep.raised \in {<<>>, <<0>>, <<1>>, <<0, 1>>, <<1, 0>>}
      BY <1>1 DEF Endpoints
    <3>2. Len(ep.raised) \in {0, 1, 2}
      BY <3>1, OneAndTwo, Zenon
    <3>3. \A n \in {0, 1, 2} : n <= 2
      OBVIOUS
    <3> QED
      BY <3>2, <3>3, Zenon
  <2>2. /\ ep.xfer.kind \in {"none", "iso"} /\ ep.xfer.submit \in 0 .. 1
        /\ ep.xfer.handle \in 0 .. 3
    BY <1>1 DEF NoTransfer, Counts
  <2>3. /\ ep.bufs = 2 /\ ep.owned \in 0 .. 2
        /\ ep.give \in {0, 1} /\ ep.take \in {0, 1} /\ ep.hw \in {0, 1} /\ ep.pid \in {0, 1}
        /\ ep.halt \in {"none", "halted"} /\ ep.stall \in BOOLEAN
    BY DEF Endpoints
  <2> QED
    BY <2>1, <2>2, <2>3, Zenon
<1>2. out \in Endpoints(FALSE) /\ (out.xfer = NoTransfer \/ Counts(out.xfer, 0, 1))
  BY DEF IInv, EndpointsInv, Hears, Runs, Idle
<1>3. fb \in Endpoints(TRUE) /\ (fb.xfer = NoTransfer \/ Counts(fb.xfer, 1, 3))
  BY DEF IInv, EndpointsInv, Tells, Runs, Idle
<1>4. /\ config \in {0, 1} /\ rate \in Rates /\ told \in Rates
      /\ request \in StreamRequests \cup {"none"} /\ irq \subseteq {"setup", "buffers", "reset"}
      /\ accepted \in 0 .. NumPackets - 1 /\ consumed \in 0 .. NumPackets - 1 /\ since \in 0 .. 3
  BY DEF IInv, EndpointsInv, WireInv, PacketsInv, FeedbackInv
<1> QED
  BY <1>1, <1>2, <1>3, <1>4, ZenonT(100) DEF StreamTypeOK

LEMMA AccountsFollow == IInv => BuffersAccounted
<1> SUFFICES ASSUME IInv PROVE Accounted(out) /\ Accounted(fb)
  BY DEF BuffersAccounted
<1>1. Cardinality({}) = 0 /\ \A a : Cardinality({a}) = 1
  BY FS_EmptySet, FS_Singleton
<1>2. Cardinality({0, 1}) = 2
  <2>1. {0, 1} = {0} \cup {1} /\ IsFiniteSet({0})
    BY FS_Singleton
  <2>2. Cardinality({0} \cup {1}) = Cardinality({0}) + 1
    BY <2>1, FS_AddElement
  <2>3. Cardinality({0}) = 1
    BY <1>1, Zenon
  <2> QED
    BY <2>1, <2>2, <2>3
<1>3. ASSUME NEW in \in BOOLEAN, NEW ep \in Endpoints(in), NEW S \in SUBSET {0, 1},
             ep.owned + Cardinality(S) + Len(ep.raised) = 2,
             \A b \in {0, 1} : ep.buf[b].at = "hw" <=> b \in S
      PROVE  Accounted(ep)
  <2>1. AtController(ep) = S
    BY <1>3 DEF AtController, Endpoints
  <2>3. ep.owned \in 0 .. 2 /\ ep.bufs = 2
    BY <1>3 DEF Endpoints
  <2> QED
    BY <1>3, <2>1, <2>3 DEF Accounted
<1>4. ASSUME NEW in \in BOOLEAN, NEW ep \in Endpoints(in), Idle(ep) PROVE Accounted(ep)
  BY <1>4, NoTransferFits DEF Accounted, Idle
<1>5. ASSUME NEW ep, Hears(ep) PROVE Accounted(ep)
  <2> DEFINE a == ep.give
             b == 1 - ep.give
  <2>1. /\ ep \in Endpoints(FALSE) /\ ep.owned = 1 /\ ep.buf[a].at = "cpu"
        /\ a \in {0, 1} /\ b \in {0, 1} /\ a # b /\ \A c \in {0, 1} : c = a \/ c = b
        /\ \/ ep.raised = <<>> /\ ep.buf[b].at = "hw"
           \/ ep.raised = <<b>> /\ ep.buf[b].at = "cpu"
    BY <1>5 DEF Hears, OneOut, Endpoints
  <2> HIDE DEF a, b
  <2>2. CASE ep.raised = <<>> /\ ep.buf[b].at = "hw"
    <3>1. \A c \in {0, 1} : ep.buf[c].at = "hw" <=> c \in {b}
      BY <2>1, <2>2
    <3>2. ep.owned + Cardinality({b}) + Len(ep.raised) = 2
      <4>1. Cardinality({b}) = 1
        BY <1>1, Zenon
      <4> QED
        BY <2>1, <2>2, <4>1
    <3>3. {b} \in SUBSET {0, 1} /\ FALSE \in BOOLEAN
      BY <2>1
    <3>4. ep \in Endpoints(FALSE)
      BY <2>1
    <3> QED
      BY <1>3, <3>1, <3>2, <3>3, <3>4, Zenon
  <2>3. CASE ep.raised = <<b>> /\ ep.buf[b].at = "cpu"
    <3>1. \A c \in {0, 1} : ep.buf[c].at = "hw" <=> c \in {}
      BY <2>1, <2>3
    <3>2. ep.owned + Cardinality({}) + Len(ep.raised) = 2
      <4>1. Cardinality({}) = 0
        BY <1>1, Zenon
      <4> QED
        BY <2>1, <2>3, <4>1
    <3>3. {} \in SUBSET {0, 1} /\ FALSE \in BOOLEAN
      BY <2>1
    <3>4. ep \in Endpoints(FALSE)
      BY <2>1
    <3> QED
      BY <1>3, <3>1, <3>2, <3>3, <3>4, Zenon
  <2> QED
    BY <2>1, <2>2, <2>3
<1>6. ASSUME NEW ep, Tells(ep) PROVE Accounted(ep)
  <2> DEFINE a == ep.give
             b == 1 - ep.give
  <2>1. /\ ep \in Endpoints(TRUE) /\ ep.owned = 0
        /\ a \in {0, 1} /\ b \in {0, 1} /\ a # b /\ \A c \in {0, 1} : c = a \/ c = b
        /\ \/ ep.raised = <<>> /\ ep.buf[a].at = "hw" /\ ep.buf[b].at = "hw"
           \/ ep.raised = <<a>> /\ ep.buf[a].at = "cpu" /\ ep.buf[b].at = "hw"
           \/ ep.raised = <<a, b>> /\ ep.buf[a].at = "cpu" /\ ep.buf[b].at = "cpu"
    BY <1>6 DEF Tells, BothIn, Endpoints
  <2> HIDE DEF a, b
  <2>2. CASE ep.raised = <<>> /\ ep.buf[a].at = "hw" /\ ep.buf[b].at = "hw"
    <3>1. \A c \in {0, 1} : ep.buf[c].at = "hw" <=> c \in {0, 1}
      BY <2>1, <2>2
    <3>2. ep.owned + Cardinality({0, 1}) + Len(ep.raised) = 2
      <4>1. Cardinality({0, 1}) = 2
        BY <1>2, Zenon
      <4> QED
        BY <2>1, <2>2, <4>1
    <3>3. {0, 1} \in SUBSET {0, 1} /\ TRUE \in BOOLEAN
      BY <2>1
    <3>4. ep \in Endpoints(TRUE)
      BY <2>1
    <3> QED
      BY <1>3, <3>1, <3>2, <3>3, <3>4, Zenon
  <2>3. CASE ep.raised = <<a>> /\ ep.buf[a].at = "cpu" /\ ep.buf[b].at = "hw"
    <3>1. \A c \in {0, 1} : ep.buf[c].at = "hw" <=> c \in {b}
      BY <2>1, <2>3
    <3>2. ep.owned + Cardinality({b}) + Len(ep.raised) = 2
      <4>1. Cardinality({b}) = 1
        BY <1>1, Zenon
      <4> QED
        BY <2>1, <2>3, <4>1
    <3>3. {b} \in SUBSET {0, 1} /\ TRUE \in BOOLEAN
      BY <2>1
    <3>4. ep \in Endpoints(TRUE)
      BY <2>1
    <3> QED
      BY <1>3, <3>1, <3>2, <3>3, <3>4, Zenon
  <2>4. CASE ep.raised = <<a, b>> /\ ep.buf[a].at = "cpu" /\ ep.buf[b].at = "cpu"
    <3>1. \A c \in {0, 1} : ep.buf[c].at = "hw" <=> c \in {}
      BY <2>1, <2>4
    <3>2. ep.owned + Cardinality({}) + Len(ep.raised) = 2
      <4>1. Cardinality({}) = 0
        BY <1>1, Zenon
      <4> QED
        BY <2>1, <2>4, <4>1
    <3>3. {} \in SUBSET {0, 1} /\ TRUE \in BOOLEAN
      BY <2>1
    <3>4. ep \in Endpoints(TRUE)
      BY <2>1
    <3> QED
      BY <1>3, <3>1, <3>2, <3>3, <3>4, Zenon
  <2> QED
    BY <2>1, <2>2, <2>3, <2>4
<1> QED
  BY <1>4, <1>5, <1>6 DEF IInv, EndpointsInv

LEMMA LivesFollow == IInv => EndpointsAlive
<1> SUFFICES ASSUME IInv, config # 0, Quiet, NEW ep \in {out, fb}, ep.halt = "none"
             PROVE  Ready(ep)
  BY DEF EndpointsAlive
<1>1. out.raised = <<>> /\ fb.raised = <<>>
  BY DEF Quiet, Pending
<1>2. Hears(out) /\ Tells(fb)
  BY DEF IInv, EndpointsInv
<1> QED
  BY <1>1, <1>2, HearsArranged, TellsArranged

-----------------------------------------------------------------------------
(***************************************************************************)
(* The theorems.                                                           *)
(***************************************************************************)

\* The endpoints, the wire, the packets and the feedback on their way are always as
\* IInv has them (usb_device.c:127-161, 284-310, 421-549).
THEOREM StreamInductive == StreamSpec => []IInv
<1>1. StreamInit => IInv
  BY InitHolds
<1>2. IInv /\ [StreamNext]_streamVars => IInv'
  BY StepKeeps
<1> QED
  BY <1>1, <1>2, PTL DEF StreamSpec

\* No buffer is lost and no stream dries up, whatever configurations, halts, bus
\* resets and packets came.
THEOREM StreamsStayAlive == StreamSpec => []StreamsAlive
<1>1. IInv => StreamsAlive
  BY TypeFollows, AccountsFollow, LivesFollow DEF StreamsAlive
<1> QED
  BY <1>1, StreamInductive, PTL

\* Feedback made for another rate is read at most twice after the rate changed.
THEOREM FeedbackFollows == StreamSpec => []FeedbackCatchesUp
<1>1. IInv => FeedbackCatchesUp
  BY DEF IInv, FeedbackInv, FeedbackCatchesUp
<1> QED
  BY <1>1, StreamInductive, PTL

\* Every packet the controller took reaches audio_out_packet, once and in order, and
\* none is left behind; only a bus reset drops any.
THEOREM PacketsArrive == StreamSpec => PacketsInOrder
<1>1. IInv /\ [StreamNext]_streamVars =>
        [consumed' # consumed =>
           consumed' = (consumed + 1) % NumPackets \/ irq = {"reset"}]_streamVars
  <2> SUFFICES ASSUME IInv, StreamNext, consumed' # consumed, irq # {"reset"}
               PROVE  consumed' = (consumed + 1) % NumPackets
    OBVIOUS
  <2>1. IrqBuffers /\ out.raised # <<>>
    BY DEF StreamNext, Irq, Host, IrqEnter, IrqSetup, IrqBuffers, IrqReset, SetRate, Send, Read, Ask,
           BusReset, linkVars
  <2>2. consumed' = out.buf[Head(out.raised)].data
    BY <2>1 DEF IrqBuffers, AudioPacket
  <2> QED
    BY <2>1, <2>2 DEF IInv, PacketsInv
<1>2. IInv => (Quiet => consumed = accepted)
  BY DEF IInv, PacketsInv, Quiet, Pending
<1> QED
  BY <1>1, <1>2, StreamInductive, PTL DEF StreamSpec, PacketsInOrder
===============================================================================
