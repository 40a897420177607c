---------------------------- MODULE UsbDacProofs ----------------------------
(***************************************************************************)
(* The sound card's safety properties, proved for rings, buffers and       *)
(* packets of any size, counts that wrap anywhere, any formats, and any    *)
(* rates far enough apart.  The inductive invariant has three parts: what  *)
(* is in the ring, which selection the main loop is about, and whether the *)
(* host is being steered.                                                  *)
(***************************************************************************)
EXTENDS UsbSoundCard, Modulo, SequenceTheorems, TLAPS

-----------------------------------------------------------------------------
(***************************************************************************)
(* The inductive invariant.                                                *)
(***************************************************************************)

\* The ring accepts packets exactly while there is a stream, and one that is about
\* to start finds it empty; buffers are only filled for a stream.
WalkInv ==
  /\ accepting <=> Streaming
  /\ pc = "accept" => RingLevel = 0 /\ ~playing /\ ~starting
  /\ starting => pc \in {"fill", "copy"}
  /\ pc \in {"fill", "copy"} => Streaming
  /\ pc = "copy" => left > 0 /\ room > 0

\* What is queued was queued in order, and stays while it is copied.
RingInv == RingIntact /\ WalkInv

\* What was read is one selection of the host's, if no other has come since.
SnapshotInv ==
  /\ generation <= stream_generation
  /\ selected \in [Generations -> (Alts \cup {0}) \X Rates]
  /\ selected[stream_generation] = <<alt, rate>>
  /\ pc \in Reading \ {"alt"} /\ generation = stream_generation => s_alt = alt
  /\ pc \in Reading \ {"alt", "rate"} /\ generation = stream_generation => s_rate = rate
  /\ pc \notin Reading \cup {"generation"} => selected[generation] = <<s_alt, s_rate>>
  /\ pc = "accept" => s_rate = out_rate

\* What plays is a selection read before or in this pass, and no packet still to
\* be handled is older.
PlayedInv ==
  /\ PlaysOneSelection
  /\ played_generation <= generation
  /\ rx # None => rx >= generation
  /\ playing /\ pc \notin Reading \cup {"clock", "decide", "generation"} =>
       generation = played_generation
  /\ starting => generation = played_generation

\* Of what is queued for a stream, nothing is older than its selection.
QueueInv ==
  Streaming =>
    \A k \in 0 .. RingFrames - 1 :
      k < RingLevel => Queued(k).sent >= played_generation

\* The feedback follows the gate, at the latest at the end of the pass.
Settled ==
  /\ fb_active <=> playing /\ gate_open
  /\ fb_active <=> feedback_value # 0

FeedbackInv ==
  /\ pc \in Reading \cup {"generation", "clock", "decide"} => Settled
  /\ pc = "reset" => ~playing
  /\ pc = "restart" => Settled
  /\ pc = "accept" => ~fb_active /\ feedback_value = 0 /\ ~gate_open
  /\ pc \in {"service", "fill", "copy", "feedback"} =>
       /\ fb_active <=> feedback_value # 0
       /\ Streaming /\ gate_open => fb_active \/ gate_just_opened
  /\ pc = "steer" => playing /\ gate_open /\ fb_active

IInv == RingInv /\ SnapshotInv /\ PlayedInv /\ QueueInv /\ FeedbackInv

-----------------------------------------------------------------------------
(***************************************************************************)
(* The frame counts and the ring.                                          *)
(***************************************************************************)

\* What the constants are to the lemmas on remainders.
LEMMA RingConstants ==
  /\ IndexModulus \in Nat \ {0} /\ RingFrames \in Nat \ {0}
  /\ RingFrames < IndexModulus
  /\ IndexModulus % RingFrames = 0
  /\ IndexModulus % IndexModulus = 0 /\ RingFrames % RingFrames = 0
<1>1. IndexModulus \in Nat \ {0} /\ RingFrames \in Nat \ {0} /\ RingFrames < IndexModulus
  BY RingAssumption
<1>2. \A m \in Nat \ {0} : m % m = 0
  <2> TAKE m \in Nat \ {0}
  <2>1. (m * 1 + 0) % m = 0
    BY ModUnique
  <2> QED
    BY <2>1
<1> QED
  BY <1>1, <1>2, RingAssumption

\* A count that goes on stays a count.
LEMMA PlusType ==
  ASSUME NEW i \in 0 .. IndexModulus - 1, NEW k \in Nat
  PROVE  Plus(i, k) \in 0 .. IndexModulus - 1
<1>1. i + k \in Int
  BY RingConstants
<1> QED
  BY <1>1, RingConstants, ModRange DEF Plus

\* Counting on in two steps is counting on in one.
LEMMA PlusPlus ==
  ASSUME NEW i \in 0 .. IndexModulus - 1, NEW j \in Nat, NEW k \in Nat
  PROVE  Plus(Plus(i, j), k) = Plus(i, j + k)
<1> DEFINE a == i + j
<1>1. a \in Int /\ k \in Int /\ a + k = i + (j + k)
  BY RingConstants
<1> HIDE DEF a
<1>2. ((a % IndexModulus) + k) % IndexModulus = (a + k) % IndexModulus
  BY <1>1, RingConstants, ModPlus
<1> QED
  BY <1>1, <1>2 DEF Plus, a

\* A count is the other one and the level between them.
LEMMA PlusLevel ==
  ASSUME NEW w \in 0 .. IndexModulus - 1, NEW r \in 0 .. IndexModulus - 1
  PROVE  /\ (w - r) % IndexModulus \in 0 .. IndexModulus - 1
         /\ Plus(r, (w - r) % IndexModulus) = w
<1> DEFINE a == w - r
<1>1. a \in Int /\ r \in Int /\ a + r = w
  BY RingConstants
<1> HIDE DEF a
<1>2. a % IndexModulus \in 0 .. IndexModulus - 1
  BY <1>1, RingConstants, ModRange
<1>3. ((a % IndexModulus) + r) % IndexModulus = (a + r) % IndexModulus
  BY <1>1, RingConstants, ModPlus
<1>4. w % IndexModulus = w
  BY RingConstants, ModSmall
<1>5. (a % IndexModulus) + r = r + (a % IndexModulus)
  BY <1>1, <1>2
<1> QED
  BY <1>1, <1>2, <1>3, <1>4, <1>5 DEF Plus, a

\* What is written adds to the level, what is read takes from it.
LEMMA LevelAfterWrite ==
  ASSUME NEW w \in 0 .. IndexModulus - 1, NEW r \in 0 .. IndexModulus - 1, NEW f \in Nat,
         ((w - r) % IndexModulus) + f < IndexModulus
  PROVE  (Plus(w, f) - r) % IndexModulus = ((w - r) % IndexModulus) + f
<1> DEFINE a == w + f
           b == w - r
           l == b % IndexModulus
<1>1. a \in Int /\ b \in Int /\ r \in Int /\ f \in Int /\ a - r = b + f
  BY RingConstants
<1>2. l \in 0 .. IndexModulus - 1
  BY PlusLevel
<1> HIDE DEF a, b
<1>3. ((a % IndexModulus) - r) % IndexModulus = (a - r) % IndexModulus
  BY <1>1, RingConstants, ModMinus, ZenonT(100)
<1>4. ((b % IndexModulus) + f) % IndexModulus = (b + f) % IndexModulus
  BY <1>1, RingConstants, ModPlus, ZenonT(100)
<1>5. l + f \in 0 .. IndexModulus - 1
  BY <1>1, <1>2, RingConstants DEF b
<1> HIDE DEF l
<1>6. (l + f) % IndexModulus = l + f
  BY <1>5, RingConstants, ModSmall
<1> QED
  BY <1>1, <1>3, <1>4, <1>6 DEF Plus, a, b, l

LEMMA LevelAfterRead ==
  ASSUME NEW w \in 0 .. IndexModulus - 1, NEW r \in 0 .. IndexModulus - 1, NEW f \in Nat,
         f <= (w - r) % IndexModulus
  PROVE  (w - Plus(r, f)) % IndexModulus = ((w - r) % IndexModulus) - f
<1> DEFINE a == r + f
           b == w - r
           l == b % IndexModulus
<1>1. a \in Int /\ b \in Int /\ w \in Int /\ f \in Int /\ w - a = b - f
  BY RingConstants
<1>2. l \in 0 .. IndexModulus - 1
  BY PlusLevel
<1> HIDE DEF a, b
<1>3. (w - (a % IndexModulus)) % IndexModulus = (w - a) % IndexModulus
  BY <1>1, RingConstants, ModTaken, ZenonT(100)
<1>4. ((b % IndexModulus) - f) % IndexModulus = (b - f) % IndexModulus
  BY <1>1, RingConstants, ModMinus, ZenonT(100)
<1>5. l - f \in 0 .. IndexModulus - 1
  BY <1>1, <1>2, RingConstants DEF b
<1> HIDE DEF l
<1>6. (l - f) % IndexModulus = l - f
  BY <1>5, RingConstants, ModSmall
<1> QED
  BY <1>1, <1>3, <1>4, <1>6 DEF Plus, a, b, l

\* The slot of the j-th frame queued, counted from the one written next.
LEMMA SlotBehind ==
  ASSUME NEW w \in 0 .. IndexModulus - 1, NEW r \in 0 .. IndexModulus - 1, NEW j \in Nat
  PROVE  /\ Slot(Plus(r, j)) \in 0 .. RingFrames - 1
         /\ (Slot(Plus(r, j)) - w) % RingFrames
              = (j - ((w - r) % IndexModulus)) % RingFrames
<1> DEFINE a == r + j
           b == w - r
<1>1. a \in Int /\ b \in Int /\ w \in Int /\ j \in Int /\ a - w = j - b
  BY RingConstants
<1> HIDE DEF a, b
<1>2. (a % IndexModulus) % RingFrames = a % RingFrames
  BY <1>1, RingConstants, ModOfMod
<1>3. ((a % RingFrames) - w) % RingFrames = (a - w) % RingFrames
  BY <1>1, RingConstants, ModMinus, ZenonT(100)
<1>4. (j - (b % IndexModulus)) % RingFrames = (j - b) % RingFrames
  BY <1>1, RingConstants, ModTaken, ZenonT(100)
<1>5. a % RingFrames \in 0 .. RingFrames - 1
  BY <1>1, RingConstants, ModRange
<1> QED
  BY <1>1, <1>2, <1>3, <1>4, <1>5 DEF Plus, Slot, a, b

\* ... which tells what is queued already from what a packet adds.
LEMMA SlotQueued ==
  ASSUME NEW w \in 0 .. IndexModulus - 1, NEW r \in 0 .. IndexModulus - 1, NEW j \in Nat,
         NEW f \in Nat, NEW l, l = (w - r) % IndexModulus, l + f <= RingFrames, j < l + f,
         NEW k, k = (Slot(Plus(r, j)) - w) % RingFrames
  PROVE  /\ k \in Nat
         /\ j < l => ~(k < f)
         /\ ~(j < l) => k < f /\ Plus(w, k) = Plus(r, j)
<1>1. l \in 0 .. IndexModulus - 1 /\ Plus(r, l) = w
  BY PlusLevel
<1>2. k = (j - l) % RingFrames
  BY SlotBehind
<1>3. l \in Nat /\ j \in Int /\ f \in Int /\ RingFrames \in Nat \ {0}
  BY <1>1, RingConstants
<1>4. CASE j < l
  <2> DEFINE n == (RingFrames + j) - l
             q == -1
  <2>1. n \in 0 .. RingFrames - 1 /\ j - l = RingFrames * q + n /\ q \in Int /\ ~(n < f)
    BY <1>3, <1>4
  <2> HIDE DEF n, q
  <2>2. (RingFrames * q + n) % RingFrames = n
    BY <1>3, <2>1, ModUnique
  <2>3. k = n
    BY <1>2, <2>1, <2>2
  <2> QED
    BY <1>4, <2>1, <2>3
<1>5. CASE ~(j < l)
  <2>1. j - l \in 0 .. RingFrames - 1 /\ j - l < f /\ j - l \in Nat /\ l + (j - l) = j
    BY <1>3, <1>5
  <2>2. (j - l) % RingFrames = j - l
    BY <1>3, <2>1, ModSmall
  <2>3. k = j - l
    BY <1>2, <2>2
  <2>4. Plus(Plus(r, l), j - l) = Plus(r, l + (j - l))
    BY <1>1, <2>1, PlusPlus
  <2> QED
    BY <1>1, <1>5, <2>1, <2>3, <2>4
<1> QED
  BY <1>4, <1>5

\* What giving frames back makes of it: the rest comes to the front.
LEMMA QueuedAfterRead ==
  ASSUME NEW w \in 0 .. IndexModulus - 1, NEW r \in 0 .. IndexModulus - 1,
         NEW f \in Nat, NEW l, l = (w - r) % IndexModulus, f <= l
  PROVE  /\ (w - Plus(r, f)) % IndexModulus = l - f
         /\ \A j \in Nat : Plus(Plus(r, f), j) = Plus(r, f + j)
<1>1. (w - Plus(r, f)) % IndexModulus = l - f
  BY LevelAfterRead
<1> QED
  BY <1>1, PlusPlus

-----------------------------------------------------------------------------
(***************************************************************************)
(* Types.  Only the ring's level needs more than the types themselves.     *)
(***************************************************************************)

\* What the interrupt and the clock write.
LEMMA UsbTypesStep ==
  ASSUME TypeOK, [Next]_vars
  PROVE  UsbTypes'
<1> USE DEF vars, usbVars, packetVars, seenVars, playVars, refuseVars, gateVars,
            fillVars, fbVars, outVars, ringVars, mainVars
<1>1. CASE \E a \in Alts \cup {0} : SetAlternate(a)
  <2> PICK a \in Alts \cup {0} : SetAlternate(a)
    BY <1>1
  <2>1. stream_generation' \in Generations /\ rx' \in Generations \cup {None}
    BY GenerationAssumption
       DEF UsbTypes, TypeOK, SetAlternate, PacketBehind, Generations
  <2> QED
    BY <2>1 DEF UsbTypes, TypeOK, SetAlternate
<1>2. CASE \E r \in Rates : SetRate(r)
  BY <1>2, GenerationAssumption DEF UsbTypes, TypeOK, PacketBehind, Generations, SetRate
<1>3. CASE \E frames \in PacketFrames : AudioOutPacket(frames)
  <2> PICK frames \in PacketFrames : AudioOutPacket(frames)
    BY <1>3
  <2>1. live' \in BOOLEAN /\ have_packet' \in BOOLEAN
    BY Zenon DEF UsbTypes, TypeOK, AudioOutPacket
  <2>2. rx' = None /\ age' \in 0 .. ClockModulus - 1 /\ quiet' \in 0 .. Timeout
    BY TimeAssumption DEF UsbTypes, TypeOK, AudioOutPacket
  <2> QED
    BY <2>1, <2>2 DEF UsbTypes, TypeOK, AudioOutPacket
<1>4. CASE Tick
  BY <1>4, TimeAssumption, ModRange DEF UsbTypes, TypeOK, Tick
<1>5. CASE UNCHANGED <<usbVars, packetVars>>
  BY <1>5 DEF UsbTypes, TypeOK
<1>6. \/ \E a \in Alts \cup {0} : SetAlternate(a)
      \/ \E r \in Rates : SetRate(r)
      \/ \E frames \in PacketFrames : AudioOutPacket(frames)
      \/ Tick
      \/ UNCHANGED <<usbVars, packetVars>>
  BY DEF Next, MainLoop, UsbInterrupt, SetAlternate, SetRate, AudioOutPacket,
         Tick, Drain, ReadGeneration, ReadAlt, ReadRate, ReadPacket, ReadLast,
         CheckGeneration, ReadClock, Stop, PlayOn, StopFeedback, NoStart, Start,
         Accept, Service, Skip, FillSilence, FillBegin, FillEnd, ServiceEnd,
         NoFeedback, Measure, Steer
<1> QED
  BY <1>1, <1>2, <1>3, <1>4, <1>5, <1>6

\* What stream_update reads and remembers.
LEMMA SeenTypesStep ==
  ASSUME TypeOK, [Next]_vars
  PROVE  SeenTypes'
<1> USE DEF vars, usbVars, packetVars, seenVars, playVars, refuseVars, gateVars,
            fillVars, fbVars, outVars, ringVars, mainVars
<1>1. CASE ReadGeneration
  BY <1>1 DEF SeenTypes, TypeOK, UsbTypes, ReadGeneration
<1>2. CASE ReadAlt
  BY <1>2 DEF SeenTypes, TypeOK, UsbTypes, ReadAlt
<1>3. CASE ReadRate
  BY <1>3 DEF SeenTypes, TypeOK, UsbTypes, ReadRate
<1>4. CASE ReadPacket
  BY <1>4 DEF SeenTypes, TypeOK, UsbTypes, ReadPacket
<1>5. CASE ReadLast
  BY <1>5 DEF SeenTypes, TypeOK, UsbTypes, ReadLast
<1>6. CASE ReadClock
  <2>1. want' \in BOOLEAN /\ any_packet' \in BOOLEAN
    BY <1>6, Zenon DEF ReadClock
  <2> QED
    BY <1>6, <2>1, TimeAssumption DEF SeenTypes, TypeOK, ReadClock
<1>7. CASE NoStart
  BY <1>7 DEF SeenTypes, TypeOK, StillRefused, NoStart
<1>8. CASE Start
  BY <1>8 DEF SeenTypes, TypeOK, Start
<1>9. CASE UNCHANGED <<seenVars, refuseVars>>
  BY <1>9 DEF SeenTypes, TypeOK
<1>10. \/ ReadGeneration
       \/ ReadAlt
       \/ ReadRate
       \/ ReadPacket
       \/ ReadLast
       \/ ReadClock
       \/ NoStart
       \/ Start
       \/ UNCHANGED <<seenVars, refuseVars>>
  BY DEF Next, MainLoop, UsbInterrupt, SetAlternate, SetRate, AudioOutPacket,
         Tick, Drain, ReadGeneration, ReadAlt, ReadRate, ReadPacket, ReadLast,
         CheckGeneration, ReadClock, Stop, PlayOn, StopFeedback, NoStart, Start,
         Accept, Service, Skip, FillSilence, FillBegin, FillEnd, ServiceEnd,
         NoFeedback, Measure, Steer
<1> QED
  BY <1>1, <1>2, <1>3, <1>4, <1>5, <1>6, <1>7, <1>8, <1>9, <1>10

\* What the main loop plays, and where it is.
LEMMA PlayTypesStep ==
  ASSUME TypeOK, [Next]_vars
  PROVE  PlayTypes'
<1> USE DEF vars, usbVars, packetVars, seenVars, playVars, refuseVars, gateVars,
            fillVars, fbVars, outVars, ringVars, mainVars
<1>1. CASE ReadGeneration
  BY <1>1 DEF PlayTypes, TypeOK, SeenTypes, Goto, ReadGeneration
<1>2. CASE ReadAlt
  BY <1>2 DEF PlayTypes, TypeOK, SeenTypes, Goto, ReadAlt
<1>3. CASE ReadRate
  BY <1>3 DEF PlayTypes, TypeOK, SeenTypes, Goto, ReadRate
<1>4. CASE ReadPacket
  BY <1>4 DEF PlayTypes, TypeOK, SeenTypes, Goto, ReadPacket
<1>5. CASE ReadLast
  BY <1>5 DEF PlayTypes, TypeOK, SeenTypes, Goto, ReadLast
<1>6. CASE CheckGeneration
  BY <1>6 DEF PlayTypes, TypeOK, SeenTypes, Goto, CheckGeneration
<1>7. CASE ReadClock
  BY <1>7 DEF PlayTypes, TypeOK, SeenTypes, Goto, ReadClock
<1>8. CASE Stop
  BY <1>8 DEF PlayTypes, TypeOK, SeenTypes, Goto, Stop
<1>9. CASE PlayOn
  BY <1>9 DEF PlayTypes, TypeOK, SeenTypes, Goto, PlayOn
<1>10. CASE StopFeedback
  BY <1>10 DEF PlayTypes, TypeOK, SeenTypes, Goto, StopFeedback
<1>11. CASE NoStart
  BY <1>11 DEF PlayTypes, TypeOK, SeenTypes, Goto, NoStart
<1>12. CASE Start
  BY <1>12 DEF PlayTypes, TypeOK, SeenTypes, Goto, Start
<1>13. CASE Accept
  BY <1>13 DEF PlayTypes, TypeOK, SeenTypes, Goto, Accept
<1>14. CASE Service
  BY <1>14 DEF PlayTypes, TypeOK, SeenTypes, Goto, Service
<1>15. CASE FillBegin
  BY <1>15 DEF PlayTypes, TypeOK, SeenTypes, Goto, FillBegin
<1>16. CASE FillEnd
  BY <1>16 DEF PlayTypes, TypeOK, SeenTypes, Goto, FillEnd
<1>17. CASE ServiceEnd
  BY <1>17 DEF PlayTypes, TypeOK, SeenTypes, Goto, ServiceEnd
<1>18. CASE NoFeedback
  BY <1>18 DEF PlayTypes, TypeOK, SeenTypes, Goto, NoFeedback
<1>19. CASE Measure
  BY <1>19 DEF PlayTypes, TypeOK, SeenTypes, Goto, Measure
<1>20. CASE Steer
  BY <1>20 DEF PlayTypes, TypeOK, SeenTypes, Goto, Steer
<1>21. CASE UNCHANGED <<playVars, accepting, starting, pc>>
  BY <1>21 DEF PlayTypes, TypeOK
<1>22. \/ ReadGeneration
       \/ ReadAlt
       \/ ReadRate
       \/ ReadPacket
       \/ ReadLast
       \/ CheckGeneration
       \/ ReadClock
       \/ Stop
       \/ PlayOn
       \/ StopFeedback
       \/ NoStart
       \/ Start
       \/ Accept
       \/ Service
       \/ FillBegin
       \/ FillEnd
       \/ ServiceEnd
       \/ NoFeedback
       \/ Measure
       \/ Steer
       \/ UNCHANGED <<playVars, accepting, starting, pc>>
  BY DEF Next, MainLoop, UsbInterrupt, SetAlternate, SetRate, AudioOutPacket,
         Tick, Drain, ReadGeneration, ReadAlt, ReadRate, ReadPacket, ReadLast,
         CheckGeneration, ReadClock, Stop, PlayOn, StopFeedback, NoStart, Start,
         Accept, Service, Skip, FillSilence, FillBegin, FillEnd, ServiceEnd,
         NoFeedback, Measure, Steer
<1> QED
  BY <1>1, <1>2, <1>3, <1>4, <1>5, <1>6, <1>7, <1>8, <1>9, <1>10, <1>11, <1>12,
     <1>13, <1>14, <1>15, <1>16, <1>17, <1>18, <1>19, <1>20, <1>21, <1>22

\* The walk over the buffers: RingInv has it that a copy has a free one.
LEMMA FillTypesStep ==
  ASSUME TypeOK, RingInv, [Next]_vars
  PROVE  FillTypes'
<1> USE DEF vars, usbVars, packetVars, seenVars, playVars, refuseVars, gateVars,
            fillVars, fbVars, outVars, ringVars, mainVars
<1>1. CASE Drain
  BY <1>1, RingAssumption DEF FillTypes, TypeOK, Drain
<1>2. CASE Start
  BY <1>2 DEF FillTypes, TypeOK, SeenTypes, Start
<1>3. CASE Accept
  BY <1>3, RingAssumption DEF FillTypes, TypeOK, WalkBegins, Accept
<1>4. CASE Service
  BY <1>4, RingAssumption DEF FillTypes, TypeOK, WalkBegins, Service
<1>5. CASE Skip
  BY <1>5, RingAssumption DEF FillTypes, TypeOK, Skip
<1>6. CASE FillSilence
  BY <1>6, RingAssumption DEF FillTypes, TypeOK, FindsFree, FilledOne, FillSilence
<1>7. CASE FillBegin
  BY <1>7, RingAssumption, ModRange
     DEF FillTypes, TypeOK, RingTypes, RingLevel, FillBegin
<1>8. CASE FillEnd
  <2>1. /\ left' \in 0 .. NumBuffers /\ todo' \in 0 .. left' /\ room' \in 0 .. NumBuffers
        /\ level' \in 0 .. RingFrames
    BY <1>8, RingAssumption
       DEF FillTypes, TypeOK, FilledOne, RingInv, WalkInv, At, FillEnd
  <2>2. gate_open' \in BOOLEAN /\ gate_just_opened' \in BOOLEAN /\ out_rate' \in Rates
    BY <1>8 DEF FillTypes, TypeOK, FillEnd
  <2> QED
    BY <2>1, <2>2 DEF FillTypes
<1>9. CASE Measure
  BY <1>9 DEF FillTypes, TypeOK, Measure
<1>10. CASE UNCHANGED <<left, todo, level, gateVars, outVars>>
  BY <1>10 DEF FillTypes, TypeOK
<1>11. \/ Drain
       \/ Start
       \/ Accept
       \/ Service
       \/ Skip
       \/ FillSilence
       \/ FillBegin
       \/ FillEnd
       \/ Measure
       \/ UNCHANGED <<left, todo, level, gateVars, outVars>>
  BY DEF Next, MainLoop, UsbInterrupt, SetAlternate, SetRate, AudioOutPacket,
         Tick, Drain, ReadGeneration, ReadAlt, ReadRate, ReadPacket, ReadLast,
         CheckGeneration, ReadClock, Stop, PlayOn, StopFeedback, NoStart, Start,
         Accept, Service, Skip, FillSilence, FillBegin, FillEnd, ServiceEnd,
         NoFeedback, Measure, Steer
<1> QED
  BY <1>1, <1>2, <1>3, <1>4, <1>5, <1>6, <1>7, <1>8, <1>9, <1>10, <1>11

\* The feedback.
LEMMA FeedbackTypesStep ==
  ASSUME TypeOK, [Next]_vars
  PROVE  FeedbackTypes'
<1> USE DEF vars, usbVars, packetVars, seenVars, playVars, refuseVars, gateVars,
            fillVars, fbVars, outVars, ringVars, mainVars
<1>1. CASE StopFeedback
  BY <1>1 DEF FeedbackTypes, TypeOK, FeedbackReset, StopFeedback
<1>2. CASE Accept
  BY <1>2 DEF FeedbackTypes, TypeOK, FeedbackReset, Accept
<1>3. CASE NoFeedback
  BY <1>3 DEF FeedbackTypes, TypeOK, FeedbackReset, NoFeedback
<1>4. CASE Measure
  BY <1>4 DEF FeedbackTypes, TypeOK, UsbTypes, Measure
<1>5. CASE Steer
  BY <1>5 DEF FeedbackTypes, TypeOK, Steer
<1>6. CASE UNCHANGED <<fbVars>>
  BY <1>6 DEF FeedbackTypes, TypeOK
<1>7. \/ StopFeedback
      \/ Accept
      \/ NoFeedback
      \/ Measure
      \/ Steer
      \/ UNCHANGED <<fbVars>>
  BY DEF Next, MainLoop, UsbInterrupt, SetAlternate, SetRate, AudioOutPacket,
         Tick, Drain, ReadGeneration, ReadAlt, ReadRate, ReadPacket, ReadLast,
         CheckGeneration, ReadClock, Stop, PlayOn, StopFeedback, NoStart, Start,
         Accept, Service, Skip, FillSilence, FillBegin, FillEnd, ServiceEnd,
         NoFeedback, Measure, Steer
<1> QED
  BY <1>1, <1>2, <1>3, <1>4, <1>5, <1>6, <1>7

-----------------------------------------------------------------------------
(***************************************************************************)
(* The ring.  RingInv and PlayedInv say the same of it in two ways: every  *)
(* frame queued is the one of its index, and of the selection that plays   *)
(* or a later one.                                                         *)
(***************************************************************************)

\* How many frames can be queued.
LEMMA LevelType ==
  ASSUME TypeOK
  PROVE  RingLevel \in 0 .. RingFrames
BY PlusLevel, RingConstants DEF TypeOK, RingTypes, RingLevel

LEMMA UnpackQueues ==
  ASSUME TypeOK, NEW frames \in Nat, NEW sent \in Generations, Unpack(frames, sent),
         UNCHANGED <<read_index, accepting>>
  PROVE  /\ RingTypes'
         /\ \/ RingLevel' = RingLevel /\ UNCHANGED ring
            \/ /\ accepting
               /\ RingLevel' = RingLevel + frames
               /\ \A k \in Nat :
                    /\ k < RingLevel => Queued(k)' = Queued(k)
                    /\ ~(k < RingLevel) /\ k < RingLevel + frames =>
                         Queued(k)' = [index |-> Plus(read_index, k), sent |-> sent]
<1>1. CASE accepting /\ frames <= RingFree
  <2>1. /\ write_index \in 0 .. IndexModulus - 1 /\ read_index \in 0 .. IndexModulus - 1
        /\ DOMAIN ring = 0 .. RingFrames - 1
    BY DEF TypeOK, RingTypes
  <2>2. write_index' = Plus(write_index, frames)
    BY <1>1 DEF Unpack
  <2>3. ring' = [s \in DOMAIN ring |->
                  LET k == (s - write_index) % RingFrames
                  IN  IF k < frames
                        THEN [index |-> Plus(write_index, k), sent |-> sent]
                        ELSE ring[s]]
    BY <1>1 DEF Unpack
  <2>4. RingLevel + frames <= RingFrames
    BY <1>1, LevelType, RingConstants DEF RingFree
  <2>5. RingLevel = (write_index - read_index) % IndexModulus
    BY DEF RingLevel
  <2>6. ASSUME NEW j \in Nat, j < RingLevel + frames
        PROVE  /\ j < RingLevel => Queued(j)' = Queued(j)
               /\ ~(j < RingLevel) =>
                    Queued(j)' = [index |-> Plus(read_index, j), sent |-> sent]
    <3> DEFINE i == Plus(read_index, j)
               s == Slot(i)
               k == (s - write_index) % RingFrames
    <3>1. s \in DOMAIN ring
      BY <2>1, SlotBehind
    <3>2. /\ j < RingLevel => ~(k < frames)
          /\ ~(j < RingLevel) => k < frames /\ Plus(write_index, k) = i
      BY <2>1, <2>4, <2>5, <2>6, SlotQueued
    <3>3. ring'[s] = IF k < frames THEN [index |-> Plus(write_index, k), sent |-> sent]
                                   ELSE ring[s]
      BY <2>3, <3>1
    <3>4. Queued(j)' = ring'[s]
      BY DEF Queued, Slot, Plus
    <3> HIDE DEF i, s, k
    <3> QED
      BY <3>2, <3>3, <3>4 DEF Queued, i, s
  <2>7. RingLevel' = RingLevel + frames
    <3>1. RingLevel + frames < IndexModulus
      BY <2>4, LevelType, RingConstants
    <3>2. (Plus(write_index, frames) - read_index) % IndexModulus = RingLevel + frames
      BY <2>1, <2>5, <3>1, LevelAfterWrite
    <3> QED
      BY <2>2, <3>2 DEF RingLevel
  <2>8. RingTypes'
    <3>1. write_index' \in 0 .. IndexModulus - 1
      BY <2>1, <2>2, PlusType
    <3>2. RingLevel' <= RingFrames
      BY <2>4, <2>7
    <3>3. ASSUME NEW s \in 0 .. RingFrames - 1
          PROVE  ring'[s] \in [index : 0 .. IndexModulus - 1, sent : Generations]
      <4> DEFINE k == (s - write_index) % RingFrames
      <4>1. s - write_index \in Int
        BY <2>1, RingConstants
      <4>2. k \in Nat
        BY <4>1, RingConstants, ModRange
      <4>3. Plus(write_index, k) \in 0 .. IndexModulus - 1
        BY <2>1, <4>2, PlusType
      <4>4. ring'[s] = IF k < frames THEN [index |-> Plus(write_index, k), sent |-> sent]
                                     ELSE ring[s]
        BY <2>1, <2>3
      <4> HIDE DEF k
      <4> QED
        BY <4>3, <4>4 DEF TypeOK, RingTypes
    <3>4. ring' \in [0 .. RingFrames - 1 ->
                      [index : 0 .. IndexModulus - 1, sent : Generations]]
      BY <2>1, <2>3, <3>3
    <3> QED
      BY <2>1, <3>1, <3>2, <3>4 DEF RingTypes
  <2>9. \A k \in Nat : k < RingLevel => k < RingLevel + frames
    BY LevelType, RingConstants
  <2> QED
    BY <1>1, <2>6, <2>7, <2>8, <2>9
<1>2. CASE UNCHANGED ringVars
  BY <1>2 DEF ringVars, RingLevel, TypeOK, RingTypes
<1> QED
  BY <1>1, <1>2 DEF Unpack

\* Giving frames back shortens the queue at its front.
LEMMA FillEndGivesBack ==
  ASSUME TypeOK, RingInv, FillEnd
  PROVE  /\ RingTypes'
         /\ FillFrames \in Nat /\ FillFrames <= RingLevel
         /\ RingLevel' = RingLevel - FillFrames
         /\ \A k \in Nat : /\ Queued(k)' = Queued(FillFrames + k)
                           /\ Plus(read_index, k)' = Plus(read_index, FillFrames + k)
<1>1. /\ write_index \in 0 .. IndexModulus - 1 /\ read_index \in 0 .. IndexModulus - 1
      /\ level \in Nat /\ BufferFrames \in Nat
  BY RingAssumption DEF TypeOK, RingTypes, FillTypes
<1>2. level <= RingLevel /\ RingLevel \in Nat
  BY LevelType DEF FillEnd, At, RingInv, RingIntact
<1>3. FillFrames \in Nat /\ FillFrames <= RingLevel
  BY <1>1, <1>2 DEF FillFrames
<1>4. read_index' = Plus(read_index, FillFrames) /\ UNCHANGED <<write_index, ring>>
  BY DEF FillEnd, ringVars
<1>5. RingLevel = (write_index - read_index) % IndexModulus
  BY DEF RingLevel
<1>6. /\ (write_index - Plus(read_index, FillFrames)) % IndexModulus = RingLevel - FillFrames
      /\ \A j \in Nat :
           Plus(Plus(read_index, FillFrames), j) = Plus(read_index, FillFrames + j)
  BY <1>1, <1>3, <1>5, QueuedAfterRead
<1>7. RingLevel' = RingLevel - FillFrames
  BY <1>4, <1>6 DEF RingLevel
<1>8. read_index' \in 0 .. IndexModulus - 1
  BY <1>1, <1>3, <1>4, PlusType
<1>9. RingLevel' <= RingFrames
  BY <1>2, <1>3, <1>7, LevelType, RingConstants
<1>10. RingTypes'
  BY <1>4, <1>8, <1>9 DEF TypeOK, RingTypes
<1>11. ASSUME NEW k \in Nat
       PROVE  /\ Queued(k)' = Queued(FillFrames + k)
              /\ Plus(read_index, k)' = Plus(read_index, FillFrames + k)
  <2>1. Plus(read_index', k) = Plus(read_index, FillFrames + k)
    BY <1>4, <1>6
  <2>2. Plus(read_index, k)' = Plus(read_index', k)
    BY DEF Plus
  <2> QED
    BY <1>4, <2>1, <2>2 DEF Queued
<1> QED
  BY <1>3, <1>7, <1>10, <1>11

\* A stream that starts empties it.
LEMMA StartEmpties ==
  ASSUME TypeOK, Start
  PROVE  RingTypes' /\ RingLevel' = 0
<1>1. /\ write_index \in Int /\ write_index - write_index = 0
      /\ read_index' = write_index /\ UNCHANGED <<write_index, ring>>
  BY DEF TypeOK, RingTypes, Start, EmptyRing, ringVars
<1>2. 0 % IndexModulus = 0
  BY RingConstants, ModSmall
<1>3. RingLevel' = 0
  BY <1>1, <1>2 DEF RingLevel
<1> QED
  BY <1>1, <1>3, RingConstants DEF TypeOK, RingTypes

-----------------------------------------------------------------------------

\* The ring and its counts.
LEMMA RingTypesStep ==
  ASSUME TypeOK, RingInv, [Next]_vars
  PROVE  RingTypes'
<1> USE DEF vars, usbVars, packetVars, seenVars, playVars, refuseVars, gateVars,
            fillVars, fbVars, outVars, ringVars, mainVars
<1>1. CASE \E frames \in PacketFrames : AudioOutPacket(frames)
  <2> PICK frames \in PacketFrames : AudioOutPacket(frames)
    BY <1>1
  <2>1. CASE alt # 0
    <3>1. frames \in Nat /\ UNCHANGED <<read_index, accepting>>
      BY RingAssumption DEF AudioOutPacket
    <3>2. PICK sent \in Generations : Unpack(frames, sent)
      BY <2>1 DEF AudioOutPacket, TypeOK, UsbTypes
    <3> QED
      BY <3>1, <3>2, UnpackQueues
  <2> QED
    BY <2>1 DEF AudioOutPacket, TypeOK, RingTypes, RingLevel
<1>2. CASE Start
  BY <1>2, StartEmpties DEF RingTypes, TypeOK, Start
<1>3. CASE FillEnd
  BY <1>3, FillEndGivesBack DEF RingTypes, TypeOK, FillEnd
<1>4. CASE UNCHANGED <<ringVars, read_index>>
  BY <1>4 DEF RingTypes, TypeOK, RingLevel
<1>5. \/ \E frames \in PacketFrames : AudioOutPacket(frames)
      \/ Start
      \/ FillEnd
      \/ UNCHANGED <<ringVars, read_index>>
  BY DEF Next, MainLoop, UsbInterrupt, At, Goto, WalkBegins, EmptyRing,
         FilledOne, FindsFree, SetAlternate, SetRate, AudioOutPacket, Tick, Drain,
         ReadGeneration, ReadAlt, ReadRate, ReadPacket, ReadLast, CheckGeneration,
         ReadClock, Stop, PlayOn, StopFeedback, NoStart, Start, Accept, Service, Skip,
         FillSilence, FillBegin, FillEnd, ServiceEnd, NoFeedback, Measure, Steer
<1> QED
  BY <1>1, <1>2, <1>3, <1>4, <1>5

\* The next frames to play are the ones queued under the next indices.
LEMMA RingIntactStep ==
  ASSUME TypeOK, RingInv, [Next]_vars
  PROVE  RingIntact'
<1> USE DEF vars, usbVars, packetVars, seenVars, playVars, refuseVars, gateVars,
            fillVars, fbVars, outVars, ringVars, mainVars
<1>1. CASE \E frames \in PacketFrames : AudioOutPacket(frames)
  <2> PICK frames \in PacketFrames : AudioOutPacket(frames)
    BY <1>1
  <2>0. UNCHANGED <<read_index, accepting, pc, level>>
    BY DEF AudioOutPacket
  <2>1. CASE alt # 0
    <3>1. frames \in Nat
      BY RingAssumption
    <3>2. PICK sent \in Generations : Unpack(frames, sent)
      BY <2>1 DEF AudioOutPacket, TypeOK, UsbTypes
    <3>3. /\ RingTypes'
          /\ \/ RingLevel' = RingLevel /\ UNCHANGED ring
             \/ /\ RingLevel' = RingLevel + frames
                /\ \A k \in Nat :
                     /\ k < RingLevel => Queued(k)' = Queued(k)
                     /\ ~(k < RingLevel) /\ k < RingLevel + frames =>
                          Queued(k)' = [index |-> Plus(read_index, k), sent |-> sent]
      BY <2>0, <3>1, <3>2, UnpackQueues
    <3>4. RingLevel' <= RingFrames /\ (pc' = "copy" => level' <= RingLevel')
      BY <2>0, <3>1, <3>3, LevelType, RingConstants
         DEF RingTypes, RingInv, RingIntact, TypeOK, FillTypes
    <3>5. ASSUME NEW k \in 0 .. RingFrames - 1, k < RingLevel'
          PROVE  Queued(k)'.index = Plus(read_index, k)
      <4>1. CASE k < RingLevel
        <5>1. Queued(k).index = Plus(read_index, k)
          BY <4>1 DEF RingInv, RingIntact, Queued
        <5>2. UNCHANGED ring => Queued(k)' = Queued(k)
          BY <2>0 DEF Queued, Slot, Plus
        <5> QED
          BY <3>3, <4>1, <5>1, <5>2
      <4>2. CASE ~(k < RingLevel)
        BY <3>3, <3>5, <4>2
      <4> QED
        BY <4>1, <4>2
    <3>6. \A k \in 0 .. RingFrames - 1 : Plus(read_index, k)' = Plus(read_index, k)
      BY <2>0 DEF Plus
    <3> QED
      BY <3>4, <3>5, <3>6 DEF RingIntact, Queued
  <2>2. CASE alt = 0
    BY <2>0, <2>2 DEF AudioOutPacket, RingInv, RingIntact, RingLevel, Slot, Plus
  <2> QED
    BY <2>1, <2>2
<1>2. CASE Start
  <2>1. RingTypes' /\ RingLevel' = 0
    BY <1>2, StartEmpties
  <2>2. pc' # "copy"
    BY <1>2 DEF Start, Goto
  <2> QED
    BY <2>1, <2>2 DEF RingIntact, RingTypes
<1>3. CASE FillBegin
  <2>1. /\ UNCHANGED <<ringVars, read_index>> /\ level' = RingLevel
    BY <1>3 DEF FillBegin
  <2>2. RingLevel' = RingLevel /\ RingLevel \in Int
    BY <2>1, LevelType DEF RingLevel
  <2> QED
    BY <2>1, <2>2 DEF RingInv, RingIntact, Slot, Plus
<1>4. CASE FillEnd
  <2>1. /\ RingTypes'
        /\ FillFrames \in Nat /\ FillFrames <= RingLevel
        /\ RingLevel' = RingLevel - FillFrames
        /\ \A k \in Nat : /\ Queued(k)' = Queued(FillFrames + k)
                          /\ Plus(read_index, k)' = Plus(read_index, FillFrames + k)
    BY <1>4, FillEndGivesBack
  <2>2. ASSUME NEW k \in 0 .. RingFrames - 1, k < RingLevel'
        PROVE  Queued(k)'.index = Plus(read_index, k)'
    <3>1. FillFrames + k \in 0 .. RingFrames - 1 /\ FillFrames + k < RingLevel
      BY <2>1, <2>2, LevelType, RingConstants
    <3>2. Queued(FillFrames + k).index = Plus(read_index, FillFrames + k)
      BY <3>1 DEF RingInv, RingIntact, Queued
    <3> QED
      BY <2>1, <3>2
  <2>3. pc' # "copy"
    BY <1>4 DEF FillEnd, Goto
  <2> QED
    BY <2>1, <2>2, <2>3 DEF RingIntact, RingTypes, Queued
<1>5. CASE UNCHANGED <<ringVars, read_index>> /\ (pc' # "copy" \/ UNCHANGED <<pc, level>>)
  <2>1. RingLevel' = RingLevel
    BY <1>5 DEF RingLevel
  <2>2. pc' = "copy" => level' <= RingLevel'
    BY <1>5, <2>1 DEF RingInv, RingIntact
  <2>3. \A k \in Nat : Plus(read_index, k)' = Plus(read_index, k) /\ Queued(k)' = Queued(k)
    BY <1>5 DEF Plus, Queued, Slot
  <2> QED
    BY <2>1, <2>2, <2>3 DEF RingInv, RingIntact, Queued
<1>6. \/ \E frames \in PacketFrames : AudioOutPacket(frames)
      \/ Start
      \/ FillBegin
      \/ FillEnd
      \/ UNCHANGED <<ringVars, read_index>> /\ (pc' # "copy" \/ UNCHANGED <<pc, level>>)
  BY DEF Next, MainLoop, UsbInterrupt, At, Goto, WalkBegins, EmptyRing,
         FilledOne, FindsFree, SetAlternate, SetRate, AudioOutPacket, Tick, Drain,
         ReadGeneration, ReadAlt, ReadRate, ReadPacket, ReadLast, CheckGeneration,
         ReadClock, Stop, PlayOn, StopFeedback, NoStart, Start, Accept, Service, Skip,
         FillSilence, FillBegin, FillEnd, ServiceEnd, NoFeedback, Measure, Steer
<1> QED
  BY <1>1, <1>2, <1>3, <1>4, <1>5, <1>6

\* Accepting, starting and filling go together.
LEMMA WalkInvStep ==
  ASSUME TypeOK, RingInv, [Next]_vars
  PROVE  WalkInv'
<1> USE DEF vars, usbVars, packetVars, seenVars, playVars, refuseVars, gateVars,
            fillVars, fbVars, outVars, ringVars, mainVars
<1>1. CASE \E frames \in PacketFrames : AudioOutPacket(frames)
  <2> PICK frames \in PacketFrames : AudioOutPacket(frames)
    BY <1>1
  <2>1. UNCHANGED <<pc, playing, starting, accepting, left, room, read_index>>
    BY DEF AudioOutPacket
  <2>2. pc = "accept" => UNCHANGED ringVars
    BY DEF RingInv, WalkInv, Streaming, AudioOutPacket, Unpack
  <2> QED
    BY <2>1, <2>2 DEF RingInv, WalkInv, Streaming, RingLevel
<1>2. CASE Drain
  BY <1>2, RingAssumption
     DEF WalkInv, RingInv, Streaming, TypeOK, FillTypes, RingLevel, Drain
<1>3. CASE Stop
  BY <1>3 DEF WalkInv, RingInv, Streaming, At, Goto, Stop
<1>4. CASE Start
  BY <1>4, StartEmpties DEF WalkInv, RingInv, Streaming, At, Goto, Start
<1>5. CASE Accept
  BY <1>5 DEF WalkInv, RingInv, Streaming, Goto, At, Accept
<1>6. CASE Service
  BY <1>6 DEF WalkInv, RingInv, Streaming, At, Goto, Service
<1>7. CASE Skip
  BY <1>7 DEF WalkInv, RingInv, Streaming, At, Skip
<1>8. CASE FillSilence
  BY <1>8 DEF WalkInv, RingInv, Streaming, FindsFree, At, FilledOne, FillSilence
<1>9. CASE FillBegin
  BY <1>9
     DEF WalkInv, RingInv, Streaming, FindsFree, At, Goto, TypeOK, FillTypes,
         FillBegin
<1>10. CASE FillEnd
  BY <1>10 DEF WalkInv, RingInv, Streaming, At, Goto, FillEnd
<1>11. CASE ServiceEnd
  BY <1>11 DEF WalkInv, RingInv, Streaming, At, Goto, ServiceEnd
<1>12. CASE UNCHANGED <<pc, playing, starting, accepting, left, room, ringVars, read_index>>
  BY <1>12 DEF WalkInv, RingInv, Streaming, RingLevel
<1>13. CASE UNCHANGED <<playing, starting, accepting>> /\ {pc, pc'} \cap {"accept", "fill", "copy"} = {}
  BY <1>13 DEF WalkInv, RingInv, Streaming
<1>14. \/ \E frames \in PacketFrames : AudioOutPacket(frames)
       \/ Drain
       \/ Stop
       \/ Start
       \/ Accept
       \/ Service
       \/ Skip
       \/ FillSilence
       \/ FillBegin
       \/ FillEnd
       \/ ServiceEnd
       \/ UNCHANGED <<pc, playing, starting, accepting, left, room, ringVars, read_index>>
       \/ UNCHANGED <<playing, starting, accepting>> /\ {pc, pc'} \cap {"accept", "fill", "copy"} = {}
  BY DEF Reading, Next, MainLoop, UsbInterrupt, At, Goto, WalkBegins, EmptyRing,
         FilledOne, FindsFree, SetAlternate, SetRate, AudioOutPacket, Tick, Drain,
         ReadGeneration, ReadAlt, ReadRate, ReadPacket, ReadLast, CheckGeneration,
         ReadClock, Stop, PlayOn, StopFeedback, NoStart, Start, Accept, Service, Skip,
         FillSilence, FillBegin, FillEnd, ServiceEnd, NoFeedback, Measure, Steer
<1> QED
  BY <1>1, <1>2, <1>3, <1>4, <1>5, <1>6, <1>7, <1>8, <1>9, <1>10, <1>11, <1>12,
     <1>13, <1>14

\* A selection read is one of the host's, or is read again.
LEMMA SnapshotInvStep ==
  ASSUME TypeOK, SnapshotInv, [Next]_vars
  PROVE  SnapshotInv'
<1> USE DEF vars, usbVars, packetVars, seenVars, playVars, refuseVars, gateVars,
            fillVars, fbVars, outVars, ringVars, mainVars
<1>1. CASE \E a \in Alts \cup {0} : SetAlternate(a)
  <2> PICK a \in Alts \cup {0} : SetAlternate(a)
    BY <1>1
  <2> QED
    BY GenerationAssumption
       DEF SnapshotInv, Reading, TypeOK, UsbTypes, SeenTypes, Generations,
           SetAlternate
<1>2. CASE \E r \in Rates : SetRate(r)
  <2> PICK r \in Rates : SetRate(r)
    BY <1>2
  <2> QED
    BY GenerationAssumption
       DEF SnapshotInv, Reading, TypeOK, UsbTypes, SeenTypes, Generations, SetRate
<1>3. CASE ReadGeneration
  BY <1>3, GenerationAssumption
     DEF SnapshotInv, Reading, At, Goto, TypeOK, UsbTypes, Generations,
         ReadGeneration
<1>4. CASE ReadAlt
  BY <1>4 DEF SnapshotInv, Reading, At, Goto, ReadAlt
<1>5. CASE ReadRate
  BY <1>5 DEF SnapshotInv, Reading, At, Goto, ReadRate
<1>6. CASE ReadPacket
  BY <1>6 DEF SnapshotInv, Reading, At, Goto, ReadPacket
<1>7. CASE ReadLast
  BY <1>7 DEF SnapshotInv, Reading, At, Goto, ReadLast
<1>8. CASE CheckGeneration
  BY <1>8 DEF SnapshotInv, Reading, At, Goto, HeldStill, CheckGeneration
<1>9. CASE Start
  BY <1>9 DEF SnapshotInv, Reading, At, Goto, Start
<1>10. CASE UNCHANGED <<usbVars, generation, s_alt, s_rate, pc, out_rate>>
  BY <1>10 DEF SnapshotInv, Reading
<1>11. CASE (UNCHANGED <<usbVars, generation, s_alt, s_rate>> /\ pc # "generation"
                /\ pc \notin Reading /\ pc' \notin Reading \cup {"accept"})
  BY <1>11 DEF SnapshotInv, Reading
<1>12. \/ \E a \in Alts \cup {0} : SetAlternate(a)
       \/ \E r \in Rates : SetRate(r)
       \/ ReadGeneration
       \/ ReadAlt
       \/ ReadRate
       \/ ReadPacket
       \/ ReadLast
       \/ CheckGeneration
       \/ Start
       \/ UNCHANGED <<usbVars, generation, s_alt, s_rate, pc, out_rate>>
       \/ (UNCHANGED <<usbVars, generation, s_alt, s_rate>> /\ pc # "generation"
                /\ pc \notin Reading /\ pc' \notin Reading \cup {"accept"})
  BY DEF Reading, Next, MainLoop, UsbInterrupt, At, Goto, WalkBegins, EmptyRing,
         FilledOne, FindsFree, SetAlternate, SetRate, AudioOutPacket, Tick, Drain,
         ReadGeneration, ReadAlt, ReadRate, ReadPacket, ReadLast, CheckGeneration,
         ReadClock, Stop, PlayOn, StopFeedback, NoStart, Start, Accept, Service, Skip,
         FillSilence, FillBegin, FillEnd, ServiceEnd, NoFeedback, Measure, Steer
<1> QED
  BY <1>1, <1>2, <1>3, <1>4, <1>5, <1>6, <1>7, <1>8, <1>9, <1>10, <1>11, <1>12

\* What plays was selected, as it was selected.
LEMMA PlayedInvStep ==
  ASSUME TypeOK, WalkInv, SnapshotInv, PlayedInv, [Next]_vars
  PROVE  PlayedInv'
<1> USE DEF vars, usbVars, packetVars, seenVars, playVars, refuseVars, gateVars,
            fillVars, fbVars, outVars, ringVars, mainVars
<1>1. CASE \E a \in Alts \cup {0} : SetAlternate(a)
  <2> PICK a \in Alts \cup {0} : SetAlternate(a)
    BY <1>1
  <2>1. /\ stream_generation \in Int /\ generation <= stream_generation
        /\ generation \in Int /\ played_generation \in Generations /\ played_generation <= generation
        /\ None # stream_generation
    BY GenerationAssumption
       DEF SnapshotInv, PlayedInv, TypeOK, UsbTypes, SeenTypes, PlayTypes,
           Generations, None
  <2>2. selected'[played_generation] = selected[played_generation]
    BY <2>1 DEF SnapshotInv, SetAlternate
  <2>3. rx' # None => rx' >= generation
    BY <2>1 DEF SetAlternate, PacketBehind
  <2> QED
    BY <2>1, <2>2, <2>3 DEF PlayedInv, PlaysOneSelection, SetAlternate
<1>2. CASE \E r \in Rates : SetRate(r)
  <2> PICK r \in Rates : SetRate(r)
    BY <1>2
  <2>1. /\ stream_generation \in Int /\ generation <= stream_generation
        /\ generation \in Int /\ played_generation \in Generations /\ played_generation <= generation
        /\ None # stream_generation
    BY GenerationAssumption
       DEF SnapshotInv, PlayedInv, TypeOK, UsbTypes, SeenTypes, PlayTypes,
           Generations, None
  <2>2. selected'[played_generation] = selected[played_generation]
    BY <2>1 DEF SnapshotInv, SetRate
  <2>3. rx' # None => rx' >= generation
    BY <2>1 DEF SetRate, PacketBehind
  <2> QED
    BY <2>1, <2>2, <2>3 DEF PlayedInv, PlaysOneSelection, SetRate
<1>3. CASE \E frames \in PacketFrames : AudioOutPacket(frames)
  BY <1>3 DEF PlayedInv, Reading, PlaysOneSelection, At, Goto, WalkInv, AudioOutPacket
<1>4. CASE ReadGeneration
  BY <1>4, GenerationAssumption
     DEF PlayedInv, Reading, PlaysOneSelection, At, Goto, WalkInv, SnapshotInv,
         TypeOK, UsbTypes, SeenTypes, PlayTypes, Generations, ReadGeneration
<1>5. CASE Stop
  BY <1>5 DEF PlayedInv, Reading, PlaysOneSelection, At, Goto, WalkInv, Stop
<1>6. CASE PlayOn
  BY <1>6
     DEF PlayedInv, Reading, PlaysOneSelection, At, Goto, WalkInv, MustStop,
         Changed, PlayOn
<1>7. CASE StopFeedback
  BY <1>7 DEF PlayedInv, Reading, PlaysOneSelection, At, Goto, WalkInv, StopFeedback
<1>8. CASE NoStart
  BY <1>8 DEF PlayedInv, Reading, PlaysOneSelection, At, Goto, WalkInv, NoStart
<1>9. CASE Start
  BY <1>9 DEF PlayedInv, Reading, PlaysOneSelection, At, Goto, WalkInv, Streaming, Start
<1>10. CASE Accept
  BY <1>10
     DEF PlayedInv, Reading, PlaysOneSelection, At, Goto, WalkInv, SnapshotInv,
         TypeOK, SeenTypes, Generations, Accept
<1>11. CASE Service
  BY <1>11 DEF PlayedInv, Reading, PlaysOneSelection, At, Goto, WalkInv, Service
<1>12. CASE FillBegin
  BY <1>12
     DEF PlayedInv, Reading, PlaysOneSelection, At, Goto, WalkInv, FindsFree,
         FillBegin
<1>13. CASE FillEnd
  BY <1>13 DEF PlayedInv, Reading, PlaysOneSelection, At, Goto, WalkInv, FillEnd
<1>14. CASE ServiceEnd
  BY <1>14
     DEF PlayedInv, Reading, PlaysOneSelection, At, Goto, WalkInv, Streaming,
         ServiceEnd
<1>15. CASE NoFeedback
  BY <1>15 DEF PlayedInv, Reading, PlaysOneSelection, At, Goto, WalkInv, NoFeedback
<1>16. CASE Measure
  BY <1>16 DEF PlayedInv, Reading, PlaysOneSelection, At, Goto, WalkInv, Measure
<1>17. CASE UNCHANGED <<usbVars, rx, generation, pc, playVars, starting, out_rate>>
  BY <1>17 DEF PlayedInv, Reading, PlaysOneSelection, At, Goto, WalkInv
<1>18. CASE (UNCHANGED <<usbVars, rx, generation, playVars, starting, out_rate>>
                /\ (~playing \/ pc' \in Reading \cup {"clock", "decide", "generation"}))
  BY <1>18 DEF PlayedInv, Reading, PlaysOneSelection, At, Goto, WalkInv
<1>19. \/ \E a \in Alts \cup {0} : SetAlternate(a)
       \/ \E r \in Rates : SetRate(r)
       \/ \E frames \in PacketFrames : AudioOutPacket(frames)
       \/ ReadGeneration
       \/ Stop
       \/ PlayOn
       \/ StopFeedback
       \/ NoStart
       \/ Start
       \/ Accept
       \/ Service
       \/ FillBegin
       \/ FillEnd
       \/ ServiceEnd
       \/ NoFeedback
       \/ Measure
       \/ UNCHANGED <<usbVars, rx, generation, pc, playVars, starting, out_rate>>
       \/ (UNCHANGED <<usbVars, rx, generation, playVars, starting, out_rate>>
                /\ (~playing \/ pc' \in Reading \cup {"clock", "decide", "generation"}))
  <2>1. CASE MainLoop
    BY <2>1
       DEF Reading, MainLoop, At, Goto, WalkBegins, EmptyRing, FilledOne, FindsFree,
           ReadGeneration, ReadAlt, ReadRate, ReadPacket, ReadLast, CheckGeneration,
           ReadClock, Stop, PlayOn, StopFeedback, NoStart, Start, Accept, Service, Skip,
           FillSilence, FillBegin, FillEnd, ServiceEnd, NoFeedback, Measure, Steer
  <2>2. CASE UsbInterrupt \/ Tick \/ Drain \/ UNCHANGED vars
    BY <2>2 DEF UsbInterrupt, Tick, Drain
  <2> QED
    BY <2>1, <2>2 DEF Next
<1> QED
  BY <1>1, <1>2, <1>3, <1>4, <1>5, <1>6, <1>7, <1>8, <1>9, <1>10, <1>11, <1>12,
     <1>13, <1>14, <1>15, <1>16, <1>17, <1>18, <1>19

\* Only packets of the selection that plays, or later ones, are queued.
LEMMA QueueInvStep ==
  ASSUME TypeOK, RingInv, SnapshotInv, PlayedInv, QueueInv, [Next]_vars
  PROVE  QueueInv'
<1> USE DEF vars, usbVars, packetVars, seenVars, playVars, refuseVars, gateVars,
            fillVars, fbVars, outVars, ringVars, mainVars
<1>1. CASE \E frames \in PacketFrames : AudioOutPacket(frames)
  <2> PICK frames \in PacketFrames : AudioOutPacket(frames)
    BY <1>1
  <2>0. /\ UNCHANGED <<read_index, accepting, played_generation>>
        /\ Streaming' = Streaming
    BY DEF AudioOutPacket, Streaming
  <2>1. CASE alt # 0
    <3> DEFINE sent == IF rx = None THEN stream_generation ELSE rx
    <3>1. frames \in Nat
      BY RingAssumption
    <3>2. sent \in Generations /\ Unpack(frames, sent)
      BY <2>1 DEF AudioOutPacket, TypeOK, UsbTypes
    <3>3. sent >= played_generation
      BY GenerationAssumption
         DEF TypeOK, UsbTypes, SeenTypes, PlayTypes, SnapshotInv, PlayedInv,
             Generations, None
    <3> HIDE DEF sent
    <3>4. \/ RingLevel' = RingLevel /\ UNCHANGED ring
          \/ /\ RingLevel' = RingLevel + frames
             /\ \A k \in Nat :
                  /\ k < RingLevel => Queued(k)' = Queued(k)
                  /\ ~(k < RingLevel) /\ k < RingLevel + frames =>
                       Queued(k)' = [index |-> Plus(read_index, k), sent |-> sent]
      BY <2>0, <3>1, <3>2, UnpackQueues
    <3>5. ASSUME Streaming, NEW k \in 0 .. RingFrames - 1, k < RingLevel'
          PROVE  Queued(k)'.sent >= played_generation
      <4>1. CASE k < RingLevel
        <5>1. Queued(k).sent >= played_generation
          BY <3>5, <4>1 DEF QueueInv
        <5>2. UNCHANGED ring => Queued(k)' = Queued(k)
          BY <2>0 DEF Queued, Slot, Plus
        <5> QED
          BY <3>4, <4>1, <5>1, <5>2
      <4>2. CASE ~(k < RingLevel)
        BY <3>3, <3>4, <3>5, <4>2
      <4> QED
        BY <4>1, <4>2
    <3> QED
      BY <2>0, <3>5 DEF QueueInv
  <2>2. CASE alt = 0
    <3>1. UNCHANGED ringVars
      BY <2>2 DEF AudioOutPacket
    <3>2. RingLevel' = RingLevel
      BY <2>0, <3>1 DEF RingLevel
    <3>3. \A k \in Nat : Queued(k)' = Queued(k)
      BY <2>0, <3>1 DEF Queued, Slot, Plus
    <3> QED
      BY <2>0, <3>2, <3>3 DEF QueueInv
  <2> QED
    BY <2>1, <2>2
<1>2. CASE Start
  <2>1. RingLevel' = 0
    BY <1>2, StartEmpties
  <2> QED
    BY <2>1 DEF QueueInv
<1>3. CASE Accept
  <2>1. RingLevel = 0
    BY <1>3 DEF Accept, At, RingInv, WalkInv
  <2>2. RingLevel' = RingLevel
    BY <1>3 DEF Accept, RingLevel
  <2> QED
    BY <2>1, <2>2 DEF QueueInv
<1>4. CASE FillEnd
  <2>1. /\ FillFrames \in Nat /\ FillFrames <= RingLevel
        /\ RingLevel' = RingLevel - FillFrames
        /\ \A k \in Nat : Queued(k)' = Queued(FillFrames + k)
    BY <1>4, FillEndGivesBack
  <2>2. UNCHANGED played_generation /\ Streaming' = Streaming
    BY <1>4 DEF FillEnd, Streaming
  <2>3. ASSUME Streaming, NEW k \in 0 .. RingFrames - 1, k < RingLevel'
        PROVE  Queued(k)'.sent >= played_generation
    <3>1. FillFrames + k \in 0 .. RingFrames - 1 /\ FillFrames + k < RingLevel
      BY <2>1, <2>3, LevelType, RingConstants
    <3>2. Queued(FillFrames + k).sent >= played_generation
      BY <2>3, <3>1 DEF QueueInv
    <3> QED
      BY <2>1, <3>2
  <2> QED
    BY <2>2, <2>3 DEF QueueInv
<1>5. CASE ServiceEnd
  <2>1. UNCHANGED <<ringVars, read_index, played_generation>> /\ Streaming
    BY <1>5 DEF ServiceEnd, At, RingInv, WalkInv
  <2>2. RingLevel' = RingLevel
    BY <2>1 DEF RingLevel
  <2>3. \A k \in Nat : Queued(k)' = Queued(k)
    BY <2>1 DEF Queued, Slot, Plus
  <2> QED
    BY <2>1, <2>2, <2>3 DEF QueueInv
<1>6. CASE (UNCHANGED <<ringVars, read_index, played_generation>> /\ (Streaming' => Streaming))
  <2>1. RingLevel' = RingLevel
    BY <1>6 DEF RingLevel
  <2>2. \A k \in Nat : Queued(k)' = Queued(k)
    BY <1>6 DEF Queued, Slot, Plus
  <2> QED
    BY <1>6, <2>1, <2>2 DEF QueueInv
<1>7. \/ \E frames \in PacketFrames : AudioOutPacket(frames)
      \/ Start
      \/ Accept
      \/ FillEnd
      \/ ServiceEnd
      \/ (UNCHANGED <<ringVars, read_index, played_generation>> /\ (Streaming' => Streaming))
  BY DEF Streaming, Next, MainLoop, UsbInterrupt, At, Goto, WalkBegins,
         EmptyRing, FilledOne, FindsFree, SetAlternate, SetRate, AudioOutPacket, Tick,
         Drain, ReadGeneration, ReadAlt, ReadRate, ReadPacket, ReadLast,
         CheckGeneration, ReadClock, Stop, PlayOn, StopFeedback, NoStart, Start,
         Accept, Service, Skip, FillSilence, FillBegin, FillEnd, ServiceEnd,
         NoFeedback, Measure, Steer
<1> QED
  BY <1>1, <1>2, <1>3, <1>4, <1>5, <1>6, <1>7

-----------------------------------------------------------------------------
(***************************************************************************)
(* The feedback.                                                           *)
(***************************************************************************)

\* What the host may be steered to: never nothing, and never below nothing.
LEMMA SteeredRange ==
  ASSUME NEW r \in Rates
  PROVE  /\ Nominal(r) \in Nat /\ Limit(r) \in Nat /\ Nominal(r) - Limit(r) > 0
         /\ Steered(Nominal(r)) = {Nominal(r) - Limit(r), Nominal(r) + Limit(r)}
<1> DEFINE n == Nominal(r)
<1>1. r \in Nat /\ r > 0
  BY SelectionsAssumption
<1>2. n \in Nat /\ n > 0
  BY <1>1 DEF Nominal
<1> HIDE DEF n
<1>3. n \div 128 \in Nat /\ n - (n \div 128) > 0
  BY <1>2
<1> QED
  BY <1>2, <1>3 DEF Limit, Steered, n

\* The feedback goes with the gate, but for the passes' last part.
LEMMA FeedbackInvStep ==
  ASSUME TypeOK, RingInv, FeedbackInv, [Next]_vars
  PROVE  FeedbackInv'
<1> USE DEF vars, usbVars, packetVars, seenVars, playVars, refuseVars, gateVars,
            fillVars, fbVars, outVars, ringVars, mainVars
<1>1. CASE Stop
  BY <1>1 DEF FeedbackInv, Settled, Streaming, RingInv, WalkInv, Reading, At, Goto, Stop
<1>2. CASE PlayOn
  BY <1>2
     DEF FeedbackInv, Settled, Streaming, RingInv, WalkInv, Reading, At, Goto,
         PlayOn
<1>3. CASE StopFeedback
  BY <1>3
     DEF FeedbackInv, Settled, Streaming, RingInv, WalkInv, Reading, FeedbackReset,
         At, Goto, StopFeedback
<1>4. CASE NoStart
  BY <1>4
     DEF FeedbackInv, Settled, Streaming, RingInv, WalkInv, Reading, At, Goto,
         NoStart
<1>5. CASE Start
  BY <1>5
     DEF FeedbackInv, Settled, Streaming, RingInv, WalkInv, Reading, At, Goto,
         Start
<1>6. CASE Accept
  BY <1>6
     DEF FeedbackInv, Settled, Streaming, RingInv, WalkInv, Reading, At, Goto,
         FeedbackReset, Accept
<1>7. CASE Service
  BY <1>7
     DEF FeedbackInv, Settled, Streaming, RingInv, WalkInv, Reading, At, Goto,
         Service
<1>8. CASE FillBegin
  BY <1>8
     DEF FeedbackInv, Settled, Streaming, RingInv, WalkInv, Reading, FindsFree, At,
         Goto, FillBegin
<1>9. CASE FillEnd
  BY <1>9
     DEF FeedbackInv, Settled, Streaming, RingInv, WalkInv, Reading, At, Goto,
         FillEnd
<1>10. CASE ServiceEnd
  BY <1>10
     DEF FeedbackInv, Settled, Streaming, RingInv, WalkInv, Reading, At, Goto,
         ServiceEnd
<1>11. CASE NoFeedback
  BY <1>11
     DEF FeedbackInv, Settled, Streaming, RingInv, WalkInv, Reading, FeedbackReset,
         At, Goto, NoFeedback
<1>12. CASE Measure
  BY <1>12
     DEF FeedbackInv, Settled, Streaming, RingInv, WalkInv, Reading, At, Goto,
         Measure
<1>13. CASE Steer
  <2>1. PICK r \in Rates : fb_nominal = Nominal(r)
    BY DEF TypeOK, FeedbackTypes
  <2>2. feedback_value' # 0
    BY <1>13, <2>1, SteeredRange DEF Steer
  <2> QED
    BY <1>13, <2>2 DEF FeedbackInv, Settled, Reading, At, Goto, Steer
<1>14. CASE UNCHANGED <<pc, playing, starting, gateVars, fb_active, feedback_value>>
  BY <1>14 DEF FeedbackInv, Settled, Streaming, RingInv, WalkInv, Reading
<1>15. CASE (UNCHANGED <<playing, starting, gateVars, fb_active, feedback_value>>
                /\ pc \in Reading \cup {"generation", "clock"}
                /\ pc' \in Reading \cup {"generation", "clock", "decide"})
  BY <1>15 DEF FeedbackInv, Settled, Streaming, RingInv, WalkInv, Reading
<1>16. \/ Stop
       \/ PlayOn
       \/ StopFeedback
       \/ NoStart
       \/ Start
       \/ Accept
       \/ Service
       \/ FillBegin
       \/ FillEnd
       \/ ServiceEnd
       \/ NoFeedback
       \/ Measure
       \/ Steer
       \/ UNCHANGED <<pc, playing, starting, gateVars, fb_active, feedback_value>>
       \/ (UNCHANGED <<playing, starting, gateVars, fb_active, feedback_value>>
                /\ pc \in Reading \cup {"generation", "clock"}
                /\ pc' \in Reading \cup {"generation", "clock", "decide"})
  BY DEF Reading, Next, MainLoop, UsbInterrupt, At, Goto, WalkBegins, EmptyRing,
         FilledOne, FindsFree, SetAlternate, SetRate, AudioOutPacket, Tick, Drain,
         ReadGeneration, ReadAlt, ReadRate, ReadPacket, ReadLast, CheckGeneration,
         ReadClock, Stop, PlayOn, StopFeedback, NoStart, Start, Accept, Service, Skip,
         FillSilence, FillBegin, FillEnd, ServiceEnd, NoFeedback, Measure, Steer
<1> QED
  BY <1>1, <1>2, <1>3, <1>4, <1>5, <1>6, <1>7, <1>8, <1>9, <1>10, <1>11, <1>12,
     <1>13, <1>14, <1>15, <1>16

-----------------------------------------------------------------------------
(***************************************************************************)
(* The theorems.                                                           *)
(***************************************************************************)
LEMMA InitInv == Init => TypeOK /\ IInv
<1> SUFFICES ASSUME Init PROVE TypeOK /\ IInv
  OBVIOUS
<1>1. PICK r \in PlayableRates :
        /\ alt = 0 /\ rate = r /\ s_alt = 0 /\ s_rate = r
        /\ selected = [g \in Generations |-> <<0, r>>]
        /\ played_alt = 0 /\ played_rate = r /\ refused_rate = r
        /\ out_rate = r /\ fb_nominal = Nominal(r)
  BY DEF Init
<1>2. r \in Rates /\ 0 \in Generations
  BY SelectionsAssumption, GenerationAssumption DEF Generations
<1>3. RingLevel = 0
  BY RingConstants, ModSmall DEF Init, RingLevel
<1>4. UsbTypes
  <2>1. /\ stream_generation = 0 /\ alt_generation = 0 /\ rx = None
        /\ have_packet = FALSE /\ live = FALSE /\ age = 0 /\ quiet = Timeout
    BY DEF Init
  <2>2. 0 \in 0 .. ClockModulus - 1 /\ Timeout \in 0 .. Timeout
    BY TimeAssumption
  <2> QED
    BY <1>1, <1>2, <2>1, <2>2 DEF UsbTypes
<1>5. RingTypes
  BY <1>2, <1>3, RingConstants DEF Init, RingTypes
<1>6. SeenTypes /\ PlayTypes
  <2>1. /\ generation = 0 /\ any_packet = FALSE /\ s_age = 0 /\ want = FALSE
        /\ refused = FALSE /\ refused_generation = 0
    BY DEF Init
  <2>2. /\ playing = FALSE /\ accepting = FALSE /\ starting = FALSE
        /\ played_generation = 0 /\ pc = "generation"
    BY DEF Init
  <2>3. SeenTypes
    <3>1. 0 \in 0 .. ClockModulus - 1
      BY TimeAssumption
    <3> QED
      BY <1>1, <1>2, <2>1, <3>1 DEF SeenTypes
  <2>4. PlayTypes
    BY <1>1, <1>2, <2>2 DEF PlayTypes
  <2> QED
    BY <2>3, <2>4
<1>7. FillTypes /\ FeedbackTypes
  <2>1. /\ left = 0 /\ todo = 0 /\ level = 0 /\ room = NumBuffers
        /\ gate_open = FALSE /\ gate_just_opened = FALSE
    BY DEF Init
  <2>2. fb_active = FALSE /\ feedback_value = 0
    BY DEF Init
  <2>3. FillTypes
    <3>1. {0, NumBuffers} \subseteq 0 .. NumBuffers /\ 0 \in 0 .. 0 /\ 0 \in 0 .. RingFrames
      BY RingAssumption
    <3> QED
      BY <1>1, <1>2, <2>1, <3>1 DEF FillTypes
  <2>4. FeedbackTypes
    BY <1>1, <1>2, <2>2 DEF FeedbackTypes
  <2> QED
    BY <2>3, <2>4
<1>8. RingInv
  BY <1>3, RingConstants DEF Init, RingInv, RingIntact, WalkInv, Streaming
<1>9. SnapshotInv
  <2>1. /\ generation <= stream_generation /\ pc = "generation"
        /\ selected[stream_generation] = <<alt, rate>>
    BY <1>1, <1>2, GenerationAssumption DEF Init
  <2>2. selected \in [Generations -> (Alts \cup {0}) \X Rates]
    BY <1>1, <1>2
  <2> QED
    BY <2>1, <2>2 DEF SnapshotInv, Reading
<1>10. PlayedInv /\ QueueInv
  BY DEF Init, PlayedInv, QueueInv, PlaysOneSelection, Streaming
<1>11. FeedbackInv
  BY DEF Init, FeedbackInv, Settled, Reading
<1> QED
  BY <1>4, <1>5, <1>6, <1>7, <1>8, <1>9, <1>10, <1>11 DEF TypeOK, IInv

\* The inductive invariant: the loop, the ring and the feedback are where the code
\* takes them to be at each access.
THEOREM Inductive == Spec => [](TypeOK /\ IInv)
<1>1. TypeOK /\ IInv /\ [Next]_vars => TypeOK' /\ IInv'
  <2> SUFFICES ASSUME TypeOK, IInv, [Next]_vars PROVE TypeOK' /\ IInv'
    OBVIOUS
  <2> USE DEF IInv
  <2>1. UsbTypes' /\ SeenTypes' /\ PlayTypes' /\ FeedbackTypes'
    BY UsbTypesStep, SeenTypesStep, PlayTypesStep, FeedbackTypesStep
  <2>2. RingTypes' /\ FillTypes'
    BY RingTypesStep, FillTypesStep
  <2>3. RingIntact' /\ WalkInv'
    BY RingIntactStep, WalkInvStep
  <2>4. SnapshotInv' /\ QueueInv' /\ FeedbackInv'
    BY SnapshotInvStep, QueueInvStep, FeedbackInvStep
  <2>5. PlayedInv'
    BY PlayedInvStep DEF RingInv
  <2> QED
    BY <2>1, <2>2, <2>3, <2>4, <2>5 DEF TypeOK, RingInv
<1> QED
  BY <1>1, InitInv, PTL DEF Spec

\* The counts, buffers and values stay in their ranges: write_index - read_index
\* never exceeds the ring (usb_dac.c's usb_dac_ring_level and usb_dac_ring_free).
THEOREM TypeCorrect == Spec => []TypeOK
BY Inductive, PTL

\* The producer never overwrites a frame the consumer has not given back, nor skips
\* one, wherever the 32-bit counts are in their wrap (audio_out_packet, dac_fill).
THEOREM RingStaysIntact == Spec => []RingIntact
<1>1. IInv => RingIntact
  BY DEF IInv, RingInv
<1> QED
  BY <1>1, Inductive, PTL

\* dac_fill copies no frame the host sent for a selection before the one that plays.
THEOREM NothingOldIsPlayed == Spec => []NothingFromOldSelection
<1>1. TypeOK /\ IInv => NothingFromOldSelection
  <2> SUFFICES ASSUME TypeOK, IInv, pc = "copy",
                      NEW k \in 0 .. RingFrames - 1, k < FillFrames
               PROVE  ring[Slot(Plus(read_index, k))].sent >= generation
    BY DEF NothingFromOldSelection
  <2>1. Streaming /\ generation = played_generation
    BY DEF IInv, RingInv, WalkInv, PlayedInv, Streaming, Reading
  <2>2. level <= RingLevel /\ level \in Int /\ RingLevel \in Int
    BY LevelType DEF IInv, RingInv, RingIntact, TypeOK, FillTypes
  <2>3. k < RingLevel
    BY <2>2, RingAssumption, RingConstants DEF FillFrames
  <2> QED
    BY <2>1, <2>3 DEF IInv, QueueInv, Queued
<1> QED
  BY <1>1, Inductive, PTL

\* stream_update plays one selection of the host's, its format with its rate.
THEOREM OneSelectionPlays == Spec => []PlaysOneSelection
<1>1. IInv => PlaysOneSelection
  BY DEF IInv, PlayedInv
<1> QED
  BY <1>1, Inductive, PTL

\* feedback_update steers the host exactly while its audio goes to the output.
THEOREM SteersWhileAudible == Spec => []SteeredWhileAudible
<1>1. IInv => SteeredWhileAudible
  BY DEF IInv, FeedbackInv, Settled, Reading, SteeredWhileAudible
<1> QED
  BY <1>1, Inductive, PTL

\* feedback_packet never sends a value made for another rate than the one selected.
THEOREM FeedbackIsForThisRate == Spec => []FeedbackForThisRate
<1>1. TypeOK => FeedbackForThisRate
  <2> SUFFICES ASSUME TypeOK, MadeFor(rate)
               PROVE  feedback_value \in Steered(Nominal(rate))
    BY DEF FeedbackForThisRate, Sent
  <2>1. PICK r \in Rates : feedback_value \in Steered(Nominal(r))
    BY DEF TypeOK, FeedbackTypes, MadeFor
  <2>2. rate \in Rates /\ rate \in Nat /\ r \in Nat
    BY SelectionsAssumption DEF TypeOK, UsbTypes
  <2>3. /\ Nominal(r) \in Nat /\ Limit(r) \in Nat
        /\ Steered(Nominal(r)) = {Nominal(r) - Limit(r), Nominal(r) + Limit(r)}
    BY SteeredRange
  <2>4. Nominal(rate) \in Nat /\ Limit(rate) \in Nat
    BY <2>2, SteeredRange
  <2>5. /\ feedback_value <= Nominal(rate) + Limit(rate)
        /\ feedback_value + Limit(rate) >= Nominal(rate)
    BY DEF MadeFor
  <2>6. ~(r < rate)
    <3>1. r < rate => Nominal(r) + Limit(r) < Nominal(rate) - Limit(rate)
      BY <2>2, RatesApartAssumption
    <3> QED
      BY <2>1, <2>3, <2>4, <2>5, <3>1
  <2>7. ~(rate < r)
    <3>1. rate < r => Nominal(rate) + Limit(rate) < Nominal(r) - Limit(r)
      BY <2>2, RatesApartAssumption
    <3> QED
      BY <2>1, <2>3, <2>4, <2>5, <3>1
  <2> QED
    BY <2>1, <2>2, <2>6, <2>7
<1> QED
  BY <1>1, Inductive, PTL

-----------------------------------------------------------------------------
(***************************************************************************)
(* usb_dac.c implements SoundCard.  Beside IInv this needs that a stream   *)
(* starts for a format only, and that no packet comes behind one of a      *)
(* later selection.                                                        *)
(***************************************************************************)

\* The selection that the next packet was sent for.
Coming == IF rx = None THEN stream_generation ELSE rx

CardInv ==
  /\ pc \in {"decide", "reset", "restart"} /\ want => s_alt # 0
  /\ pc = "accept" => s_alt # 0
  /\ Coming <= stream_generation
  /\ \A k \in 0 .. RingFrames - 1 : k < RingLevel => Queued(k).sent <= Coming

LEMMA WantStep ==
  ASSUME TypeOK, CardInv, [Next]_vars
  PROVE  /\ (pc \in {"decide", "reset", "restart"} /\ want => s_alt # 0)'
         /\ (pc = "accept" => s_alt # 0)'
<1> USE DEF vars, usbVars, packetVars, seenVars, playVars, refuseVars, gateVars,
            fillVars, fbVars, outVars, ringVars, mainVars
<1>1. CASE ReadClock
  BY <1>1 DEF ReadClock, At, Goto
<1>2. CASE Start
  BY <1>2 DEF Start, At, Goto, CardInv
<1>3. CASE /\ UNCHANGED <<s_alt, want>>
           /\ pc' \in {"decide", "reset", "restart"} => pc \in {"decide", "reset", "restart"}
           /\ pc' = "accept" => pc = "accept"
  BY <1>3 DEF CardInv
<1>4. CASE pc' \in Reading \cup {"clock", "generation"}
  BY <1>4 DEF Reading
<1>5. \/ ReadClock \/ Start
      \/ /\ UNCHANGED <<s_alt, want>>
         /\ pc' \in {"decide", "reset", "restart"} => pc \in {"decide", "reset", "restart"}
         /\ pc' = "accept" => pc = "accept"
      \/ pc' \in Reading \cup {"clock", "generation"}
  BY DEF Reading, Next, MainLoop, UsbInterrupt, At, Goto, WalkBegins,
         EmptyRing, FilledOne, FindsFree, SetAlternate, SetRate, AudioOutPacket, Tick,
         Drain, ReadGeneration, ReadAlt, ReadRate, ReadPacket, ReadLast,
         CheckGeneration, ReadClock, Stop, PlayOn, StopFeedback, NoStart, Start,
         Accept, Service, Skip, FillSilence, FillBegin, FillEnd, ServiceEnd,
         NoFeedback, Measure, Steer
<1> QED
  BY <1>1, <1>2, <1>3, <1>4, <1>5

\* A queued frame was sent for some selection.
LEMMA QueuedType ==
  ASSUME TypeOK, NEW k \in Nat
  PROVE  Queued(k).sent \in Generations
<1>1. Slot(Plus(read_index, k)) \in 0 .. RingFrames - 1
  BY SlotBehind DEF TypeOK, RingTypes
<1> QED
  BY <1>1 DEF Queued, TypeOK, RingTypes

\* Nothing moves in the ring if neither it nor its counts do.
LEMMA SameQueued ==
  ASSUME UNCHANGED <<ringVars, read_index>>
  PROVE  RingLevel' = RingLevel /\ Waiting' = Waiting /\ \A k : Queued(k)' = Queued(k)
BY DEF ringVars, RingLevel, Waiting, Queued, Slot, Plus

LEMMA ComingStep ==
  ASSUME TypeOK, RingInv, CardInv, [Next]_vars
  PROVE  /\ (Coming <= stream_generation)'
         /\ (\A k \in 0 .. RingFrames - 1 : k < RingLevel => Queued(k).sent <= Coming)'
<1> USE DEF vars, usbVars, packetVars, seenVars, playVars, refuseVars, gateVars,
            fillVars, fbVars, outVars, mainVars
<1>0. stream_generation \in Nat /\ Coming \in Nat /\ Coming <= stream_generation
  BY GenerationAssumption DEF TypeOK, UsbTypes, Generations, Coming, CardInv
<1>1. CASE \E frames \in PacketFrames : AudioOutPacket(frames)
  <2> PICK frames \in PacketFrames : AudioOutPacket(frames)
    BY <1>1
  <2>1. Coming' = stream_generation /\ stream_generation' = stream_generation
    BY DEF AudioOutPacket, Coming
  <2>2. UNCHANGED <<read_index, accepting>>
    BY DEF AudioOutPacket
  <2>3. CASE alt # 0
    <3>1. frames \in Nat /\ Coming \in Generations /\ Unpack(frames, Coming)
      BY <2>3, RingAssumption DEF AudioOutPacket, TypeOK, UsbTypes, Coming
    <3>2. \/ RingLevel' = RingLevel /\ UNCHANGED ring
          \/ /\ RingLevel' = RingLevel + frames
             /\ \A k \in Nat :
                  /\ k < RingLevel => Queued(k)' = Queued(k)
                  /\ ~(k < RingLevel) /\ k < RingLevel + frames =>
                       Queued(k)' = [index |-> Plus(read_index, k), sent |-> Coming]
      BY <2>2, <3>1, UnpackQueues
    <3>3. ASSUME NEW k \in 0 .. RingFrames - 1, k < RingLevel'
          PROVE  Queued(k)'.sent <= stream_generation
      <4>1. CASE k < RingLevel
        <5>1. Queued(k).sent <= Coming
          BY <4>1 DEF CardInv
        <5>2. Queued(k).sent \in Nat
          BY QueuedType DEF Generations
        <5>3. UNCHANGED ring => Queued(k)' = Queued(k)
          BY <2>2 DEF Queued, Slot, Plus
        <5>4. Queued(k)' = Queued(k)
          BY <3>2, <4>1, <5>3
        <5> QED
          BY <1>0, <5>1, <5>2, <5>4
      <4>2. CASE ~(k < RingLevel)
        <5>1. Queued(k)'.sent = Coming
          BY <3>2, <3>3, <4>2
        <5> QED
          BY <1>0, <5>1
      <4> QED
        BY <4>1, <4>2
    <3> QED
      BY <1>0, <2>1, <3>3
  <2>4. CASE alt = 0
    <3>1. RingLevel' = RingLevel /\ \A k : Queued(k)' = Queued(k)
      BY <2>2, <2>4, SameQueued DEF AudioOutPacket
    <3>2. ASSUME NEW k \in 0 .. RingFrames - 1, k < RingLevel
          PROVE  Queued(k).sent <= stream_generation
      <4>1. Queued(k).sent <= Coming
        BY <3>2 DEF CardInv
      <4>2. Queued(k).sent \in Nat
        BY QueuedType DEF Generations
      <4> QED
        BY <1>0, <4>1, <4>2
    <3> QED
      BY <1>0, <2>1, <3>1, <3>2
  <2> QED
    BY <2>3, <2>4
<1>2. CASE \/ \E a \in Alts \cup {0} : SetAlternate(a)
           \/ \E r \in Rates : SetRate(r)
  <2>1. /\ rx = None /\ rx' \in {None, stream_generation}
        /\ stream_generation' = stream_generation + 1
        /\ UNCHANGED <<ringVars, read_index>>
    BY <1>2 DEF SetAlternate, SetRate, PacketBehind
  <2>2. Coming' \in Nat /\ Coming <= Coming' /\ Coming' <= stream_generation'
    <3>1. Coming = stream_generation
      BY <2>1 DEF Coming
    <3>2. Coming' \in {stream_generation, stream_generation + 1}
      BY <2>1 DEF Coming
    <3> QED
      BY <1>0, <2>1, <3>1, <3>2
  <2>3. RingLevel' = RingLevel /\ \A k : Queued(k)' = Queued(k)
    BY <2>1, SameQueued
  <2>4. ASSUME NEW k \in 0 .. RingFrames - 1, k < RingLevel
        PROVE  Queued(k).sent <= Coming'
    <3>1. Queued(k).sent <= Coming
      BY <2>4 DEF CardInv
    <3>2. Queued(k).sent \in Nat
      BY QueuedType DEF Generations
    <3> QED
      BY <1>0, <2>2, <3>1, <3>2
  <2> QED
    BY <2>2, <2>3, <2>4
<1>3. CASE Start
  <2>1. RingLevel' = 0
    BY <1>3, StartEmpties
  <2>2. UNCHANGED <<stream_generation, rx>>
    BY <1>3 DEF Start
  <2> QED
    BY <1>0, <2>1, <2>2 DEF Coming
<1>4. CASE FillEnd
  <2>1. /\ FillFrames \in Nat /\ FillFrames <= RingLevel
        /\ RingLevel' = RingLevel - FillFrames
        /\ \A k \in Nat : Queued(k)' = Queued(FillFrames + k)
    BY <1>4, FillEndGivesBack
  <2>2. UNCHANGED <<stream_generation, rx>> /\ Coming' = Coming
    BY <1>4 DEF FillEnd, Coming
  <2>3. ASSUME NEW k \in 0 .. RingFrames - 1, k < RingLevel'
        PROVE  Queued(k)'.sent <= Coming
    <3>1. FillFrames + k \in 0 .. RingFrames - 1 /\ FillFrames + k < RingLevel
      BY <2>1, <2>3, LevelType, RingConstants
    <3>2. Queued(FillFrames + k).sent <= Coming
      BY <3>1 DEF CardInv
    <3> QED
      BY <2>1, <3>2
  <2> QED
    BY <1>0, <2>2, <2>3
<1>5. CASE UNCHANGED <<ringVars, read_index, stream_generation, rx>>
  <2>1. RingLevel' = RingLevel /\ \A k : Queued(k)' = Queued(k)
    BY <1>5, SameQueued
  <2>2. Coming' = Coming /\ stream_generation' = stream_generation
    BY <1>5 DEF Coming
  <2> QED
    BY <1>0, <2>1, <2>2 DEF CardInv
<1>6. \/ \E frames \in PacketFrames : AudioOutPacket(frames)
      \/ \E a \in Alts \cup {0} : SetAlternate(a)
      \/ \E r \in Rates : SetRate(r)
      \/ Start
      \/ FillEnd
      \/ UNCHANGED <<ringVars, read_index, stream_generation, rx>>
  BY DEF ringVars, Next, MainLoop, UsbInterrupt, At, Goto, WalkBegins,
         EmptyRing, FilledOne, FindsFree, SetAlternate, SetRate, AudioOutPacket, Tick,
         Drain, ReadGeneration, ReadAlt, ReadRate, ReadPacket, ReadLast,
         CheckGeneration, ReadClock, Stop, PlayOn, StopFeedback, NoStart, Start,
         Accept, Service, Skip, FillSilence, FillBegin, FillEnd, ServiceEnd,
         NoFeedback, Measure, Steer
<1> QED
  BY <1>1, <1>2, <1>3, <1>4, <1>5, <1>6

\* Sequences, given as functions.
LEMMA SameSequence ==
  ASSUME NEW S, NEW m \in Nat, NEW s \in [1 .. m -> S], NEW t \in Seq(S), Len(t) = m,
         \A k \in 1 .. m : s[k] = t[k]
  PROVE  s = t
<1>1. s \in Seq(S)
  BY SeqDef
<1>2. Len(s) = m
  <2>1. Len(s) \in Nat /\ 1 .. m = 1 .. Len(s)
    BY <1>1, LenProperties
  <2> QED
    BY <2>1
<1> QED
  BY <1>1, <1>2, SeqEqual

LEMMA WaitingType ==
  ASSUME TypeOK
  PROVE  /\ RingLevel \in Nat
         /\ Waiting \in Seq(Generations) /\ Len(Waiting) = RingLevel
         /\ \A k \in 1 .. RingLevel : Waiting[k] = Queued(k - 1).sent
<1>1. RingLevel \in Nat
  BY LevelType, RingConstants
<1>2. \A k \in 1 .. RingLevel : Queued(k - 1).sent \in Generations
  <2> TAKE k \in 1 .. RingLevel
  <2>1. k - 1 \in Nat
    BY <1>1
  <2> QED
    BY <2>1, QueuedType
<1>3. Waiting \in [1 .. RingLevel -> Generations]
  BY <1>2 DEF Waiting
<1>4. Waiting \in Seq(Generations)
  BY <1>1, <1>3, SeqDef
<1>5. Len(Waiting) = RingLevel
  <2>1. Len(Waiting) \in Nat /\ DOMAIN Waiting = 1 .. Len(Waiting)
    BY <1>4, LenProperties
  <2>2. PICK l \in Nat, n \in Nat : l = RingLevel /\ n = Len(Waiting)
    BY <1>1, <2>1
  <2>3. 1 .. l = 1 .. n
    BY <2>1, <2>2 DEF Waiting
  <2> QED
    BY <2>2, <2>3
<1> QED
  BY <1>1, <1>4, <1>5 DEF Waiting

\* The numbers of the selections that matter, in order.
LEMMA SelectionOrder ==
  ASSUME TypeOK, IInv, CardInv
  PROVE  /\ stream_generation \in Nat /\ generation \in Nat /\ played_generation \in Nat
         /\ Coming \in Generations /\ Coming \in Nat
         /\ played_generation <= generation /\ generation <= Coming
         /\ Coming <= stream_generation
         /\ stream_generation # None /\ generation # None /\ played_generation # None
BY GenerationAssumption
   DEF TypeOK, UsbTypes, SeenTypes, PlayTypes, Generations, IInv, SnapshotInv, PlayedInv,
       CardInv, Coming, None

\* A packet's frames go behind those that wait, or nowhere.
LEMMA CardReceive ==
  ASSUME TypeOK, IInv, CardInv, NEW frames \in PacketFrames, AudioOutPacket(frames)
  PROVE  Card!Receive(frames) \/ UNCHANGED Card!vars
<1>1. /\ UNCHANGED <<selected, stream_generation, out_rate, read_index, accepting>>
      /\ Taken' = Taken /\ Stream' = Stream
  BY DEF AudioOutPacket, usbVars, mainVars, outVars, seenVars, playVars, fillVars,
         Taken, Stream, Streaming
<1>2. CASE UNCHANGED ringVars
  BY <1>1, <1>2, SameQueued DEF Card!vars
<1>3. CASE ~UNCHANGED ringVars
  <2>1. frames \in Nat /\ Coming \in Generations /\ alt # 0 /\ Unpack(frames, Coming)
    BY <1>3, SelectionOrder, RingAssumption DEF AudioOutPacket, Coming
  <2>2. /\ RingTypes'
        /\ \/ RingLevel' = RingLevel /\ UNCHANGED ring
           \/ /\ accepting
              /\ RingLevel' = RingLevel + frames
              /\ \A k \in Nat :
                   /\ k < RingLevel => Queued(k)' = Queued(k)
                   /\ ~(k < RingLevel) /\ k < RingLevel + frames =>
                        Queued(k)' = [index |-> Plus(read_index, k), sent |-> Coming]
    BY <1>1, <2>1, UnpackQueues
  <2>3. accepting
    BY <1>3, <2>1 DEF Unpack
  <2>4. Stream = played_generation /\ Stream # None
    BY <2>3, SelectionOrder DEF IInv, RingInv, WalkInv, Stream
  <2>5. CASE RingLevel' = RingLevel /\ UNCHANGED ring
    <3>1. \A k : Queued(k)' = Queued(k)
      BY <1>1, <2>5 DEF Queued, Slot, Plus
    <3>2. Waiting' = Waiting
      BY <2>5, <3>1 DEF Waiting
    <3> QED
      BY <1>1, <3>2 DEF Card!vars
  <2>6. CASE ~(RingLevel' = RingLevel /\ UNCHANGED ring)
    <3>1. PICK l \in Nat : l = RingLevel /\ l + frames <= RingFrames /\ RingLevel' = l + frames
      BY <2>1, <2>2, <2>6, WaitingType DEF RingTypes
    <3> DEFINE packet == [k \in 1 .. frames |-> Coming]
    <3>2. packet \in Seq(Generations) /\ Len(packet) = frames
      <4>1. packet \in [1 .. frames -> Generations]
        BY <2>1
      <4>2. packet \in Seq(Generations)
        BY <2>1, <4>1, SeqDef
      <4>3. Len(packet) \in Nat /\ 1 .. frames = 1 .. Len(packet)
        BY <4>2, LenProperties
      <4> QED
        BY <2>1, <4>2, <4>3
    <3> HIDE DEF packet
    <3>3. /\ Waiting \o packet \in Seq(Generations)
          /\ Len(Waiting \o packet) = l + frames
          /\ \A k \in 1 .. l + frames :
               (Waiting \o packet)[k] = IF k <= l THEN Waiting[k] ELSE packet[k - l]
      <4>1. Waiting \in Seq(Generations) /\ Len(Waiting) = l
        BY <3>1, WaitingType
      <4> QED
        BY <3>2, <4>1, ConcatProperties
    <3>4. ASSUME NEW k \in 1 .. l + frames
          PROVE  (Waiting \o packet)[k] = Queued(k - 1)'.sent
      <4>1. k - 1 \in Nat /\ k \in Nat
        BY <2>1, <3>1
      <4>2. CASE k <= l
        <5>1. Waiting[k] = Queued(k - 1).sent
          BY <3>1, <4>1, <4>2, WaitingType
        <5>2. Queued(k - 1)' = Queued(k - 1)
          BY <2>2, <2>6, <3>1, <4>1, <4>2
        <5> QED
          BY <3>3, <4>2, <5>1, <5>2
      <4>3. CASE ~(k <= l)
        <5>1. k - l \in 1 .. frames /\ ~(k - 1 < RingLevel) /\ k - 1 < RingLevel + frames
          BY <2>1, <3>1, <4>1, <4>3
        <5>2. Queued(k - 1)'.sent = Coming
          BY <2>2, <2>6, <4>1, <5>1
        <5>3. packet[k - l] = Coming
          BY <5>1 DEF packet
        <5> QED
          BY <3>3, <4>3, <5>2, <5>3
      <4> QED
        BY <4>2, <4>3
    <3>5. Waiting' = [k \in 1 .. l + frames |-> Queued(k - 1)'.sent]
      BY <3>1 DEF Waiting
    <3>6. Waiting' = Waiting \o packet
      <4>1. \A k \in 1 .. l + frames : (Waiting \o packet)[k] \in Generations
        BY <3>3, ElementOfSeq
      <4>2. Waiting' \in [1 .. l + frames -> Generations]
        BY <3>4, <3>5, <4>1
      <4>3. l + frames \in Nat
        BY <2>1, <3>1
      <4> QED
        BY <3>3, <3>4, <3>5, <4>2, <4>3, SameSequence
    <3>7. Coming \in Stream .. stream_generation
      BY <2>4, SelectionOrder
    <3>8. ASSUME NEW k \in DOMAIN Waiting PROVE Waiting[k] <= Coming
      <4>1. k \in 1 .. l /\ k - 1 \in 0 .. RingFrames - 1 /\ k - 1 < RingLevel
        BY <2>1, <3>1, LevelType, RingConstants DEF Waiting
      <4> QED
        BY <3>1, <4>1, WaitingType DEF CardInv
    <3>9. Card!Format(stream_generation) # 0
      BY <2>1, SelectionOrder DEF IInv, SnapshotInv, Card!Format
    <3> QED
      BY <1>1, <2>4, <3>1, <3>6, <3>7, <3>8, <3>9, WaitingType
         DEF Card!Receive, Card!None, Card!Idle, None, packet
  <2> QED
    BY <2>5, <2>6
<1> QED
  BY <1>2, <1>3

\* Frames that are copied into a buffer leave at the front.
LEMMA CardPlay ==
  ASSUME TypeOK, IInv, CardInv, FillEnd
  PROVE  \/ \E frames \in 1 .. BufferFrames : Card!Play(frames)
         \/ UNCHANGED Card!vars
<1>1. /\ UNCHANGED <<selected, stream_generation, out_rate>>
      /\ Taken' = Taken /\ Stream' = Stream
      /\ pc = "copy"
  BY DEF FillEnd, usbVars, outVars, seenVars, playVars, At, Goto, Reading,
         Taken, Stream, Streaming
<1>2. PICK l \in Nat, f \in Nat :
        /\ l = RingLevel /\ f = FillFrames /\ f <= l /\ RingLevel' = l - f
        /\ f <= BufferFrames
  <2>1. RingInv
    BY DEF IInv
  <2>2. FillFrames <= BufferFrames
    BY RingAssumption DEF FillFrames, TypeOK, FillTypes
  <2> QED
    BY <2>1, <2>2, FillEndGivesBack, WaitingType
<1>3. \A k \in Nat : Queued(k)' = Queued(f + k)
  BY <1>2, FillEndGivesBack DEF IInv
<1>4. Taken = generation /\ Stream = generation /\ generation # None
  BY <1>1, SelectionOrder
     DEF IInv, RingInv, WalkInv, PlayedInv, Streaming, Stream, Taken, Reading
<1>5. /\ SubSeq(Waiting, f + 1, l) \in Seq(Generations)
      /\ Len(SubSeq(Waiting, f + 1, l)) = l - f
      /\ \A k \in 1 .. l - f : SubSeq(Waiting, f + 1, l)[k] = Waiting[f + k]
  <2>1. \A k \in f + 1 .. l : Waiting[k] \in Generations
    <3> TAKE k \in f + 1 .. l
    <3>1. k \in 1 .. Len(Waiting)
      BY <1>2, WaitingType
    <3> QED
      BY <3>1, WaitingType, ElementOfSeq
  <2>2. f + 1 \in Int /\ l \in Int /\ (IF f + 1 <= l THEN l - (f + 1) + 1 ELSE 0) = l - f
        /\ l - (f + 1) + 1 = l - f /\ \A k \in Int : f + 1 + k - 1 = f + k
    BY <1>2
  <2>3. /\ SubSeq(Waiting, f + 1, l) \in Seq(Generations)
        /\ Len(SubSeq(Waiting, f + 1, l)) = IF f + 1 <= l THEN l - (f + 1) + 1 ELSE 0
        /\ \A k \in 1 .. l - (f + 1) + 1 :
             SubSeq(Waiting, f + 1, l)[k] = Waiting[f + 1 + k - 1]
    BY <2>1, <2>2, SubSeqProperties
  <2> QED
    BY <2>2, <2>3
<1>6. ASSUME NEW k \in 1 .. l - f
      PROVE  SubSeq(Waiting, f + 1, l)[k] = Queued(k - 1)'.sent
  <2>1. k - 1 \in Nat /\ f + k \in 1 .. l /\ f + k - 1 = f + (k - 1)
    BY <1>2
  <2>2. Waiting[f + k] = Queued(f + (k - 1)).sent
    BY <1>2, <2>1, WaitingType
  <2> QED
    BY <1>3, <1>5, <2>1, <2>2
<1>7. Waiting' = SubSeq(Waiting, f + 1, Len(Waiting))
  <2>1. Waiting' = [k \in 1 .. l - f |-> Queued(k - 1)'.sent]
    BY <1>2 DEF Waiting
  <2>2. \A k \in 1 .. l - f : SubSeq(Waiting, f + 1, l)[k] \in Generations
    BY <1>5, ElementOfSeq
  <2>3. Waiting' \in [1 .. l - f -> Generations]
    BY <1>6, <2>1, <2>2
  <2>4. l - f \in Nat
    BY <1>2
  <2>5. Waiting' = SubSeq(Waiting, f + 1, l)
    BY <1>5, <1>6, <2>1, <2>3, <2>4, SameSequence
  <2> QED
    BY <1>2, <2>5, WaitingType
<1>8. CASE f > 0
  <2>1. f \in 1 .. BufferFrames
    BY <1>2, <1>8, RingAssumption
  <2>2. Card!Play(f)
    BY <1>1, <1>2, <1>4, <1>7, WaitingType DEF Card!Play, Card!None, None
  <2> QED
    BY <2>1, <2>2
<1>9. CASE f = 0
  <2>1. RingLevel' = RingLevel
    BY <1>2, <1>9
  <2>2. \A k \in 1 .. RingLevel : Queued(k - 1)' = Queued(k - 1)
    <3> TAKE k \in 1 .. RingLevel
    <3>1. k - 1 \in Nat /\ f + (k - 1) = k - 1
      BY <1>2, <1>9
    <3> QED
      BY <1>3, <3>1
  <2>3. Waiting' = Waiting
    BY <2>1, <2>2 DEF Waiting
  <2> QED
    BY <1>1, <2>3 DEF Card!vars
<1> QED
  BY <1>2, <1>8, <1>9

\* The host's selections.
LEMMA CardSelect ==
  ASSUME TypeOK, IInv, CardInv,
         \/ \E a \in Alts \cup {0} : SetAlternate(a)
         \/ \E r \in Rates : SetRate(r)
  PROVE  \E format \in Alts \cup {0}, r \in Rates : Card!Select(format, r)
<1>1. /\ Card!Format(stream_generation) = alt /\ Card!Rate(stream_generation) = rate
      /\ alt \in Alts \cup {0} /\ rate \in Rates
  BY DEF IInv, SnapshotInv, TypeOK, UsbTypes, Card!Format, Card!Rate
<1>2. /\ stream_generation < MaxGeneration /\ stream_generation' = stream_generation + 1
      /\ UNCHANGED <<out_rate, ringVars, read_index>>
      /\ Taken' = Taken /\ Stream' = Stream
  BY DEF SetAlternate, SetRate, mainVars, outVars, ringVars, seenVars, playVars, fillVars,
         Taken, Stream, Streaming
<1>3. Waiting' = Waiting
  BY <1>2, SameQueued
<1>4. ASSUME NEW a \in Alts \cup {0}, SetAlternate(a) PROVE Card!Select(a, rate)
  <2>1. selected' = [selected EXCEPT ![stream_generation + 1] = <<a, rate>>]
    BY <1>2, <1>4 DEF SetAlternate
  <2> QED
    BY <1>1, <1>2, <1>3, <2>1 DEF Card!Select
<1>5. ASSUME NEW r \in Rates, SetRate(r) PROVE Card!Select(alt, r)
  <2>1. selected' = [selected EXCEPT ![stream_generation + 1] = <<alt, r>>]
    BY <1>2, <1>5 DEF SetRate
  <2> QED
    BY <1>1, <1>2, <1>3, <2>1 DEF Card!Select
<1> QED
  BY <1>1, <1>4, <1>5

\* The steps of stream_update, and the end of a pass.
LEMMA CardTake ==
  ASSUME TypeOK, IInv, CardInv, CheckGeneration
  PROVE  Card!Take \/ UNCHANGED Card!vars
<1>1. /\ UNCHANGED <<selected, stream_generation, out_rate, ringVars, read_index>>
      /\ generation' = generation /\ Stream' = Stream
  BY DEF CheckGeneration, usbVars, outVars, ringVars, seenVars, playVars, fillVars,
         Stream, Streaming
<1>2. Waiting' = Waiting
  BY <1>1, SameQueued
<1>3. Taken = None
  BY DEF CheckGeneration, At, Taken, Reading
<1>4. CASE HeldStill
  <2>1. Taken' = stream_generation
    BY <1>1, <1>4 DEF CheckGeneration, HeldStill, Goto, Taken, Reading
  <2> QED
    BY <1>1, <1>2, <1>3, <2>1 DEF Card!Take, Card!None, None
<1>5. CASE ~HeldStill
  <2>1. Taken' = None
    BY <1>5 DEF CheckGeneration, Goto, Taken
  <2> QED
    BY <1>1, <1>2, <1>3, <2>1 DEF Card!vars
<1> QED
  BY <1>4, <1>5

LEMMA CardPrepare ==
  ASSUME TypeOK, IInv, CardInv, Start
  PROVE  Card!Prepare
<1>1. /\ UNCHANGED <<selected, stream_generation>>
      /\ Taken' = Taken /\ Stream' = Stream /\ Taken = generation
  BY DEF Start, At, Goto, usbVars, seenVars, playVars, fillVars, Stream, Streaming, Taken,
         Reading
<1>2. Stream = None
  BY DEF IInv, RingInv, WalkInv, Start, At, Stream, Streaming
<1>3. Waiting' = <<>>
  <2>1. RingLevel' = 0 /\ 1 .. 0 = {}
    BY StartEmpties
  <2>2. Waiting' = [k \in {} |-> Queued(k - 1)'.sent]
    BY <2>1 DEF Waiting
  <2> QED
    BY <2>2
<1>4. Card!Rate(generation) = s_rate
  BY DEF IInv, SnapshotInv, Start, At, Reading, Card!Rate
<1>5. out_rate' \in {out_rate} \cup ({s_rate} \cap PlayableRates)
  BY DEF Start
<1> QED
  BY <1>1, <1>2, <1>3, <1>4, <1>5, SelectionOrder DEF Card!Prepare, Card!None, None

LEMMA CardBegin ==
  ASSUME TypeOK, IInv, CardInv, Accept
  PROVE  Card!Begin
<1>1. /\ UNCHANGED <<selected, stream_generation, out_rate, ringVars, read_index>>
      /\ Taken' = Taken /\ Taken = generation /\ Stream' = generation
  BY DEF Accept, At, Goto, usbVars, outVars, ringVars, seenVars, Stream, Streaming, Taken,
         Reading
<1>2. Stream = None
  BY DEF IInv, RingInv, WalkInv, Accept, At, Stream, Streaming
<1>3. Waiting' = Waiting /\ Waiting = <<>>
  <2>1. RingLevel = 0
    BY DEF IInv, RingInv, WalkInv, Accept, At
  <2>2. Waiting \in Seq(Generations) /\ Len(Waiting) = 0
    BY <2>1, WaitingType
  <2>3. Waiting = <<>>
    BY <2>2, EmptySeq
  <2> QED
    BY <1>1, <2>3, SameQueued
<1>4. Card!Format(generation) # 0 /\ Card!Rate(generation) = out_rate
  BY DEF IInv, SnapshotInv, CardInv, Accept, At, Reading, Card!Format, Card!Rate
<1> QED
  BY <1>1, <1>2, <1>3, <1>4, SelectionOrder DEF Card!Begin, Card!None, Card!Idle, None

LEMMA CardEnd ==
  ASSUME TypeOK, IInv, CardInv, Stop
  PROVE  Card!End
<1>1. /\ UNCHANGED <<selected, stream_generation, out_rate, ringVars, read_index>>
      /\ Taken' = Taken /\ Taken = generation
  BY DEF Stop, At, Goto, usbVars, outVars, ringVars, seenVars, Taken, Reading
<1>2. Stream = played_generation /\ Stream' = None
  BY DEF IInv, RingInv, WalkInv, Stop, MustStop, At, fillVars, Stream, Streaming
<1>3. Waiting' = Waiting
  BY <1>1, SameQueued
<1> QED
  BY <1>1, <1>2, <1>3, SelectionOrder DEF Card!End, Card!None, None

\* All else leaves the card as it is, but for the end of a pass.
LEMMA CardSame ==
  ASSUME TypeOK, IInv, CardInv,
         UNCHANGED <<usbVars, ringVars, read_index, played_generation, generation, out_rate>>,
         Streaming' = Streaming,
         \/ pc' = "generation"
         \/ pc' \in Reading /\ pc \in Reading
         \/ pc' \notin Reading \cup {"generation"} /\ pc \notin Reading \cup {"generation"}
  PROVE  [Card!Next]_(Card!vars)
<1>1. /\ UNCHANGED <<selected, stream_generation>>
      /\ Stream' = Stream /\ Waiting' = Waiting
  BY SameQueued DEF usbVars, Stream
<1>2. \/ Taken' = Taken
      \/ Taken # None /\ Taken' = None
  <2>1. CASE pc' \in Reading \cup {"generation"}
    <3>1. Taken' = None
      BY <2>1 DEF Taken, Reading
    <3> QED
      BY <3>1
  <2>2. CASE pc' \notin Reading \cup {"generation"} /\ pc \notin Reading \cup {"generation"}
    BY <2>2 DEF Taken, Reading
  <2> QED
    BY <2>1, <2>2
<1>3. CASE Taken' = Taken
  BY <1>1, <1>3 DEF Card!vars
<1>4. CASE Taken # None /\ Taken' = None
  <2>1. Card!LetGo
    BY <1>1, <1>4 DEF Card!LetGo, Card!None, None
  <2> QED
    BY <2>1 DEF Card!Next
<1> QED
  BY <1>2, <1>3, <1>4

LEMMA CardStep ==
  ASSUME TypeOK, IInv, CardInv, [Next]_vars
  PROVE  [Card!Next]_(Card!vars)
<1> DEFINE Others ==
      /\ UNCHANGED <<usbVars, ringVars, read_index, played_generation, generation, out_rate>>
      /\ Streaming' = Streaming
      /\ \/ pc' = "generation"
         \/ pc' \in Reading /\ pc \in Reading
         \/ pc' \notin Reading \cup {"generation"} /\ pc \notin Reading \cup {"generation"}
<1>1. CASE \/ \E a \in Alts \cup {0} : SetAlternate(a)
           \/ \E r \in Rates : SetRate(r)
  BY <1>1, CardSelect DEF Card!Next, Card!Idle
<1>2. ASSUME NEW frames \in PacketFrames, AudioOutPacket(frames)
      PROVE  [Card!Next]_(Card!vars)
  BY <1>2, CardReceive DEF Card!Next
<1>3. CASE CheckGeneration
  BY <1>3, CardTake DEF Card!Next
<1>4. CASE Start
  BY <1>4, CardPrepare DEF Card!Next
<1>5. CASE Accept
  BY <1>5, CardBegin DEF Card!Next
<1>6. CASE Stop
  BY <1>6, CardEnd DEF Card!Next
<1>7. CASE FillEnd
  BY <1>7, CardPlay DEF Card!Next
<1>8. CASE ReadGeneration
  <2>1. /\ UNCHANGED <<selected, stream_generation, out_rate, ringVars, read_index>>
        /\ Taken' = Taken /\ Stream' = Stream
    BY <1>8 DEF ReadGeneration, At, Goto, usbVars, outVars, ringVars, playVars, fillVars,
                Taken, Reading, Stream, Streaming
  <2> QED
    BY <2>1, SameQueued DEF Card!vars
<1>9. CASE ServiceEnd
  <2>1. Others
    BY <1>9 DEF ServiceEnd, At, Goto, IInv, RingInv, WalkInv, Streaming, Reading, usbVars,
                outVars, seenVars
  <2> QED
    BY <2>1, CardSame
<1>10. CASE Others
  BY <1>10, CardSame
<1>11. \/ \E a \in Alts \cup {0} : SetAlternate(a)
       \/ \E r \in Rates : SetRate(r)
       \/ \E frames \in PacketFrames : AudioOutPacket(frames)
       \/ CheckGeneration \/ Start \/ Accept \/ Stop \/ FillEnd \/ ReadGeneration
       \/ ServiceEnd
       \/ Others
  BY DEF vars, usbVars, packetVars, seenVars, playVars, refuseVars, gateVars, fillVars,
         fbVars, outVars, ringVars, mainVars, Streaming, Reading, TypeOK, PlayTypes,
         Next, MainLoop, UsbInterrupt, At, Goto, WalkBegins, EmptyRing, FilledOne,
         FindsFree, Tick, Drain, ReadAlt, ReadRate, ReadPacket, ReadLast, ReadClock,
         PlayOn, StopFeedback, NoStart, Service, Skip, FillSilence, FillBegin,
         NoFeedback, Measure, Steer
<1> QED
  BY <1>1, <1>2, <1>3, <1>4, <1>5, <1>6, <1>7, <1>8, <1>9, <1>10, <1>11

LEMMA CardStart == Init => CardInv /\ Card!Init
<1> SUFFICES ASSUME Init PROVE CardInv /\ Card!Init
  OBVIOUS
<1>1. RingLevel = 0
  BY RingConstants, ModSmall DEF Init, RingLevel
<1>2. CardInv
  BY <1>1, RingConstants DEF Init, CardInv, Coming
<1>3. Waiting = <<>>
  <2>1. 1 .. 0 = {}
    OBVIOUS
  <2> QED
    BY <1>1, <2>1 DEF Waiting
<1>4. Taken = None /\ Stream = None
  BY DEF Init, Taken, Stream, Streaming
<1>5. PICK r \in PlayableRates :
        /\ selected = [g \in Generations |-> <<0, r>>] /\ out_rate = r
        /\ stream_generation = 0
  BY DEF Init
<1> QED
  BY <1>2, <1>3, <1>4, <1>5 DEF Card!Init, Card!None, Card!Idle, None, Generations

\* The sound card keeps SoundCard's promise: it goes by one selection at a time, its
\* format with its rate, and plays what was sent for it or a later one, in order, once.
THEOREM CardRefines == Spec => KeepsToSelections
<1>1. TypeOK /\ IInv /\ CardInv /\ [Next]_vars => CardInv'
  <2> SUFFICES ASSUME TypeOK, IInv, CardInv, [Next]_vars PROVE CardInv'
    OBVIOUS
  <2>1. RingInv
    BY DEF IInv
  <2> QED
    BY <2>1, WantStep, ComingStep DEF CardInv
<1>2. TypeOK /\ IInv /\ CardInv /\ [Next]_vars => [Card!Next]_(Card!vars)
  BY CardStep
<1>3. Init => CardInv /\ Card!Init
  BY CardStart
<1> QED
  BY <1>1, <1>2, <1>3, Inductive, PTL DEF Spec, KeepsToSelections, Card!Spec
=============================================================================
