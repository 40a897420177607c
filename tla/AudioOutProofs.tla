--------------------------- MODULE AudioOutProofs ---------------------------
(***************************************************************************)
(* The safety of audio_out for any number of buffers, and that it keeps    *)
(* what AudioQueue promises.                                               *)
(*                                                                         *)
(* Why the IRQ can trust next_buffer is an argument about order: the       *)
(* channels hold the buffers taken last, and the one that holds the newer  *)
(* never finishes before the other.  IInv states it, beside the relations  *)
(* between the hardware's registers and the handler's bookkeeping.         *)
(***************************************************************************)
EXTENDS AudioOutQueue, SequenceTheorems, TLAPS

\* The handler has freed c's buffer and not yet decided what c plays next.
Handling(c) == isr \in {"sample", "arm"} /\ isr_c = c

\* c's buffer has played, though the handler may not have released it.
Finished(c) == c \in ints0 \/ Handling(c)

\* The buffers behind next_buffer, by how long ago they were taken.
Newest(b) == b \in Buffers /\ Succ(b) = next_buffer
Older(b)  == b \in Buffers /\ Succ(Succ(b)) = next_buffer
Oldest(b) == b \in Buffers /\ Succ(Succ(Succ(b))) = next_buffer

HardwareInv ==
  /\ ctrl # None => running = None
  /\ pc = "off" => running = None /\ ctrl = None /\ ints0 = {} /\ isr = "off"
  /\ pc # "off" => running # None \/ ctrl # None
  /\ \A c \in Channels :
       /\ read_addr[c] = Spent <=> ctrl = c
       /\ ctrl = c => c \in ints0 \/ (isr = "sample" /\ isr_c = c)
       /\ Finished(c) => read_addr[c] \notin Buffers

HandlerInv ==
  /\ isr # "off" => pc \in {"idle", "scan", "fill", "reprogram"}
  /\ isr = "arm" => isr_c \notin ints0
  /\ isr = "arm" /\ running = isr_c => ~slack /\ Other(isr_c) \in ints0

LoadedInv ==
  /\ \A c \in Channels :
       /\ read_addr[c] \in Buffers => chan_buffer[c] = read_addr[c]
       /\ chan_buffer[c] \in Buffers =>
            (buffer_ready[chan_buffer[c]] <=> ~Handling(c))
  /\ \A b \in Buffers : ~(chan_buffer[0] = b /\ chan_buffer[1] = b)

\* What each channel holds, and that the newer finishes last.
OrderInv ==
  \A c \in Channels :
    LET d == Other(c) IN
    /\ chan_buffer[c] # None =>
         \/ Newest(chan_buffer[c])
         \/ Older(chan_buffer[c])
         \/ Oldest(chan_buffer[c]) /\ isr # "off" /\ isr_c = c /\ Finished(c)
    /\ chan_buffer[c] # None /\ ~Newest(chan_buffer[c]) =>
         Finished(c) \/ Newest(chan_buffer[d])
    /\ Newest(chan_buffer[c]) /\ Older(chan_buffer[d]) =>
         /\ Finished(d) \/ running = d \/ ctrl = c
         /\ Finished(c) => Finished(d)

\* Channel 0 is looked at first: had it finished before channel 1, it would
\* not be left for the handler's next pass.
PassInv ==
  isr_c = 1 /\ 0 \in ints0 /\ Older(chan_buffer[0]) =>
    /\ isr \in {"off", "test"}
    /\ isr = "test" => 1 \notin ints0 /\ (running = 1 => ~slack)

FillInv == pc = "fill" => ~buffer_ready[i]

RateInv ==
  /\ QueuedAtCurrentRate
  /\ pc \in {"off", "reprogram"} => \A b \in Buffers : ~Queued(b)

IInv ==
  /\ HardwareInv
  /\ HandlerInv
  /\ LoadedInv
  /\ OrderInv
  /\ PassInv
  /\ FillInv
  /\ RateInv

-----------------------------------------------------------------------------

\* Facts about the ring and the channels; the proofs below use no others.
LEMMA Zero == 0 \in Buffers /\ 0 \in Channels /\ 0 \in Blocks /\ 0 \in Visits
  BY NumBuffersAssumption, NumBlocksAssumption DEF Buffers, Channels, Blocks, Visits

LEMMA NotBuffers ==
  None \notin Buffers /\ Silence \notin Buffers /\ Spent \notin Buffers
  BY DEF Buffers, None, Silence, Spent

LEMMA SuccType == ASSUME NEW b \in Buffers PROVE Succ(b) \in Buffers
  BY NumBuffersAssumption DEF Buffers, Succ

LEMMA OtherType == ASSUME NEW c \in Channels PROVE Other(c) \in Channels
  BY DEF Channels, Other

LEMMA BlockType == ASSUME NEW k \in Blocks PROVE (k + 1) % NumBlocks \in Blocks
  BY NumBlocksAssumption, NumBuffersAssumption DEF Blocks

LEMMA VisitType ==
  ASSUME NEW k \in Visits, k < NumBuffers PROVE k + 1 \in Visits
  BY NumBuffersAssumption DEF Visits

\* A buffer is only filled inside the loop: TypeOK alone does not say so.
TypeInv == TypeOK /\ (pc = "fill" => n < NumBuffers)

LEMMA TypeStep == TypeInv /\ [Next]_vars => TypeInv'
<1> SUFFICES ASSUME TypeInv, [Next]_vars PROVE TypeInv'
  OBVIOUS
<1> USE Zero DEF TypeInv, TypeOK, hwVars, isrVars, sharedVars, loopVars, audioVars
<1>1. ASSUME NEW c \in Channels, Complete(c) PROVE TypeInv'
  BY <1>1 DEF Complete
<1>2. ASSUME NEW c \in Channels, Chain(c) PROVE TypeInv'
  BY <1>2, OtherType, ZenonT(100) DEF Chain, Channels
<1>3. CASE IsrEnter
  BY <1>3 DEF IsrEnter
<1>4. CASE IsrSkip
  BY <1>4 DEF IsrSkip, IsrAdvance, Channels
<1>5. CASE IsrFree
  BY <1>5 DEF IsrFree
<1>6. CASE IsrSample
  BY <1>6 DEF IsrSample, TooLate, IsrAdvance, Channels
<1>7. CASE IsrArm
  BY <1>7, SuccType DEF IsrArm, BufferAfterTaken, IsrAdvance, Channels, Silence
<1>8. ASSUME NEW r \in Rates, AudioOutInit(r) PROVE TypeInv'
  BY <1>8 DEF AudioOutInit
<1>9. ASSUME NEW r \in Rates, SetSampleRate(r) PROVE TypeInv'
  BY <1>9 DEF SetSampleRate, DiscardQueued
<1>10. CASE Mask \/ Unmask
  BY <1>10 DEF Mask, Unmask
<1>11. CASE AudioOutStart \/ AudioOutService
  <2>1. BeginService /\ streaming' \in BOOLEAN
    BY <1>11 DEF AudioOutStart, AudioOutService
  <2> QED
    BY <2>1 DEF BeginService, OldestFree
<1>12. CASE AudioOutStop
  BY <1>12 DEF AudioOutStop
<1>13. CASE ServiceFill \/ ServiceSkip
  BY <1>13, SuccType, VisitType DEF ServiceFill, ServiceSkip
<1>14. CASE ServiceReady
  BY <1>14, SuccType, VisitType, BlockType DEF ServiceReady
<1>15. CASE ServiceEnd
  BY <1>15 DEF ServiceEnd
<1>16. CASE ProgramSampleRate
  BY <1>16 DEF ProgramSampleRate
<1>17. CASE IsrPoll \/ UNCHANGED vars
  BY <1>17 DEF IsrPoll, vars
<1> QED
  BY <1>1, <1>2, <1>3, <1>4, <1>5, <1>6, <1>7, <1>8, <1>9, <1>10, <1>11,
     <1>12, <1>13, <1>14, <1>15, <1>16, <1>17
     DEF Next, Hardware, Isr, RunLoop

\* Every variable keeps its type, for any ring and any set of rates.
THEOREM TypeCorrect == Spec => []TypeOK
<1>1. Init => TypeInv
  BY Zero DEF Init, TypeInv, TypeOK
<1>2. TypeInv => TypeOK
  BY DEF TypeInv
<1> QED
  BY <1>1, <1>2, TypeStep, PTL DEF Spec

LEMMA OtherFacts ==
  ASSUME NEW c \in Channels
  PROVE  /\ Other(c) \in Channels /\ Other(c) # c /\ Other(Other(c)) = c
         /\ \A d \in Channels : d = c \/ d = Other(c)
  BY DEF Channels, Other

-----------------------------------------------------------------------------
(***************************************************************************)
(* IInv is inductive.                                                      *)
(***************************************************************************)
LEMMA HardwareStep ==
  ASSUME TypeInv, HardwareInv, HandlerInv, [Next]_vars
  PROVE  HardwareInv' /\ HandlerInv'
<1> USE OtherFacts, NotBuffers
    DEF TypeInv, TypeOK, HardwareInv, HandlerInv, Finished, Handling, hwVars,
        isrVars, sharedVars, loopVars, audioVars, Undisturbed, MayComplete
<1>1. ASSUME NEW c \in Channels, Complete(c) PROVE HardwareInv' /\ HandlerInv'
  BY <1>1 DEF Complete, Channels, None, Spent, Silence
<1>2. ASSUME NEW c \in Channels, Chain(c) PROVE HardwareInv' /\ HandlerInv'
  BY <1>2 DEF Chain, Channels, None, Spent, Silence
<1>3. CASE IsrEnter
  BY <1>3 DEF IsrEnter
<1>4. CASE IsrSkip \/ IsrPoll
  BY <1>4 DEF IsrSkip, IsrPoll, IsrAdvance, vars
<1>5. CASE IsrFree
  BY <1>5 DEF IsrFree
<1>6. CASE IsrSample
  <2>1. ctrl # isr_c
    BY <1>6 DEF IsrSample, TooLate, IsrSettled, Silence, Spent, None, Channels
  <2>2. CASE running = isr_c \/ isr_c \in ints0
    BY <1>6, <2>1, <2>2 DEF IsrSample, TooLate, IsrAdvance, Channels
  <2>3. CASE ~(running = isr_c \/ isr_c \in ints0)
    BY <1>6, <2>1, <2>3 DEF IsrSample, TooLate
  <2> QED
    BY <2>2, <2>3
<1>7. CASE IsrArm
  BY <1>7 DEF IsrArm, BufferAfterTaken, IsrAdvance
<1>8. ASSUME NEW r \in Rates, AudioOutInit(r)
      PROVE  HardwareInv' /\ HandlerInv'
  BY <1>8 DEF AudioOutInit, None
<1>9. ASSUME NEW r \in Rates, SetSampleRate(r)
      PROVE  HardwareInv' /\ HandlerInv'
  BY <1>9 DEF SetSampleRate, DiscardQueued
<1>10. CASE Mask \/ Unmask
  BY <1>10 DEF Mask, Unmask
<1>11. CASE AudioOutStart \/ AudioOutService \/ AudioOutStop
  BY <1>11 DEF AudioOutStart, AudioOutService, AudioOutStop, BeginService, OldestFree
<1>12. CASE ServiceFill \/ ServiceSkip \/ ServiceReady \/ ServiceEnd
  BY <1>12 DEF ServiceFill, ServiceSkip, ServiceReady, ServiceEnd
<1>13. CASE ProgramSampleRate
  BY <1>13 DEF ProgramSampleRate
<1>14. CASE UNCHANGED vars
  BY <1>14 DEF vars
<1> QED
  BY <1>1, <1>2, <1>3, <1>4, <1>5, <1>6, <1>7, <1>8, <1>9, <1>10, <1>11,
     <1>12, <1>13, <1>14 DEF Next, Hardware, Isr, RunLoop

\* Steps of the hardware and of the run loop: nothing is taken or released.
LEMMA LoadedStepOutside ==
  ASSUME TypeInv, IInv, Hardware \/ RunLoop \/ UNCHANGED vars
  PROVE  LoadedInv' /\ OrderInv'
<1> USE NotBuffers
    DEF TypeInv, TypeOK, IInv, HardwareInv, LoadedInv, OrderInv, Finished,
        Handling, Newest, Older, Oldest, hwVars, isrVars, sharedVars, loopVars,
        audioVars, Undisturbed
<1>1. ASSUME NEW c \in Channels, Complete(c) PROVE LoadedInv' /\ OrderInv'
  BY <1>1 DEF Complete, Channels, Other, None, Spent
<1>2. ASSUME NEW c \in Channels, Chain(c) PROVE LoadedInv' /\ OrderInv'
  <2>1. LoadedInv'
    BY <1>2 DEF Chain, Channels, None, Silence
  <2>2. ASSUME NEW e \in Channels,
               Newest(chan_buffer[e]), Older(chan_buffer[Other(e)])
        PROVE  Finished(Other(e)) \/ running' = Other(e) \/ ctrl' = e
    <3>1. CASE c = e
      BY <1>2, <3>1 DEF Chain
    <3>2. CASE c = Other(e)
      BY <1>2, <3>2 DEF Chain
    <3> QED
      BY <3>1, <3>2, OtherFacts
  <2> QED
    BY <1>2, <2>1, <2>2 DEF Chain
<1>3. ASSUME NEW r \in Rates, AudioOutInit(r) PROVE LoadedInv' /\ OrderInv'
  BY <1>3 DEF AudioOutInit, Channels, Other, None
<1>4. ASSUME NEW r \in Rates, SetSampleRate(r) PROVE LoadedInv' /\ OrderInv'
  BY <1>4 DEF SetSampleRate, DiscardQueued
<1>5. CASE Mask \/ Unmask \/ ProgramSampleRate
  BY <1>5 DEF Mask, Unmask, ProgramSampleRate
<1>6. CASE AudioOutStart \/ AudioOutService \/ AudioOutStop
  BY <1>6 DEF AudioOutStart, AudioOutService, AudioOutStop, BeginService, OldestFree
<1>7. CASE ServiceFill \/ ServiceSkip \/ ServiceEnd
  BY <1>7 DEF ServiceFill, ServiceSkip, ServiceEnd
<1>8. CASE ServiceReady
  BY <1>8 DEF ServiceReady
<1>9. CASE UNCHANGED vars
  BY <1>9 DEF vars
<1> QED
  BY <1>1, <1>2, <1>3, <1>4, <1>5, <1>6, <1>7, <1>8, <1>9 DEF Hardware, RunLoop

\* Steps of the handler that take no buffer.
LEMMA LoadedStepHandler ==
  ASSUME TypeInv, IInv, IsrEnter \/ IsrSkip \/ IsrFree \/ IsrPoll \/ IsrSample
  PROVE  LoadedInv' /\ OrderInv'
<1> USE NotBuffers
    DEF TypeInv, TypeOK, IInv, HardwareInv, LoadedInv, OrderInv, Finished,
        Handling, Newest, Older, Oldest, hwVars, isrVars, sharedVars, loopVars,
        audioVars, Undisturbed
<1>1. CASE IsrEnter
  BY <1>1 DEF IsrEnter, Channels, Other
<1>2. CASE IsrSkip \/ IsrPoll
  BY <1>2 DEF IsrSkip, IsrPoll, IsrAdvance, Channels, Other, vars
<1>3. CASE IsrFree
  BY <1>3, ZenonT(100) DEF IsrFree, Channels, Other, None
<1>4. CASE IsrSample
  BY <1>4 DEF IsrSample, TooLate, IsrAdvance, IsrSettled, Channels, Other, None
<1> QED
  BY <1>1, <1>2, <1>3, <1>4

\* What taking a buffer does to the others: each grows older, and with three
\* buffers or more none of the two behind is the one taken.
LEMMA Taking ==
  ASSUME NEW t \in Buffers, t = next_buffer, NEW b \in Buffers
  PROVE  /\ Succ(t) \in Buffers
         /\ Newest(b) => b # t /\ ~Older(b)
         /\ Older(b) => b # t
         /\ next_buffer' = Succ(t) =>
              /\ Newest(t)' /\ ~Older(t)'
              /\ Newest(b) => Older(b)' /\ ~Newest(b)'
              /\ Older(b) => Oldest(b)' /\ ~Newest(b)' /\ ~Older(b)'
  BY NumBuffersAssumption DEF Buffers, Succ, Newest, Older, Oldest

LEMMA LoadedStepArm ==
  ASSUME TypeInv, IInv, IsrArm
  PROVE  LoadedInv' /\ OrderInv' /\ PassInv'
<1>1. PICK c \in Channels : c = isr_c
  BY DEF TypeInv, TypeOK
<1>2. PICK d \in Channels : d = Other(c)
  BY OtherFacts
<1>3. PICK t \in Buffers : t = next_buffer
  BY DEF TypeInv, TypeOK
<1>4. PICK x \in Buffers \cup {None} : x = chan_buffer[d]
  BY DEF TypeInv, TypeOK
<1>5. /\ c # d /\ Other(d) = c /\ \A e \in Channels : e = c \/ e = d
      /\ Handling(c) /\ ~Handling(d) /\ c \notin ints0
  BY <1>1, <1>2, OtherFacts DEF IInv, HandlerInv, IsrArm, BufferAfterTaken, Handling
<1>6. x # None => Newest(x) \/ Older(x)
  BY <1>1, <1>4, <1>5 DEF IInv, OrderInv, IsrArm, BufferAfterTaken
<1>7. x # None /\ ~Newest(x) => d \in ints0 /\ c = 0 /\ d = 1
  <2> SUFFICES ASSUME x # None, ~Newest(x) PROVE d \in ints0 /\ c = 0 /\ d = 1
    OBVIOUS
  <2>1. Older(x)
    BY <1>6
  <2>2. d \in ints0
    BY <1>2, <1>4, <1>5, <2>1 DEF IInv, OrderInv, Finished
  <2>3. d # 0
    BY <1>1, <1>4, <1>5, <2>1, <2>2
       DEF IInv, PassInv, IsrArm, BufferAfterTaken, Channels
  <2> QED
    BY <2>2, <2>3, <1>5 DEF Channels
<1>8. x # None => x # t
  BY <1>3, <1>6, Taking
<1>9. /\ ints0' = ints0 /\ running' = running /\ ctrl' = ctrl
      /\ buffer_ready' = buffer_ready /\ slack' = slack
      /\ chan_buffer'[d] = x /\ read_addr'[d] = read_addr[d]
      /\ isr' \in {"off", "test"}
      /\ c = 0 => isr' = "test" /\ isr_c' = 1
      /\ c = 1 => isr' = "off" /\ isr_c' = 0
  BY <1>1, <1>4, <1>5
     DEF IsrArm, BufferAfterTaken, IsrAdvance, TypeInv, TypeOK, Channels
<1>10. \A e \in Channels : ~Handling(e)' /\ (Finished(e)' <=> e \in ints0)
  BY <1>9 DEF Finished, Handling
<1>11. CASE buffer_ready[next_buffer]
  <2>1. /\ next_buffer' = Succ(t) /\ buffer_ready[t]
        /\ chan_buffer'[c] = t /\ read_addr'[c] = t
    BY <1>1, <1>3, <1>11 DEF IsrArm, BufferAfterTaken, TypeInv, TypeOK
  <2>2. Newest(t)' /\ ~Older(t)'
    BY <1>3, <2>1, Taking
  <2>3. /\ Newest(x) => Older(x)' /\ ~Newest(x)'
        /\ Older(x) => Oldest(x)' /\ ~Newest(x)' /\ ~Older(x)'
    BY <1>3, <2>1, Taking DEF Newest, Older
  <2>4. ASSUME NEW e \in Channels
        PROVE  /\ read_addr'[e] \in Buffers => chan_buffer'[e] = read_addr'[e]
               /\ chan_buffer'[e] \in Buffers => buffer_ready[chan_buffer'[e]]
    <3>1. CASE e = c
      BY <2>1, <3>1
    <3>2. CASE e = d
      BY <1>4, <1>5, <1>9, <3>2 DEF IInv, LoadedInv
    <3> QED
      BY <3>1, <3>2, <1>5
  <2>5. \A b \in Buffers : ~(chan_buffer'[c] = b /\ chan_buffer'[d] = b)
    BY <1>8, <1>9, <2>1, NotBuffers
  <2>6. LoadedInv'
    BY <1>5, <1>9, <1>10, <2>4, <2>5 DEF LoadedInv, Channels
  <2>7. d \in ints0 \/ running = d
    BY <1>1, <1>2, <1>5
       DEF IInv, HardwareInv, HandlerInv, TypeInv, TypeOK, IsrArm,
           BufferAfterTaken, None, Channels
  <2>8. OrderInv'
    <3>1. ASSUME x # None, ~Newest(x)
          PROVE  Oldest(x)' /\ isr' # "off" /\ isr_c' = d /\ Finished(d)'
      BY <1>6, <1>7, <1>9, <1>10, <2>3, <3>1
    <3> QED
      BY <1>2, <1>5, <1>7, <1>9, <1>10, <2>1, <2>2, <2>3, <2>7, <3>1 DEF OrderInv
  <2>9. PassInv'
    BY <1>5, <1>9, <2>1, <2>2 DEF PassInv, Channels
  <2> QED
    BY <2>6, <2>8, <2>9
<1>12. CASE ~buffer_ready[next_buffer]
  <2>1. /\ next_buffer' = next_buffer
        /\ chan_buffer'[c] = None /\ read_addr'[c] = Silence
    BY <1>1, <1>12 DEF IsrArm, BufferAfterTaken, TypeInv, TypeOK
  <2>2. LoadedInv'
    BY <1>4, <1>5, <1>9, <1>10, <2>1, NotBuffers DEF IInv, LoadedInv, Channels
  <2>3. ~Newest(None)' /\ ~Older(None)' /\ (Newest(x)' <=> Newest(x))
        /\ (Older(x)' <=> Older(x))
    BY <2>1, NotBuffers DEF Newest, Older
  <2>4. OrderInv'
    BY <1>2, <1>5, <1>6, <1>7, <1>9, <1>10, <2>1, <2>3 DEF OrderInv
  <2>5. PassInv'
    BY <1>5, <1>9, <2>1, <2>3 DEF PassInv, Channels
  <2> QED
    BY <2>2, <2>4, <2>5
<1> QED
  BY <1>11, <1>12

LEMMA PassStep ==
  ASSUME TypeInv, IInv, [Next]_vars, ~IsrArm
  PROVE  PassInv'
<1> USE NotBuffers
    DEF TypeInv, TypeOK, IInv, HardwareInv, HandlerInv, OrderInv, PassInv,
        Finished, Handling, Newest, Older, hwVars, isrVars, sharedVars, loopVars,
        audioVars, Undisturbed, Channels, Other, None
<1>1. ASSUME NEW c \in Channels, Complete(c) PROVE PassInv'
  <2> SUFFICES ASSUME isr_c = 1, Older(chan_buffer[0])
               PROVE  PassInv'
    BY <1>1 DEF Complete
  <2>1. ~Newest(chan_buffer[0])
    BY Taking
  <2>2. 0 \in ints0 \/ (Newest(chan_buffer[1]) /\ ~Finished(1))
    <3> HIDE DEF Newest, Older, None, TypeInv
    <3>1. chan_buffer[0] # None
      BY DEF Older
    <3> QED
      BY <2>1, <3>1
  <2>3. isr # "off" => slack
    BY <1>1 DEF Complete, MayComplete
  <2>4. CASE 0 \in ints0
    BY <1>1, <2>3, <2>4 DEF Complete
  <2>5. CASE 0 \notin ints0
    BY <1>1, <2>2, <2>5 DEF Complete
  <2> QED
    BY <2>4, <2>5
<1>2. ASSUME NEW c \in Channels, Chain(c) PROVE PassInv'
  BY <1>2 DEF Chain
<1>3. CASE IsrEnter \/ IsrSkip \/ IsrFree \/ IsrPoll \/ IsrSample
  BY <1>3 DEF IsrEnter, IsrSkip, IsrFree, IsrPoll, vars, IsrSample, TooLate, IsrAdvance
<1>4. CASE RunLoop
  BY <1>4
     DEF RunLoop, AudioOutInit, SetSampleRate, DiscardQueued, Mask, Unmask,
         AudioOutStart, AudioOutService, AudioOutStop, BeginService, OldestFree,
         ServiceFill, ServiceSkip, ServiceReady, ServiceEnd, ProgramSampleRate
<1>5. CASE UNCHANGED vars
  BY <1>5 DEF vars
<1> QED
  BY <1>1, <1>2, <1>3, <1>4, <1>5 DEF Next, Hardware, Isr

\* What is queued was made for the current rate, and a buffer being filled is
\* not marked ready.
LEMMA BuffersStep ==
  ASSUME TypeInv, IInv, [Next]_vars
  PROVE  FillInv' /\ RateInv'
<1> USE NotBuffers
    DEF TypeInv, TypeOK, IInv, HandlerInv, LoadedInv, FillInv, RateInv,
        Handling, QueuedAtCurrentRate, Queued, hwVars, isrVars, sharedVars,
        loopVars, audioVars, Undisturbed, Channels
<1>1. ASSUME NEW c \in Channels, Complete(c) \/ Chain(c)
      PROVE  FillInv' /\ RateInv'
  BY <1>1 DEF Complete, Chain
<1>2. CASE IsrEnter \/ IsrSkip \/ IsrPoll
  BY <1>2 DEF IsrEnter, IsrSkip, IsrPoll, vars
<1>3. CASE IsrFree
  BY <1>3 DEF IsrFree
<1>4. CASE IsrSample
  BY <1>4 DEF IsrSample, TooLate
<1>5. CASE IsrArm
  BY <1>5 DEF IsrArm, BufferAfterTaken
<1>6. ASSUME NEW r \in Rates, AudioOutInit(r) PROVE FillInv' /\ RateInv'
  BY <1>6 DEF AudioOutInit
<1>7. ASSUME NEW r \in Rates, SetSampleRate(r) PROVE FillInv' /\ RateInv'
  BY <1>7 DEF SetSampleRate, DiscardQueued
<1>8. CASE Mask \/ Unmask
  BY <1>8 DEF Mask, Unmask
<1>9. CASE AudioOutStart \/ AudioOutService \/ AudioOutStop
  BY <1>9 DEF AudioOutStart, AudioOutService, AudioOutStop, BeginService, OldestFree
<1>10. CASE ServiceFill \/ ServiceSkip \/ ServiceEnd
  BY <1>10 DEF ServiceFill, ServiceSkip, ServiceEnd
<1>11. CASE ServiceReady
  BY <1>11 DEF ServiceReady
<1>12. CASE ProgramSampleRate
  BY <1>12 DEF ProgramSampleRate
<1>13. CASE UNCHANGED vars
  BY <1>13 DEF vars
<1> QED
  BY <1>1, <1>2, <1>3, <1>4, <1>5, <1>6, <1>7, <1>8, <1>9, <1>10, <1>11,
     <1>12, <1>13 DEF Next, Hardware, Isr, RunLoop

LEMMA Initially == Init => TypeInv /\ IInv
<1> SUFFICES ASSUME Init PROVE TypeInv /\ IInv
  OBVIOUS
<1> USE Zero, NotBuffers DEF Init, Channels
<1>1. TypeInv
  BY DEF TypeInv, TypeOK
<1>2. HardwareInv /\ HandlerInv /\ LoadedInv /\ PassInv /\ FillInv
  BY DEF HardwareInv, HandlerInv, LoadedInv, PassInv, FillInv, Finished,
         Handling, None, Silence, Spent
<1>3. OrderInv /\ RateInv
  BY DEF OrderInv, RateInv, QueuedAtCurrentRate, Queued, Newest, Other
<1> QED
  BY <1>1, <1>2, <1>3 DEF IInv

\* The inductive invariant, for any ring of at least three buffers.
THEOREM Inductive == Spec => []IInv
<1>1. TypeInv /\ [Next]_vars => TypeInv'
  BY TypeStep
<1>2. TypeInv /\ IInv /\ [Next]_vars => IInv'
  <2> SUFFICES ASSUME TypeInv, IInv, [Next]_vars PROVE IInv'
    OBVIOUS
  <2>1. HardwareInv' /\ HandlerInv'
    BY HardwareStep DEF IInv
  <2>2. LoadedInv' /\ OrderInv'
    BY LoadedStepOutside, LoadedStepHandler, LoadedStepArm DEF Next, Isr
  <2>3. PassInv'
    BY PassStep, LoadedStepArm
  <2> QED
    BY <2>1, <2>2, <2>3, BuffersStep DEF IInv
<1> QED
  BY <1>1, <1>2, Initially, PTL DEF Spec

\* The run loop never writes a buffer that a channel is aimed at, and the IRQ
\* never aims a channel at one being written.
THEOREM BuffersNotRaced == Spec => []NeverWrittenWhileAimed
<1>1. IInv => NeverWrittenWhileAimed
  BY DEF IInv, LoadedInv, HardwareInv, FillInv, NeverWrittenWhileAimed, Aimed, Finished
<1> QED
  BY <1>1, Inductive, PTL

\* No block of audio is played twice.
THEOREM BuffersNotShared == Spec => []NoBufferTwice
<1>1. IInv => NoBufferTwice
  BY DEF IInv, LoadedInv, NoBufferTwice, Channels
<1> QED
  BY <1>1, Inductive, PTL

\* The DMA never reads past the end of what it was given.
THEOREM NothingReadPastEnd == Spec => []NeverReadsPastEnd
<1>1. TypeOK /\ IInv => NeverReadsPastEnd
  BY DEF TypeOK, IInv, HardwareInv, NeverReadsPastEnd, None, Channels
<1> QED
  BY <1>1, Inductive, TypeCorrect, PTL

\* Nothing made for another rate is ever loaded.
THEOREM RatesMatch == Spec => []QueuedAtCurrentRate
<1>1. IInv => QueuedAtCurrentRate
  BY DEF IInv, RateInv
<1> QED
  BY <1>1, Inductive, PTL

\* What is true of "A late IRQ now costs silence and nothing worse" (the comment on
\* i2s_ctrl_chan), where LateCostsOnlySilence is not: a channel aimed at a block
\* stays aimed at it until a transfer of its own has ended, so that only silence is
\* ever swapped under a running channel, and no block is left out.
AimedUntilEnd ==
  \A c \in Channels :
    read_addr[c] \in Buffers => read_addr'[c] = read_addr[c] \/ (running = c /\ running' = None)

LEMMA UntilEndStep == TypeOK /\ IInv /\ [Next]_vars => AimedUntilEnd
<1> SUFFICES ASSUME TypeOK, IInv, [Next]_vars, NEW c \in Channels, read_addr[c] \in Buffers
             PROVE  read_addr'[c] = read_addr[c] \/ (running = c /\ running' = None)
  BY DEF AimedUntilEnd
<1>1. ASSUME NEW d \in Channels, Complete(d)
      PROVE  read_addr'[c] = read_addr[c] \/ (running = c /\ running' = None)
  BY <1>1 DEF Complete, TypeOK
<1>2. ASSUME NEW d \in Channels, Chain(d)
      PROVE  read_addr'[c] = read_addr[c]
  <2>1. d # c
    BY <1>2, NotBuffers DEF Chain, IInv, HardwareInv
  <2> QED
    BY <1>2, <2>1 DEF Chain, TypeOK
<1>3. CASE IsrArm
  <2>1. isr_c # c
    BY <1>3 DEF IsrArm, IInv, HardwareInv, Finished, Handling
  <2> QED
    BY <1>3, <2>1 DEF IsrArm, TypeOK
<1>4. CASE IsrEnter \/ IsrSkip \/ IsrFree \/ IsrPoll \/ IsrSample
  BY <1>4 DEF IsrEnter, IsrSkip, IsrFree, IsrPoll, IsrSample, hwVars, vars
<1>5. CASE RunLoop
  BY <1>5 DEF RunLoop, AudioOutInit, SetSampleRate, Mask, Unmask, AudioOutStart,
     AudioOutService, AudioOutStop, ServiceFill, ServiceSkip, ServiceReady, ServiceEnd,
     ProgramSampleRate, BeginService, hwVars
<1>6. CASE UNCHANGED vars
  BY <1>6 DEF vars, hwVars
<1> QED
  BY <1>1, <1>2, <1>3, <1>4, <1>5, <1>6 DEF Next, Hardware, Isr

\* No block is swapped for another, or for silence, before its channel has run,
\* however late the IRQ (audio_out.c, i2s_dma_handler).
THEOREM BlocksNotSwapped == Spec => [][AimedUntilEnd]_vars
<1>1. TypeOK /\ IInv /\ [Next]_vars => [AimedUntilEnd]_vars
  BY UntilEndStep
<1> QED
  BY <1>1, Inductive, TypeCorrect, PTL DEF Spec

\* The swaps that do happen are the finding's, of silence.
COROLLARY OnlySilenceSwapped ==
  Spec => [][\A c \in Channels :
               running = c /\ running' = c =>
                 read_addr'[c] = read_addr[c] \/ read_addr[c] = Silence]_vars
<1> DEFINE Swap == \A c \in Channels :
                     running = c /\ running' = c =>
                       read_addr'[c] = read_addr[c] \/ read_addr[c] = Silence
<1>1. TypeOK /\ NeverReadsPastEnd /\ AimedUntilEnd => Swap
  BY DEF TypeOK, NeverReadsPastEnd, AimedUntilEnd, Channels, None
<1> HIDE DEF Swap
<1>2. TypeOK /\ NeverReadsPastEnd /\ [AimedUntilEnd]_vars => [Swap]_vars
  BY <1>1
<1>3. Spec => [][Swap]_vars
  BY <1>2, BlocksNotSwapped, NothingReadPastEnd, TypeCorrect, PTL
<1> QED
  BY <1>3 DEF Swap

\* ... and they are all that can cost a block its end: a channel is re-aimed while
\* its transfer counts down only by an IRQ a whole buffer late, and that transfer
\* began on silence within the handler (audio_out.c, i2s_dma_handler).
THEOREM OnlyLateIrqCuts == Spec => CutOnlyWhenLate
<1> DEFINE Late == /\ running = isr_c /\ read_addr[isr_c] = Silence
                   /\ Other(isr_c) \in ints0 /\ ~slack
<1>1. TypeOK /\ IInv /\ [Next]_vars => [whole /\ ~whole' => Late]_vars
  <2> SUFFICES ASSUME TypeOK, IInv, [Next]_vars, whole, ~whole'
               PROVE  Late
    OBVIOUS
  <2>1. IsrArm
    BY DEF Next, Hardware, Complete, Chain, Isr, IsrEnter, IsrSkip, IsrFree, IsrPoll,
       IsrSample, RunLoop, AudioOutInit, SetSampleRate, Mask, Unmask, AudioOutStart,
       AudioOutService, AudioOutStop, ServiceFill, ServiceSkip, ServiceReady,
       ServiceEnd, ProgramSampleRate, BeginService, hwVars, vars, TypeOK
  <2>2. running = isr_c /\ isr = "arm" /\ isr_c \in Channels
    BY <2>1 DEF IsrArm, TypeOK
  <2>3. ~slack /\ Other(isr_c) \in ints0
    BY <2>2 DEF IInv, HandlerInv
  <2>4. read_addr[isr_c] \notin Buffers
    BY <2>2 DEF IInv, HardwareInv, Finished, Handling
  <2>5. read_addr[isr_c] # Spent
    BY <2>2 DEF IInv, HardwareInv, Channels, None
  <2>6. read_addr[isr_c] = Silence
    BY <2>2, <2>4, <2>5 DEF TypeOK
  <2> QED
    BY <2>2, <2>3, <2>6
<1> QED
  BY <1>1, Inductive, TypeCorrect, PTL DEF Spec, CutOnlyWhenLate

-----------------------------------------------------------------------------
(***************************************************************************)
(* audio_out implements AudioQueue.  What waits is a run of buffers from   *)
(* next_buffer on, so that the walk of audio_out_service has to fill the   *)
(* first buffer behind it.  This needs the walk to be quick: of the two    *)
(* channels at most one finishes while nothing is filled, so the IRQ takes *)
(* at most one buffer, and the walk never meets a buffer it has passed.    *)
(***************************************************************************)
Off(b) == IF b >= next_buffer THEN b - next_buffer ELSE b - next_buffer + NumBuffers

\* What a channel holds and has not finished, it is aimed at.
AimedInv ==
  \A c \in Channels :
    chan_buffer[c] # None /\ ~Finished(c) => read_addr[c] = chan_buffer[c]

\* One completion at most while the walk fills nothing.
QuickInv ==
  pc = "scan" => \A c \in Channels :
                   Finished(c) => ~Finished(Other(c)) /\ (slack => ctrl = c)

WaitInv ==
  \E w \in 0 .. NumBuffers : \A b \in Buffers : Queued(b) <=> Off(b) < w

\* The walk has come to the first buffer that is not queued, or is before it.
InOrder == Off(i) <= n /\ \A b \in Buffers : Off(b) < Off(i) => Queued(b)

\* The channel will not finish before the next fill; no channel will.
Kept(c) == ~Finished(c) /\ (running = c => ~slack)
Idle    == ~slack /\ \A c \in Channels : ~Finished(c)

\* The walk stands on a buffer that it will pass: the last of the walk, or the
\* one just taken.
Passing ==
  \E c \in Channels :
    /\ chan_buffer[c] = i /\ buffer_ready[i] /\ Kept(c)
    /\ n = NumBuffers - 1 \/ (Newest(i) /\ Idle)

WalkInv ==
  /\ pc = "fill" => InOrder
  /\ pc = "scan" /\ n < NumBuffers => InOrder \/ Passing

QueueInv == AimedInv /\ QuickInv /\ WaitInv /\ WalkInv

LEMMA OffFacts ==
  ASSUME next_buffer \in Buffers
  PROVE  /\ \A b \in Buffers : /\ Off(b) \in 0 .. NumBuffers - 1
                               /\ Newest(b) <=> Off(b) = NumBuffers - 1
                               /\ Older(b) <=> Off(b) = NumBuffers - 2
                               /\ Off(b) = 0 <=> b = next_buffer
                               /\ Off(b) < NumBuffers - 1 => Off(Succ(b)) = Off(b) + 1
                               /\ Off(b) = NumBuffers - 1 => Off(Succ(b)) = 0
                               /\ At(Off(b)) = b
         /\ \A a, b \in Buffers : Off(a) = Off(b) => a = b
         /\ \A k \in 0 .. NumBuffers - 1 : At(k) \in Buffers /\ Off(At(k)) = k
         /\ \A k \in -2 .. -1 : At(k) \in Buffers /\ Off(At(k)) = k + NumBuffers
BY NumBuffersAssumption DEF Buffers, Off, At, Succ, Newest, Older

\* When a buffer is taken, the others come one place nearer.
LEMMA OffTaken ==
  ASSUME next_buffer \in Buffers, next_buffer' = Succ(next_buffer), NEW b \in Buffers
  PROVE  Off(b)' = IF b = next_buffer THEN NumBuffers - 1 ELSE Off(b) - 1
BY NumBuffersAssumption DEF Buffers, Off, Succ

LEMMA AtTaken ==
  ASSUME next_buffer \in Buffers, next_buffer' = Succ(next_buffer),
         NEW k \in -2 .. NumBuffers - 2
  PROVE  /\ k + 1 \in -1 .. NumBuffers - 1
         /\ At(k)' = At(k + 1)
BY NumBuffersAssumption DEF Buffers, At, Succ

\* A step that leaves the ring alone leaves what is queued and aimed at.
LEMMA RingAlone ==
  ASSUME UNCHANGED <<read_addr, sharedVars>>
  PROVE  /\ \A b \in Buffers : (Queued(b)' <=> Queued(b)) /\ (Aimed(b)' <=> Aimed(b))
         /\ \A b \in Buffers : Off(b)' = Off(b) /\ (Newest(b)' <=> Newest(b))
         /\ WaitInv' <=> WaitInv
BY DEF sharedVars, Queued, Aimed, Off, WaitInv, Newest

LEMMA AimedStep ==
  ASSUME TypeInv, IInv, AimedInv, [Next]_vars
  PROVE  AimedInv'
<1> USE NotBuffers
    DEF TypeInv, TypeOK, AimedInv, Finished, Handling, hwVars, isrVars,
        sharedVars, loopVars, audioVars
<1>1. ASSUME NEW c \in Channels, Complete(c) PROVE AimedInv'
  BY <1>1 DEF Complete
<1>2. ASSUME NEW c \in Channels, Chain(c) PROVE AimedInv'
  <2>1. Finished(c)
    BY <1>2 DEF Chain, IInv, HardwareInv
  <2> QED
    BY <1>2, <2>1 DEF Chain
<1>3. CASE IsrEnter \/ IsrSkip \/ IsrPoll
  BY <1>3 DEF IsrEnter, IsrSkip, IsrPoll, IsrAdvance, vars
<1>4. CASE IsrFree
  BY <1>4 DEF IsrFree
<1>5. CASE IsrSample
  BY <1>5 DEF IsrSample, TooLate, IsrAdvance
<1>6. CASE IsrArm
  BY <1>6 DEF IsrArm, IsrAdvance, BufferAfterTaken
<1>7. CASE RunLoop
  BY <1>7
     DEF RunLoop, AudioOutInit, SetSampleRate, Mask, Unmask, AudioOutStart,
         AudioOutService, AudioOutStop, BeginService, ServiceFill, ServiceSkip,
         ServiceReady, ServiceEnd, ProgramSampleRate
<1>8. CASE UNCHANGED vars
  BY <1>8 DEF vars
<1> QED
  BY <1>1, <1>2, <1>3, <1>4, <1>5, <1>6, <1>7, <1>8 DEF Next, Hardware, Isr

LEMMA QuickStep ==
  ASSUME TypeInv, IInv, QuickInv, [Next]_vars
  PROVE  QuickInv'
<1> USE OtherFacts
    DEF TypeInv, TypeOK, QuickInv, Finished, Handling, hwVars, isrVars,
        sharedVars, loopVars, audioVars, Undisturbed
<1>1. ASSUME NEW c \in Channels, Complete(c) PROVE QuickInv'
  <2> SUFFICES ASSUME pc = "scan" PROVE QuickInv'
    BY <1>1 DEF Complete
  <2>1. slack /\ ctrl = None
    BY <1>1 DEF Complete, MayComplete, IInv, HardwareInv, None, Channels
  <2>2. \A e \in Channels : ~Finished(e)
    BY <2>1 DEF None, Channels
  <2>3. ints0' = {c} /\ ctrl' = c /\ isr' = isr /\ isr_c' = isr_c
    BY <1>1, <2>2 DEF Complete
  <2> QED
    BY <2>2, <2>3
<1>2. ASSUME NEW c \in Channels, Chain(c) PROVE QuickInv'
  BY <1>2 DEF Chain
<1>3. CASE IsrEnter \/ IsrSkip \/ IsrPoll
  BY <1>3 DEF IsrEnter, IsrSkip, IsrPoll, IsrAdvance, vars
<1>4. CASE IsrFree
  BY <1>4 DEF IsrFree
<1>5. CASE IsrSample
  BY <1>5 DEF IsrSample, TooLate, IsrAdvance
<1>6. CASE IsrArm
  BY <1>6 DEF IsrArm, IsrAdvance
<1>7. CASE RunLoop
  BY <1>7
     DEF RunLoop, AudioOutInit, SetSampleRate, Mask, Unmask, AudioOutStart,
         AudioOutService, AudioOutStop, BeginService, ServiceFill, ServiceSkip,
         ServiceReady, ServiceEnd, ProgramSampleRate
<1>8. CASE UNCHANGED vars
  BY <1>8 DEF vars
<1> QED
  BY <1>1, <1>2, <1>3, <1>4, <1>5, <1>6, <1>7, <1>8 DEF Next, Hardware, Isr

\* The three steps that change what is queued: the oldest is taken, ...
LEMMA Taken ==
  ASSUME TypeInv, IInv, IsrArm, buffer_ready[next_buffer]
  PROVE  /\ next_buffer \in Buffers /\ next_buffer' = Succ(next_buffer)
         /\ Queued(next_buffer)
         /\ \A b \in Buffers : Queued(b)' <=> Queued(b) /\ b # next_buffer
<1> DEFINE c == isr_c
           d == Other(isr_c)
           t == next_buffer
<1>1. /\ c \in Channels /\ d \in Channels /\ c # d /\ \A e \in Channels : e = c \/ e = d
      /\ t \in Buffers /\ Handling(c) /\ ~Handling(d)
  BY OtherFacts DEF TypeInv, TypeOK, IsrArm, Handling
<1>2. /\ next_buffer' = Succ(t) /\ chan_buffer' = [chan_buffer EXCEPT ![c] = t]
      /\ buffer_ready' = buffer_ready
  BY DEF IsrArm, BufferAfterTaken
<1>3. chan_buffer[c] # t
  BY <1>1 DEF IInv, LoadedInv
<1>4. chan_buffer[d] # t
  <2>1. chan_buffer[d] # None => Newest(chan_buffer[d]) \/ Older(chan_buffer[d])
    BY <1>1 DEF IInv, OrderInv
  <2>2. chan_buffer[d] = t => chan_buffer[d] # None
    BY <1>1, NotBuffers
  <2> QED
    BY <1>1, <2>1, <2>2, Taking
<1>5. Queued(t)
  BY <1>1, <1>3, <1>4 DEF Queued
<1> HIDE DEF c, d, t
<1>6. /\ chan_buffer'[c] = t /\ chan_buffer'[d] = chan_buffer[d]
      /\ chan_buffer[c] \in Buffers => ~buffer_ready[chan_buffer[c]]
  BY <1>1, <1>2 DEF TypeInv, TypeOK, IInv, LoadedInv
<1>7. ASSUME NEW b \in Buffers PROVE Queued(b)' <=> Queued(b) /\ b # t
  <2>1. Queued(b) <=> buffer_ready[b] /\ chan_buffer[c] # b /\ chan_buffer[d] # b
    BY <1>1 DEF Queued
  <2>2. Queued(b)' <=> buffer_ready[b] /\ t # b /\ chan_buffer[d] # b
    BY <1>1, <1>2, <1>6 DEF Queued
  <2> QED
    BY <1>6, <2>1, <2>2
<1> QED
  BY <1>1, <1>2, <1>5, <1>7 DEF t

\* ... one more is handed over, ...
LEMMA HandedOver ==
  ASSUME TypeInv, IInv, ServiceReady
  PROVE  /\ i \in Buffers /\ UNCHANGED <<next_buffer, chan_buffer, read_addr>>
         /\ ~Queued(i) /\ ~Aimed(i) /\ audio_buffer' = [audio_buffer EXCEPT ![i] = fresh]
         /\ \A b \in Buffers : Queued(b)' <=> Queued(b) \/ b = i
<1>1. /\ i \in Buffers /\ ~buffer_ready[i] /\ \A c \in Channels : ~Handling(c)
      /\ buffer_ready \in [Buffers -> BOOLEAN]
  BY DEF TypeInv, TypeOK, IInv, FillInv, ServiceReady, Undisturbed, Handling
<1>2. \A c \in Channels : chan_buffer[c] # i /\ read_addr[c] # i
  BY <1>1 DEF IInv, LoadedInv
<1>3. /\ UNCHANGED <<next_buffer, chan_buffer, read_addr>>
      /\ buffer_ready' = [buffer_ready EXCEPT ![i] = TRUE]
      /\ audio_buffer' = [audio_buffer EXCEPT ![i] = fresh]
  BY DEF ServiceReady, hwVars
<1> QED
  BY <1>1, <1>2, <1>3 DEF Queued, Aimed

\* ... or all are dropped.
LEMMA Dropped ==
  ASSUME TypeInv, NEW r \in Rates, SetSampleRate(r)
  PROVE  /\ UNCHANGED <<next_buffer, read_addr, audio_buffer, fresh>>
         /\ \A b \in Buffers : ~Queued(b)'
BY DEF TypeInv, TypeOK, SetSampleRate, DiscardQueued, Queued, hwVars, audioVars

Takes == IsrArm /\ buffer_ready[next_buffer]
Sets  == \E r \in Rates : SetSampleRate(r)

LEMMA QueueKept ==
  ASSUME TypeInv, IInv, [Next]_vars, ~Takes, ~ServiceReady, ~Sets
  PROVE  /\ UNCHANGED <<next_buffer, audio_buffer, fresh>>
         /\ \A b \in Buffers : Queued(b)' <=> Queued(b)
<1> USE DEF TypeInv, TypeOK, hwVars, isrVars, sharedVars, loopVars, audioVars, Queued
<1>1. ASSUME NEW c \in Channels, Complete(c) \/ Chain(c)
      PROVE  UNCHANGED <<sharedVars, audio_buffer, fresh>>
  BY <1>1 DEF Complete, Chain
<1>2. CASE IsrEnter \/ IsrSkip \/ IsrPoll
  BY <1>2 DEF IsrEnter, IsrSkip, IsrPoll, IsrAdvance, vars
<1>3. CASE IsrFree
  BY <1>3 DEF IsrFree
<1>4. CASE IsrSample
  BY <1>4, NotBuffers DEF IsrSample, IsrAdvance, IInv, LoadedInv, Handling
<1>5. CASE IsrArm
  BY <1>5, NotBuffers DEF IsrArm, Takes, IInv, LoadedInv, Handling
<1>6. CASE RunLoop
  BY <1>6
     DEF RunLoop, Sets, AudioOutInit, Mask, Unmask, AudioOutStart, AudioOutService,
         AudioOutStop, BeginService, ServiceFill, ServiceSkip, ServiceEnd,
         ProgramSampleRate
<1>7. CASE UNCHANGED vars
  BY <1>7 DEF vars
<1> QED
  BY <1>1, <1>2, <1>3, <1>4, <1>5, <1>6, <1>7 DEF Next, Hardware, Isr

LEMMA WaitStep ==
  ASSUME TypeInv, IInv, WaitInv, WalkInv, [Next]_vars
  PROVE  WaitInv'
<1>1. next_buffer \in Buffers /\ NumBuffers \in Nat
  BY NumBuffersAssumption DEF TypeInv, TypeOK
<1>2. PICK w \in 0 .. NumBuffers : \A b \in Buffers : Queued(b) <=> Off(b) < w
  BY DEF WaitInv
<1>3. CASE Takes
  <2>1. /\ Queued(next_buffer) /\ next_buffer' = Succ(next_buffer)
        /\ \A b \in Buffers : Queued(b)' <=> Queued(b) /\ b # next_buffer
    BY <1>3, Taken DEF Takes
  <2>2. w - 1 \in 0 .. NumBuffers
    BY <1>1, <1>2, <2>1, OffFacts
  <2>3. \A b \in Buffers : Queued(b)' <=> Off(b)' < w - 1
    BY <1>1, <1>2, <2>1, OffTaken, OffFacts
  <2> QED
    BY <2>2, <2>3 DEF WaitInv
<1>4. CASE ServiceReady
  <2>1. /\ i \in Buffers /\ ~Queued(i) /\ InOrder /\ next_buffer' = next_buffer
        /\ \A b \in Buffers : Queued(b)' <=> Queued(b) \/ b = i
    BY <1>4, HandedOver DEF WalkInv, ServiceReady
  <2>2. Off(i) = w /\ w + 1 \in 0 .. NumBuffers
    <3>1. Off(i) \in 0 .. NumBuffers - 1 /\ ~(Off(i) < w)
      BY <1>1, <1>2, <2>1, OffFacts
    <3>2. ASSUME w < Off(i) PROVE FALSE
      <4>1. At(w) \in Buffers /\ Off(At(w)) = w
        BY <1>1, <1>2, <3>1, <3>2, OffFacts
      <4>2. Queued(At(w))
        BY <2>1, <3>2, <4>1 DEF InOrder
      <4> QED
        BY <1>2, <4>1, <4>2
    <3> QED
      BY <1>1, <3>1, <3>2
  <2>3. \A b \in Buffers : Off(b)' = Off(b)
    BY <2>1 DEF Off
  <2>4. \A b \in Buffers : Queued(b)' <=> Off(b)' < w + 1
    BY <1>1, <1>2, <2>1, <2>2, <2>3, OffFacts
  <2> QED
    BY <2>2, <2>4 DEF WaitInv
<1>5. CASE Sets
  <2>1. next_buffer' = next_buffer /\ \A b \in Buffers : ~Queued(b)'
    BY <1>5, Dropped DEF Sets
  <2>2. \A b \in Buffers : Queued(b)' <=> Off(b)' < 0
    BY <1>1, <2>1, OffFacts DEF Off
  <2> QED
    BY <1>1, <2>2 DEF WaitInv
<1>6. CASE ~Takes /\ ~ServiceReady /\ ~Sets
  BY <1>2, <1>6, QueueKept DEF WaitInv, Off
<1> QED
  BY <1>3, <1>4, <1>5, <1>6

\* The walk while the ring is as it was, and when a buffer is taken from it.
LEMMA InOrderKept ==
  ASSUME UNCHANGED <<next_buffer, i, n>>, \A b \in Buffers : Queued(b)' <=> Queued(b)
  PROVE  InOrder' <=> InOrder
BY DEF InOrder, Off

LEMMA InOrderTaken ==
  ASSUME TypeInv, IInv, Takes, InOrder, i # next_buffer
  PROVE  InOrder'
<1>1. /\ i \in Buffers /\ n \in Nat /\ i' = i /\ n' = n /\ NumBuffers \in Nat
      /\ next_buffer \in Buffers
  BY NumBuffersAssumption DEF TypeInv, TypeOK, Takes, IsrArm, loopVars, Visits
<1>2. /\ next_buffer' = Succ(next_buffer)
      /\ \A b \in Buffers : Queued(b)' <=> Queued(b) /\ b # next_buffer
  BY Taken DEF Takes
<1>3. /\ \A b \in Buffers : Off(b) \in 0 .. NumBuffers - 1 /\ (Off(b) = 0 <=> b = next_buffer)
      /\ \A b \in Buffers : Off(b)' = IF b = next_buffer THEN NumBuffers - 1 ELSE Off(b) - 1
  BY <1>1, <1>2, OffFacts, OffTaken
<1>4. Off(i)' = Off(i) - 1 /\ Off(i)' <= n'
  BY <1>1, <1>3 DEF InOrder
<1>5. ASSUME NEW b \in Buffers, Off(b)' < Off(i)' PROVE Queued(b)'
  <2>1. b # next_buffer
    BY <1>1, <1>3, <1>4, <1>5
  <2>2. Off(b) < Off(i)
    BY <1>1, <1>3, <1>4, <1>5, <2>1
  <2> QED
    BY <1>2, <2>1, <2>2 DEF InOrder
<1>6. Off(i)' <= n' /\ \A b \in Buffers : Off(b)' < Off(i)' => Queued(b)'
  BY <1>4, <1>5
<1> QED
  BY <1>1, <1>6 DEF InOrder, Off

\* A handler at work has a channel that finished: no other, and no completion left.
LEMMA AtWork ==
  ASSUME TypeInv, IInv, QuickInv, IsrArm, pc = "scan"
  PROVE  /\ Finished(isr_c) /\ ~slack /\ isr_c \in Channels
         /\ \A e \in Channels : ~Finished(e)'
<1>1. isr_c \in Channels /\ Handling(isr_c) /\ Finished(isr_c) /\ ~Finished(Other(isr_c))
  BY DEF TypeInv, TypeOK, IsrArm, Handling, Finished, QuickInv
<1>2. ctrl # isr_c /\ isr_c \notin ints0
  BY <1>1 DEF IInv, HardwareInv, HandlerInv, IsrArm
<1>3. ints0' = ints0 /\ isr' \in {"off", "test"}
  BY DEF IsrArm, IsrAdvance
<1>4. \A e \in Channels : e = isr_c \/ e = Other(isr_c)
  BY <1>1, OtherFacts
<1> QED
  BY <1>1, <1>2, <1>3, <1>4 DEF QuickInv, Finished, Handling

LEMMA WalkTaken ==
  ASSUME TypeInv, IInv, QuickInv, WalkInv, Takes
  PROVE  WalkInv'
<1>0. PICK c \in Channels : c = isr_c
  BY DEF TypeInv, TypeOK
<1>1. /\ c \in Channels /\ pc' = pc /\ i' = i /\ n' = n /\ slack' = slack /\ running' = running
      /\ buffer_ready' = buffer_ready /\ next_buffer \in Buffers
      /\ chan_buffer' = [chan_buffer EXCEPT ![c] = next_buffer]
      /\ chan_buffer \in [Channels -> Buffers \cup {None}] /\ i \in Buffers
  BY <1>0 DEF Takes, IsrArm, loopVars, TypeInv, TypeOK
<1>2. CASE pc = "fill"
  <2>1. i # next_buffer
    BY <1>2 DEF IInv, FillInv, Takes
  <2> QED
    BY <1>1, <1>2, <2>1, InOrderTaken DEF WalkInv
<1>3. CASE pc = "scan" /\ n < NumBuffers
  <2>0. IsrArm /\ pc = "scan"
    BY <1>3 DEF Takes
  <2>1. Finished(c) /\ ~slack /\ \A e \in Channels : ~Finished(e)'
    BY <1>0, <2>0, AtWork
  <2>2. CASE InOrder /\ i # next_buffer
    BY <1>1, <1>3, <2>2, InOrderTaken DEF WalkInv
  <2>3. CASE i = next_buffer
    <3>1. /\ chan_buffer'[c] = i' /\ buffer_ready'[i']
      BY <1>1, <2>3 DEF Takes
    <3>2. Kept(c)' /\ Idle'
      BY <1>1, <2>1 DEF Kept, Idle
    <3>3. Newest(i)'
      BY <1>1, <2>3, Taken, Taking DEF Takes
    <3>4. Passing'
      BY <1>1, <3>1, <3>2, <3>3 DEF Passing
    <3> QED
      BY <1>1, <1>3, <3>4 DEF WalkInv
  <2>4. CASE Passing
    <3>1. PICK e \in Channels : chan_buffer[e] = i /\ buffer_ready[i] /\ Kept(e)
                                /\ (n = NumBuffers - 1 \/ (Newest(i) /\ Idle))
      BY <2>4 DEF Passing
    <3>2. n = NumBuffers - 1 /\ e # c
      BY <1>1, <2>1, <3>1 DEF Idle, Kept
    <3>3. chan_buffer'[e] = i' /\ buffer_ready'[i'] /\ Kept(e)' /\ n' = NumBuffers - 1
      BY <1>1, <2>1, <3>1, <3>2 DEF Kept
    <3>4. Passing'
      BY <3>3 DEF Passing
    <3> QED
      BY <1>1, <1>3, <3>4 DEF WalkInv
  <2> QED
    BY <1>3, <2>2, <2>3, <2>4 DEF WalkInv
<1>4. CASE pc # "fill" /\ ~(pc = "scan" /\ n < NumBuffers)
  BY <1>1, <1>4 DEF WalkInv
<1> QED
  BY <1>2, <1>3, <1>4

\* Past a buffer that is ready: the next is in order, unless it is the last held.
LEMMA WalkSkips ==
  ASSUME TypeInv, IInv, WalkInv, ServiceSkip
  PROVE  WalkInv'
<1>1. /\ pc = "scan" /\ pc' = "scan" /\ n \in Nat /\ n < NumBuffers /\ n' = n + 1
      /\ i \in Buffers /\ i' = Succ(i) /\ buffer_ready[i] /\ NumBuffers \in Nat
      /\ next_buffer \in Buffers
      /\ \A c \in Channels : ~Finished(c) /\ ~Handling(c)
  BY NumBuffersAssumption
     DEF ServiceSkip, TypeInv, TypeOK, Visits, Undisturbed, Finished, Handling
<1>2. UNCHANGED <<hwVars, ints0, isrVars, sharedVars, slack>>
  BY DEF ServiceSkip
<1>3. /\ \A b \in Buffers : (Queued(b)' <=> Queued(b)) /\ Off(b)' = Off(b)
      /\ \A c \in Channels : ~Finished(c)'
  BY <1>1, <1>2 DEF sharedVars, isrVars, Queued, Off, Finished, Handling
<1> SUFFICES ASSUME n + 1 < NumBuffers PROVE InOrder' \/ Passing'
  BY <1>1 DEF WalkInv
<1>4. i' \in Buffers /\ Off(i) \in 0 .. NumBuffers - 1
  BY <1>1, SuccType, OffFacts
<1>5. CASE InOrder
  <2>1. Off(i) <= n /\ Off(i) < NumBuffers - 1
    BY <1>1, <1>4, <1>5 DEF InOrder
  <2>2. Off(i') = Off(i) + 1 /\ Off(i') <= n'
    BY <1>1, <1>4, <2>1, OffFacts
  <2>3. CASE Queued(i)
    <3>1. ASSUME NEW b \in Buffers, Off(b) < Off(i') PROVE Queued(b)
      <4>1. Off(b) \in 0 .. NumBuffers - 1
        BY <1>1, OffFacts
      <4>2. Off(b) < Off(i) \/ Off(b) = Off(i)
        BY <1>4, <2>2, <3>1, <4>1
      <4> QED
        BY <1>1, <1>5, <2>3, <4>2, OffFacts DEF InOrder
    <3>2. Off(i)' = Off(i')
      BY <1>2 DEF Off, sharedVars
    <3>3. Off(i)' <= n' /\ \A b \in Buffers : Off(b)' < Off(i)' => Queued(b)'
      BY <1>3, <2>2, <3>1, <3>2
    <3> QED
      BY <3>3 DEF InOrder, Off
  <2>4. CASE ~Queued(i)
    <3>1. PICK e \in Channels : chan_buffer[e] = i
      BY <1>1, <2>4 DEF Queued
    <3> DEFINE d == Other(e)
    <3>2. d \in Channels /\ d # e /\ e = Other(d)
      BY OtherFacts
    <3>3. ~Newest(i) /\ chan_buffer[e] # None
      BY <1>1, <2>1, <3>1, OffFacts, NotBuffers
    <3>4. Older(i) /\ Newest(chan_buffer[d])
      BY <1>1, <3>1, <3>3 DEF IInv, OrderInv
    <3>5. n = NumBuffers - 2 /\ n' = NumBuffers - 1
      BY <1>1, <2>1, <3>4, OffFacts
    <3>6. chan_buffer[d] = i'
      BY <1>1, <1>4, <3>4, <2>2, <3>5, OffFacts DEF Newest
    <3>7. running = e
      <4>1. ctrl # d
        BY <1>1, <3>2 DEF IInv, HardwareInv, Finished, Handling
      <4> QED
        BY <1>1, <3>1, <3>2, <3>4, <4>1 DEF IInv, OrderInv
    <3>8. Kept(d)' /\ buffer_ready[i'] /\ i' \in Buffers
      <4>1. buffer_ready[i']
        BY <1>1, <1>4, <3>2, <3>6 DEF IInv, LoadedInv
      <4>2. running' # d
        BY <1>2, <3>2, <3>7 DEF hwVars
      <4> QED
        BY <1>3, <1>4, <3>2, <4>1, <4>2 DEF Kept
    <3>9. chan_buffer'[d] = i' /\ buffer_ready'[i']
      BY <1>2, <3>6, <3>8 DEF sharedVars
    <3> QED
      BY <3>2, <3>5, <3>8, <3>9 DEF Passing
  <2> QED
    BY <2>3, <2>4
<1>6. CASE Passing
  <2>1. Newest(i)
    BY <1>1, <1>6 DEF Passing
  <2>2. Off(i') = 0
    BY <1>1, <2>1, OffFacts DEF Newest
  <2>3. Off(i)' = 0
    BY <1>2, <2>2 DEF Off, sharedVars
  <2>4. \A b \in Buffers : Off(b)' \in 0 .. NumBuffers - 1
    BY <1>1, <1>3, OffFacts
  <2>5. Off(i)' <= n' /\ \A b \in Buffers : Off(b)' < Off(i)' => Queued(b)'
    BY <1>1, <2>3, <2>4
  <2> QED
    BY <2>5 DEF InOrder, Off
<1> QED
  BY <1>1, <1>5, <1>6 DEF WalkInv

\* A buffer filled is the first that was not queued; the next is in order again.
LEMMA WalkFills ==
  ASSUME TypeInv, IInv, WalkInv, ServiceReady
  PROVE  WalkInv'
<1>1. /\ n \in Nat /\ n < NumBuffers /\ n' = n + 1 /\ i' = Succ(i) /\ pc' = "scan" /\ InOrder
      /\ NumBuffers \in Nat /\ next_buffer \in Buffers
  BY NumBuffersAssumption DEF TypeInv, TypeOK, Visits, ServiceReady, WalkInv
<1>2. /\ i \in Buffers /\ next_buffer' = next_buffer
      /\ \A b \in Buffers : Queued(b)' <=> Queued(b) \/ b = i
  BY HandedOver
<1> SUFFICES ASSUME n + 1 < NumBuffers PROVE InOrder'
  BY <1>1 DEF WalkInv
<1>3. Off(i') = Off(i) + 1 /\ Off(i) \in 0 .. NumBuffers - 1 /\ Off(i) <= n
  BY <1>1, <1>2, OffFacts DEF InOrder
<1>4. ASSUME NEW b \in Buffers, Off(b) < Off(i') PROVE Queued(b)'
  <2>1. Off(b) \in 0 .. NumBuffers - 1
    BY <1>1, OffFacts
  <2>2. Off(b) < Off(i) \/ Off(b) = Off(i)
    BY <1>3, <1>4, <2>1
  <2> QED
    BY <1>1, <1>2, <2>2, OffFacts DEF InOrder
<1>5. Off(i)' = Off(i') /\ \A b \in Buffers : Off(b)' = Off(b)
  BY <1>2 DEF Off
<1>6. Off(i)' <= n' /\ \A b \in Buffers : Off(b)' < Off(i)' => Queued(b)'
  BY <1>1, <1>3, <1>4, <1>5
<1> QED
  BY <1>6 DEF InOrder, Off

LEMMA WalkStep ==
  ASSUME TypeInv, IInv, QuickInv, WalkInv, [Next]_vars
  PROVE  WalkInv'
<1>1. CASE Takes \/ ServiceSkip \/ ServiceReady
  BY <1>1, WalkTaken, WalkSkips, WalkFills
<1>2. CASE AudioOutStart \/ AudioOutService
  <2>1. pc' = "scan" /\ i' = next_buffer' /\ n' = 0 /\ next_buffer' \in Buffers
    BY <1>2
       DEF AudioOutStart, AudioOutService, BeginService, OldestFree, sharedVars,
           TypeInv, TypeOK
  <2>2. PICK k \in Buffers : next_buffer' = k /\ next_buffer = k /\ i' = k
    BY <1>2, <2>1
       DEF AudioOutStart, AudioOutService, BeginService, OldestFree, sharedVars
  <2>3. \A b \in Buffers : Off(b) \in 0 .. NumBuffers - 1 /\ (Off(b) = 0 <=> b = k)
    BY <2>2, OffFacts
  <2>4. Off(i)' = Off(k) /\ \A b \in Buffers : Off(b)' = Off(b)
    BY <2>2 DEF Off
  <2>5. Off(i)' <= n' /\ \A b \in Buffers : Off(b)' < Off(i)' => Queued(b)'
    BY <2>1, <2>3, <2>4
  <2>6. InOrder'
    BY <2>5 DEF InOrder, Off
  <2> QED
    BY <2>1, <2>6 DEF WalkInv
<1>3. CASE ServiceFill
  <2>1. /\ pc = "scan" /\ n < NumBuffers /\ ~buffer_ready[i] /\ pc' = "fill"
        /\ UNCHANGED <<sharedVars, i, n>>
    BY <1>3 DEF ServiceFill
  <2>2. InOrder
    BY <2>1 DEF WalkInv, Passing
  <2>3. InOrder'
    BY <2>1, <2>2, InOrderKept DEF sharedVars, Queued
  <2> QED
    BY <2>1, <2>3 DEF WalkInv
<1>4. CASE \/ \E r \in Rates : AudioOutInit(r) \/ SetSampleRate(r)
           \/ Mask \/ Unmask \/ AudioOutStop \/ ServiceEnd \/ ProgramSampleRate
  <2>1. pc' \notin {"fill", "scan"}
    BY <1>4
       DEF AudioOutInit, SetSampleRate, Mask, Unmask, AudioOutStop, ServiceEnd,
           ProgramSampleRate
  <2> QED
    BY <2>1 DEF WalkInv
<1>5. CASE (Hardware \/ Isr \/ UNCHANGED vars) /\ ~Takes
  <2>1. UNCHANGED <<pc, i, n>>
    BY <1>5
       DEF Hardware, Complete, Chain, Isr, IsrEnter, IsrSkip, IsrFree, IsrPoll,
           IsrSample, IsrArm, loopVars, vars
  <2>2. ~ServiceReady /\ ~Sets
    <3>1. ServiceReady => pc' # pc
      BY DEF ServiceReady
    <3>2. Sets => pc' # pc
      BY DEF Sets, SetSampleRate
    <3> QED
      BY <2>1, <3>1, <3>2
  <2>3. next_buffer' = next_buffer /\ \A b \in Buffers : Queued(b)' <=> Queued(b)
    BY <1>5, <2>2, QueueKept DEF Next
  <2>4. InOrder' <=> InOrder
    BY <2>1, <2>3, InOrderKept
  <2>5. ASSUME pc = "scan", Passing PROVE Passing'
    <3>1. PICK e \in Channels : chan_buffer[e] = i /\ buffer_ready[i] /\ Kept(e)
                                /\ (n = NumBuffers - 1 \/ (Newest(i) /\ Idle))
      BY <2>5 DEF Passing
    <3>2. chan_buffer'[e] = i /\ buffer_ready'[i] /\ Kept(e)' /\ (Idle => Idle')
      <4> USE OtherFacts, <3>1, <2>5
          DEF TypeInv, TypeOK, Kept, Idle, Finished, Handling, hwVars, isrVars,
                 sharedVars, loopVars, audioVars
      <4>1. ASSUME NEW c \in Channels, Complete(c)
            PROVE  chan_buffer'[e] = i /\ buffer_ready'[i] /\ Kept(e)' /\ (Idle => Idle')
        BY <4>1, NotBuffers DEF Complete, MayComplete, None, Channels
      <4>2. ASSUME NEW c \in Channels, Chain(c)
            PROVE  chan_buffer'[e] = i /\ buffer_ready'[i] /\ Kept(e)' /\ (Idle => Idle')
        BY <4>2 DEF Chain
      <4>3. CASE IsrEnter \/ IsrSkip \/ IsrPoll
        BY <4>3 DEF IsrEnter, IsrSkip, IsrPoll, IsrAdvance, vars
      <4>4. CASE IsrFree
        BY <4>4 DEF IsrFree, IInv, LoadedInv, Channels
      <4>5. CASE IsrSample
        BY <4>5 DEF IsrSample, IsrAdvance
      <4>6. CASE IsrArm
        BY <1>5, <4>6 DEF IsrArm, Takes, IsrAdvance
      <4>7. CASE UNCHANGED vars
        BY <4>7 DEF vars
      <4> QED
        BY <1>5, <4>1, <4>2, <4>3, <4>4, <4>5, <4>6, <4>7 DEF Hardware, Isr
    <3>3. Newest(i)' <=> Newest(i)
      BY <2>1, <2>3 DEF Newest
    <3> QED
      BY <2>1, <3>1, <3>2, <3>3 DEF Passing
  <2> QED
    BY <2>1, <2>4, <2>5 DEF WalkInv
<1> QED
  BY <1>1, <1>2, <1>3, <1>4, <1>5 DEF Next, RunLoop

\* Together with IInv, what the refinement needs: what waits is a run of buffers
\* from next_buffer on, and audio_out_service fills the first behind it.
THEOREM QueueInductive == Spec => []QueueInv
<1>1. Init => QueueInv
  <2> SUFFICES ASSUME Init PROVE QueueInv
    OBVIOUS
  <2>1. \A b \in Buffers : Off(b) \in Nat /\ ~Queued(b)
    BY NumBuffersAssumption DEF Init, Off, Buffers, Queued
  <2>2. WaitInv
    BY <2>1, NumBuffersAssumption DEF WaitInv
  <2> QED
    BY <2>2 DEF Init, QueueInv, AimedInv, QuickInv, WalkInv
<1>2. TypeInv /\ IInv /\ QueueInv /\ [Next]_vars => QueueInv'
  BY AimedStep, QuickStep, WaitStep, WalkStep DEF QueueInv
<1>3. Spec => []TypeInv
  BY Initially, TypeStep, PTL DEF Spec
<1> QED
  BY <1>1, <1>2, <1>3, Inductive, PTL DEF Spec

-----------------------------------------------------------------------------
(***************************************************************************)
(* The refinement.  The buffers aimed at lie right behind next_buffer, and *)
(* those that wait from it on: the blocks not yet played are one run round *)
(* the ring.                                                               *)
(***************************************************************************)
Layout ==
  /\ Loaded \in 0 .. 2 /\ Waiting \in 0 .. NumBuffers /\ Loaded + Waiting <= NumBuffers
  /\ \A b \in Buffers : /\ Aimed(b) <=> Off(b) >= NumBuffers - Loaded
                        /\ Queued(b) <=> Off(b) < Waiting
  /\ Pending \in [1 .. Loaded + Waiting -> Blocks]

\* The channels' buffers: the older is aimed at only if the newer is.
LEMMA LoadedIs ==
  ASSUME TypeInv, IInv, QueueInv
  PROVE  /\ Loaded \in 0 .. 2
         /\ \A b \in Buffers : Aimed(b) <=> Off(b) >= NumBuffers - Loaded
<1>1. next_buffer \in Buffers /\ NumBuffers \in Nat /\ NumBuffers >= 3
  BY NumBuffersAssumption DEF TypeInv, TypeOK
<1>2. ASSUME NEW c \in Channels, read_addr[c] \in Buffers
      PROVE  /\ chan_buffer[c] = read_addr[c] /\ ~Finished(c)
             /\ Newest(read_addr[c]) \/ Older(read_addr[c])
  <2>1. chan_buffer[c] = read_addr[c] /\ ~Finished(c)
    BY <1>2 DEF IInv, LoadedInv, HardwareInv
  <2>2. chan_buffer[c] # None
    BY <1>2, <2>1, NotBuffers
  <2> QED
    BY <2>1, <2>2 DEF IInv, OrderInv
<1>3. ASSUME NEW d \in Channels, read_addr[d] \in Buffers, Older(read_addr[d])
      PROVE  Newest(read_addr[Other(d)])
  <2> DEFINE c == Other(d)
  <2>1. c \in Channels /\ d = Other(c)
    BY OtherFacts
  <2>2. ~Newest(chan_buffer[d]) /\ chan_buffer[d] # None /\ Older(chan_buffer[d])
    BY <1>1, <1>2, <1>3, OffFacts, NotBuffers
  <2>3. Newest(chan_buffer[c])
    BY <1>2, <1>3, <2>2 DEF IInv, OrderInv
  <2>4. ~Finished(c)
    BY <1>2, <1>3, <2>1, <2>2, <2>3 DEF IInv, OrderInv
  <2>5. chan_buffer[c] # None
    BY <2>3, NotBuffers DEF Newest
  <2> QED
    BY <2>1, <2>3, <2>4, <2>5 DEF QueueInv, AimedInv
<1>4. \A b \in Buffers : Aimed(b) => Off(b) >= NumBuffers - 2
  BY <1>1, <1>2, OffFacts DEF Aimed
<1>5. \A b \in Buffers : Aimed(b) /\ Off(b) = NumBuffers - 2 => Aimed(At(-1))
  <2> SUFFICES ASSUME NEW b \in Buffers, Aimed(b), Off(b) = NumBuffers - 2
               PROVE  Aimed(At(-1))
    OBVIOUS
  <2>1. PICK d \in Channels : read_addr[d] = b
    BY DEF Aimed
  <2>2. Newest(read_addr[Other(d)]) /\ Other(d) \in Channels
    BY <1>1, <1>3, <2>1, OffFacts, OtherFacts
  <2>3. read_addr[Other(d)] = At(-1)
    BY <1>1, <2>2, OffFacts DEF Newest
  <2> QED
    BY <2>2, <2>3 DEF Aimed
<1>6. /\ At(-1) \in Buffers /\ Off(At(-1)) = NumBuffers - 1
      /\ At(-2) \in Buffers /\ Off(At(-2)) = NumBuffers - 2
  BY <1>1, OffFacts
<1>7. \A b \in Buffers : /\ Off(b) = NumBuffers - 1 => b = At(-1)
                         /\ Off(b) = NumBuffers - 2 => b = At(-2)
                         /\ Off(b) \in 0 .. NumBuffers - 1
  BY <1>1, <1>6, OffFacts
<1>8. CASE Aimed(At(-2))
  <2>1. Loaded = 2 /\ Aimed(At(-1))
    BY <1>5, <1>6, <1>8 DEF Loaded
  <2> QED
    BY <1>1, <1>4, <1>7, <1>8, <2>1
<1>9. CASE ~Aimed(At(-2)) /\ Aimed(At(-1))
  <2>1. Loaded = 1
    BY <1>9 DEF Loaded
  <2> QED
    BY <1>1, <1>4, <1>7, <1>9, <2>1
<1>10. CASE ~Aimed(At(-2)) /\ ~Aimed(At(-1))
  <2>1. Loaded = 0
    BY <1>10 DEF Loaded
  <2> QED
    BY <1>1, <1>4, <1>7, <1>10, <2>1
<1> QED
  BY <1>8, <1>9, <1>10

LEMMA WaitingIs ==
  ASSUME next_buffer \in Buffers, WaitInv
  PROVE  /\ Waiting \in 0 .. NumBuffers
         /\ \A b \in Buffers : Queued(b) <=> Off(b) < Waiting
<1> DEFINE Run(w) == /\ w = NumBuffers \/ ~Queued(At(w))
                     /\ \A k \in 0 .. w - 1 : Queued(At(k))
<1>1. PICK w \in 0 .. NumBuffers : \A b \in Buffers : Queued(b) <=> Off(b) < w
  BY DEF WaitInv
<1>2. \A k \in 0 .. NumBuffers - 1 : At(k) \in Buffers /\ (Queued(At(k)) <=> k < w)
  BY <1>1, OffFacts
<1>3. NumBuffers \in Nat
  BY NumBuffersAssumption
<1>4. Run(w)
  BY <1>1, <1>2, <1>3
<1>5. ASSUME NEW v \in 0 .. NumBuffers, Run(v) PROVE v = w
  <2>1. CASE v < w
    <3>1. v \in 0 .. NumBuffers - 1 /\ ~Queued(At(v))
      BY <1>1, <1>3, <1>5, <2>1
    <3> QED
      BY <1>2, <2>1, <3>1
  <2>2. CASE v > w
    <3>1. w \in 0 .. v - 1 /\ w \in 0 .. NumBuffers - 1
      BY <1>1, <1>3, <2>2
    <3> QED
      BY <1>2, <1>5, <3>1
  <2> QED
    BY <1>1, <1>3, <2>1, <2>2
<1>6. Waiting \in 0 .. NumBuffers /\ Run(Waiting)
  <2>1. Waiting = CHOOSE v \in 0 .. NumBuffers : Run(v)
    BY DEF Waiting
  <2> HIDE DEF Run
  <2> QED
    BY <1>4, <2>1
<1>7. Waiting = w
  BY <1>5, <1>6
<1> QED
  BY <1>1, <1>7

LEMMA LayoutHolds == TypeInv /\ IInv /\ QueueInv => Layout
<1> SUFFICES ASSUME TypeInv, IInv, QueueInv PROVE Layout
  OBVIOUS
<1>1. next_buffer \in Buffers /\ NumBuffers \in Nat /\ NumBuffers >= 3
  BY NumBuffersAssumption DEF TypeInv, TypeOK
<1>2. /\ Loaded \in 0 .. 2 /\ Waiting \in 0 .. NumBuffers
      /\ \A b \in Buffers : /\ Aimed(b) <=> Off(b) >= NumBuffers - Loaded
                            /\ Queued(b) <=> Off(b) < Waiting
  BY <1>1, LoadedIs, WaitingIs DEF QueueInv
<1>3. \A b \in Buffers : ~(Aimed(b) /\ Queued(b))
  BY DEF IInv, LoadedInv, Aimed, Queued
<1>4. Loaded + Waiting <= NumBuffers
  <2> SUFFICES ASSUME Loaded + Waiting > NumBuffers PROVE FALSE
    BY <1>1, <1>2
  <2>1. NumBuffers - Loaded \in 0 .. NumBuffers - 1 /\ NumBuffers - Loaded < Waiting
    BY <1>1, <1>2
  <2>2. /\ At(NumBuffers - Loaded) \in Buffers
        /\ Off(At(NumBuffers - Loaded)) = NumBuffers - Loaded
    BY <1>1, <2>1, OffFacts
  <2> QED
    BY <1>1, <1>2, <1>3, <2>1, <2>2
<1>5. Pending \in [1 .. Loaded + Waiting -> Blocks]
  <2>1. ASSUME NEW k \in 1 .. Loaded + Waiting PROVE At(k - 1 - Loaded) \in Buffers
    <3>1. k - 1 - Loaded \in -2 .. -1 \/ k - 1 - Loaded \in 0 .. NumBuffers - 1
      BY <1>1, <1>2, <1>4
    <3> QED
      BY <1>1, <3>1, OffFacts
  <2>2. audio_buffer \in [Buffers -> Blocks]
    BY DEF TypeInv, TypeOK
  <2> QED
    BY <2>1, <2>2 DEF Pending
<1> QED
  BY <1>2, <1>4, <1>5 DEF Layout

\* A count is known by the buffers it tells apart.
LEMMA SameCount ==
  ASSUME next_buffer \in Buffers, NEW v \in 0 .. NumBuffers, NEW w \in 0 .. NumBuffers,
         \A b \in Buffers : Off(b) < v <=> Off(b) < w
  PROVE  v = w
<1>1. NumBuffers \in Nat
  BY NumBuffersAssumption
<1>2. CASE v < w
  <2>1. v \in 0 .. NumBuffers - 1
    BY <1>1, <1>2
  <2> QED
    BY <1>2, <2>1, OffFacts
<1>3. CASE w < v
  <2>1. w \in 0 .. NumBuffers - 1
    BY <1>1, <1>3
  <2> QED
    BY <1>3, <2>1, OffFacts
<1> QED
  BY <1>1, <1>2, <1>3

\* Sequences, given as functions.
LEMMA AsSeq ==
  ASSUME NEW S, NEW m \in Nat, NEW s \in [1 .. m -> S]
  PROVE  s \in Seq(S) /\ Len(s) = m
<1>1. s \in Seq(S)
  BY SeqDef
<1>2. Len(s) \in Nat /\ 1 .. m = 1 .. Len(s)
  BY <1>1, LenProperties
<1> QED
  BY <1>1, <1>2

LEMMA SameSeq ==
  ASSUME NEW S, NEW m \in Nat, NEW s \in [1 .. m -> S], NEW t \in Seq(S), Len(t) = m,
         \A k \in 1 .. m : s[k] = t[k]
  PROVE  s = t
BY AsSeq, SeqEqual

\* The sequences that the abstract steps yield.
LEMMA PendingSeq ==
  ASSUME TypeInv, Layout
  PROVE  /\ Pending \in Seq(Blocks) /\ Len(Pending) = Loaded + Waiting
         /\ Loaded + Waiting \in Nat
         /\ \A k \in 1 .. Loaded + Waiting : Pending[k] = audio_buffer[At(k - 1 - Loaded)]
<1>1. Loaded + Waiting \in Nat
  BY NumBuffersAssumption DEF Layout
<1> QED
  BY <1>1, AsSeq DEF Layout, Pending

\* What the steps that leave the queue alone do to what the channels hold.
LEMMA AimedKept ==
  ASSUME TypeInv, IInv, [Next]_vars, ~Takes, \A c \in Channels : ~Complete(c)
  PROVE  \A b \in Buffers : Aimed(b)' <=> Aimed(b)
<1> USE NotBuffers DEF TypeInv, TypeOK, hwVars, Aimed
<1>1. ASSUME NEW c \in Channels, Chain(c)
      PROVE  \A b \in Buffers : Aimed(b)' <=> Aimed(b)
  BY <1>1 DEF Chain, IInv, HardwareInv
<1>2. CASE IsrEnter \/ IsrSkip \/ IsrPoll \/ IsrFree \/ IsrSample
  BY <1>2 DEF IsrEnter, IsrSkip, IsrPoll, IsrFree, IsrSample, vars
<1>3. CASE IsrArm
  <2>1. read_addr[isr_c] \notin Buffers
    BY <1>3 DEF IsrArm, IInv, HardwareInv, Finished, Handling
  <2> QED
    BY <1>3, <2>1 DEF IsrArm, Takes
<1>4. CASE RunLoop
  BY <1>4
     DEF RunLoop, AudioOutInit, SetSampleRate, Mask, Unmask, AudioOutStart,
         AudioOutService, AudioOutStop, BeginService, ServiceFill, ServiceSkip,
         ServiceReady, ServiceEnd, ProgramSampleRate
<1>5. CASE UNCHANGED vars
  BY <1>5 DEF vars
<1> QED
  BY <1>1, <1>2, <1>3, <1>4, <1>5 DEF Next, Hardware, Isr

LEMMA QueueSame ==
  ASSUME TypeInv, IInv, Layout, Layout', [Next]_vars, ~Takes, ~ServiceReady, ~Sets,
         \A b \in Buffers : Aimed(b)' <=> Aimed(b)
  PROVE  UNCHANGED <<Pending, fresh>>
<1>1. /\ UNCHANGED <<next_buffer, audio_buffer, fresh>> /\ next_buffer \in Buffers
      /\ \A b \in Buffers : Queued(b)' <=> Queued(b)
  BY QueueKept DEF TypeInv, TypeOK
<1>2. \A b \in Buffers : Off(b)' = Off(b) /\ Off(b) \in Nat
  BY <1>1, OffFacts, NumBuffersAssumption DEF Off
<1>3. Waiting' = Waiting
  <2>1. \A b \in Buffers : Off(b) < Waiting' <=> Off(b) < Waiting
    BY <1>1, <1>2 DEF Layout
  <2> QED
    BY <1>1, <2>1, SameCount DEF Layout
<1>4. Loaded' = Loaded
  <2>1. PICK l \in 0 .. 2, m \in 0 .. 2 : Loaded = l /\ Loaded' = m
    BY DEF Layout
  <2>2. \A b \in Buffers : Off(b) < NumBuffers - m <=> Off(b) < NumBuffers - l
    BY <1>2, <2>1, NumBuffersAssumption DEF Layout
  <2>3. NumBuffers - l \in 0 .. NumBuffers /\ NumBuffers - m \in 0 .. NumBuffers
    BY NumBuffersAssumption
  <2>4. NumBuffers - m = NumBuffers - l
    BY <1>1, <2>2, <2>3, SameCount
  <2> QED
    BY <2>1, <2>4, NumBuffersAssumption
<1>5. \A k : At(k)' = At(k)
  BY <1>1 DEF At
<1> QED
  BY <1>1, <1>3, <1>4, <1>5 DEF Pending

\* A completed transfer plays the oldest block to its end: ...
LEMMA QueueFinish ==
  ASSUME TypeInv, IInv, Layout, Layout', [Next]_vars,
         NEW c \in Channels, Complete(c), read_addr[c] \in Buffers
  PROVE  Queue!Finish
<1> DEFINE b == read_addr[c]
<1>1. ~Takes /\ ~ServiceReady /\ ~Sets
  <2>1. running # running'
    BY NotBuffers DEF Complete, Channels, None
  <2> QED
    BY <2>1 DEF Takes, IsrArm, ServiceReady, Sets, SetSampleRate, hwVars
<1>2. /\ UNCHANGED <<next_buffer, audio_buffer, fresh>> /\ next_buffer \in Buffers
      /\ \A x \in Buffers : Queued(x)' <=> Queued(x)
  BY <1>1, QueueKept DEF TypeInv, TypeOK
<1>3. \A x \in Buffers : Off(x)' = Off(x) /\ Off(x) \in 0 .. NumBuffers - 1
  BY <1>2, OffFacts DEF Off
<1>4. /\ Loaded \in 0 .. 2 /\ Waiting \in 0 .. NumBuffers /\ Loaded + Waiting <= NumBuffers
      /\ NumBuffers \in Nat /\ NumBuffers >= 3
  BY NumBuffersAssumption DEF Layout
<1>5. Waiting' = Waiting
  <2>1. \A x \in Buffers : Off(x) < Waiting' <=> Off(x) < Waiting
    BY <1>2, <1>3 DEF Layout
  <2> QED
    BY <1>2, <2>1, SameCount DEF Layout
<1>6. b \in Buffers /\ Aimed(b) /\ \A d \in Channels : read_addr[d] = b => d = c
  BY DEF Aimed, IInv, LoadedInv, Channels
<1>7. Off(b) = NumBuffers - Loaded
  <2>1. Off(b) >= NumBuffers - Loaded
    BY <1>6 DEF Layout
  <2>2. CASE Loaded = 2
    <3>1. At(-2) \in Buffers /\ Off(At(-2)) = NumBuffers - 2
      BY <1>2, <1>4, OffFacts
    <3>2. PICK d \in Channels : read_addr[d] = At(-2)
      BY <1>4, <2>2, <3>1 DEF Layout, Aimed
    <3>3. ASSUME Off(b) = NumBuffers - 1 PROVE FALSE
      <4>1. d = Other(c) /\ d # c
        BY <1>4, <3>1, <3>2, <3>3, OtherFacts
      <4>2. /\ chan_buffer[c] = b /\ chan_buffer[d] = At(-2)
            /\ ~Finished(d)
        BY <1>6, <3>1, <3>2 DEF IInv, LoadedInv, HardwareInv
      <4>3. Newest(b) /\ Older(At(-2))
        BY <1>2, <1>6, <3>1, <3>3, OffFacts
      <4>4. running = d \/ ctrl = c
        BY <4>1, <4>2, <4>3 DEF IInv, OrderInv
      <4>5. running = c /\ ctrl = None
        BY NotBuffers DEF Complete, IInv, HardwareInv, Channels, None
      <4> QED
        BY <4>1, <4>4, <4>5, NotBuffers DEF Channels, None
    <3> QED
      BY <1>3, <1>4, <1>6, <2>1, <2>2, <3>3
  <2> QED
    BY <1>3, <1>4, <1>6, <2>1, <2>2
<1>8. \A x \in Buffers : Aimed(x)' <=> Aimed(x) /\ x # b
  BY <1>6, NotBuffers DEF Complete, Aimed, TypeInv, TypeOK
<1>9. Loaded >= 1 /\ Loaded' = Loaded - 1
  <2>1. PICK l \in 0 .. 2, k \in 0 .. 2 : Loaded = l /\ Loaded' = k
    BY DEF Layout
  <2>2. l >= 1
    BY <1>3, <1>4, <1>6, <1>7, <2>1
  <2>3. ASSUME NEW x \in Buffers
        PROVE  Off(x) < NumBuffers - k <=> Off(x) < NumBuffers - l + 1
    <3>1. Off(x) = Off(b) <=> x = b
      BY <1>2, <1>6, OffFacts
    <3>2. /\ Aimed(x) <=> Off(x) >= NumBuffers - l
          /\ Aimed(x)' <=> Off(x) >= NumBuffers - k
      BY <1>3, <2>1 DEF Layout
    <3> QED
      BY <1>3, <1>4, <1>7, <1>8, <2>1, <3>1, <3>2
  <2>4. NumBuffers - k \in 0 .. NumBuffers /\ NumBuffers - l + 1 \in 0 .. NumBuffers
    BY <1>4, <2>2
  <2>5. NumBuffers - k = NumBuffers - l + 1
    BY <1>2, <2>3, <2>4, SameCount
  <2> QED
    BY <1>4, <2>1, <2>2, <2>5
<1>10. Pending' = Tail(Pending)
  <2> DEFINE m == Loaded + Waiting
  <2>1. m \in Nat \ {0} /\ Loaded' + Waiting' = m - 1
    BY <1>4, <1>5, <1>9 DEF Layout
  <2>2. Pending \in Seq(Blocks) /\ Len(Pending) = m /\ Pending # <<>>
    BY <2>1, PendingSeq
  <2>3. /\ Tail(Pending) \in Seq(Blocks) /\ Len(Tail(Pending)) = m - 1
        /\ \A k \in 1 .. m - 1 : Tail(Pending)[k] = Pending[k + 1]
    BY <2>2, HeadTailProperties
  <2>4. \A k : At(k)' = At(k)
    BY <1>2 DEF At
  <2>5. ASSUME NEW k \in 1 .. m - 1 PROVE Pending'[k] = Tail(Pending)[k]
    <3>1. Pending'[k] = audio_buffer[At(k - 1 - Loaded')]
      BY <1>2, <2>1, <2>4 DEF Pending
    <3>2. PICK j \in 1 .. m : j = k + 1 /\ j - 1 - Loaded = k - 1 - Loaded'
      BY <1>4, <1>9, <2>1
    <3>3. Pending[j] = audio_buffer[At(j - 1 - Loaded)]
      BY PendingSeq
    <3> QED
      BY <2>3, <3>1, <3>2, <3>3
  <2>6. Pending' \in [1 .. m - 1 -> Blocks]
    BY <2>1 DEF Layout
  <2> QED
    BY <2>1, <2>3, <2>5, <2>6, SameSeq
<1>11. Pending # <<>>
  BY <1>4, <1>9, PendingSeq DEF Layout
<1> QED
  BY <1>2, <1>10, <1>11 DEF Queue!Finish

\* ... taking a buffer to load it moves nothing: ...
LEMMA QueueTaken ==
  ASSUME TypeInv, IInv, Layout, Layout', Takes
  PROVE  UNCHANGED <<Pending, fresh>>
<1>1. /\ next_buffer \in Buffers /\ next_buffer' = Succ(next_buffer) /\ Queued(next_buffer)
      /\ \A b \in Buffers : Queued(b)' <=> Queued(b) /\ b # next_buffer
      /\ UNCHANGED <<audio_buffer, fresh>>
  BY Taken DEF Takes, IsrArm, audioVars
<1>2. PICK l \in 0 .. 2, m \in 0 .. 2, w \in 0 .. NumBuffers, v \in 0 .. NumBuffers :
        /\ Loaded = l /\ Loaded' = m /\ Waiting = w /\ Waiting' = v /\ l + w <= NumBuffers
        /\ NumBuffers \in Nat /\ NumBuffers >= 3
  BY NumBuffersAssumption DEF Layout
<1>3. \A b \in Buffers : /\ Off(b) \in 0 .. NumBuffers - 1
                         /\ Off(b) = 0 <=> b = next_buffer
                         /\ Off(b)' = IF b = next_buffer THEN NumBuffers - 1 ELSE Off(b) - 1
  BY <1>1, OffFacts, OffTaken
<1>4. \A b \in Buffers : Aimed(b)' <=> Aimed(b) \/ b = next_buffer
  <2>1. isr_c \in Channels /\ read_addr[isr_c] \notin Buffers
    BY DEF TypeInv, TypeOK, Takes, IsrArm, IInv, HardwareInv, Finished, Handling
  <2> QED
    BY <2>1 DEF Takes, IsrArm, Aimed, TypeInv, TypeOK
<1>5. v = w - 1
  <2>1. \A b \in Buffers : /\ Queued(b) <=> Off(b) < w
                           /\ Queued(b)' <=> Off(b)' < v
    BY <1>2 DEF Layout
  <2>2. v + 1 \in 0 .. NumBuffers
    BY <1>1, <1>2, <1>3, <2>1
  <2>3. \A b \in Buffers : Off(b) < v + 1 <=> Off(b) < w
    BY <1>1, <1>2, <1>3, <2>1
  <2>4. v + 1 = w
    BY <1>1, <2>2, <2>3, SameCount
  <2> QED
    BY <2>4
<1>6. m = l + 1
  <2>1. \A b \in Buffers : /\ Aimed(b) <=> Off(b) >= NumBuffers - l
                           /\ Aimed(b)' <=> Off(b)' >= NumBuffers - m
    BY <1>2 DEF Layout
  <2>2. m >= 1
    BY <1>1, <1>2, <1>3, <1>4, <2>1
  <2>3. \A b \in Buffers : Off(b) < NumBuffers - m + 1 <=> Off(b) < NumBuffers - l
    BY <1>1, <1>2, <1>3, <1>4, <2>1
  <2>4. NumBuffers - m + 1 \in 0 .. NumBuffers /\ NumBuffers - l \in 0 .. NumBuffers
    BY <1>2, <2>2
  <2>5. NumBuffers - m + 1 = NumBuffers - l
    BY <1>1, <2>3, <2>4, SameCount
  <2> QED
    BY <1>2, <2>5
<1>7. ASSUME NEW k \in 1 .. l + w PROVE At(k - 1 - m)' = At(k - 1 - l)
  <2>1. PICK j \in -2 .. NumBuffers - 2 : j = k - 1 - m /\ j + 1 = k - 1 - l
    BY <1>2, <1>6
  <2>2. At(j)' = At(j + 1)
    BY <1>1, AtTaken
  <2> QED
    BY <2>1, <2>2
<1>8. l + w = m + v
  BY <1>5, <1>6
<1>9. /\ Pending = [k \in 1 .. l + w |-> audio_buffer[At(k - 1 - l)]]
      /\ Pending' = [k \in 1 .. l + w |-> audio_buffer[At(k - 1 - m)']]
  BY <1>1, <1>2, <1>8 DEF Pending
<1> QED
  BY <1>1, <1>7, <1>9

\* ... a buffer filled is handed over at the end, for it follows all that wait; ...
LEMMA QueueHandOver ==
  ASSUME TypeInv, IInv, QueueInv, Layout, Layout', ServiceReady
  PROVE  Queue!HandOver
<1>1. /\ i \in Buffers /\ ~Queued(i) /\ ~Aimed(i) /\ InOrder
      /\ UNCHANGED <<next_buffer, chan_buffer, read_addr>> /\ next_buffer \in Buffers
      /\ audio_buffer \in [Buffers -> Blocks] /\ fresh \in Blocks
      /\ audio_buffer' = [audio_buffer EXCEPT ![i] = fresh]
      /\ \A b \in Buffers : Queued(b)' <=> Queued(b) \/ b = i
  BY HandedOver DEF ServiceReady, QueueInv, WalkInv, TypeInv, TypeOK
<1>2. PICK l \in 0 .. 2, m \in 0 .. 2, w \in 0 .. NumBuffers, v \in 0 .. NumBuffers :
        /\ Loaded = l /\ Loaded' = m /\ Waiting = w /\ Waiting' = v /\ l + w <= NumBuffers
        /\ NumBuffers \in Nat /\ NumBuffers >= 3
  BY NumBuffersAssumption DEF Layout
<1>3. \A b \in Buffers : /\ Off(b)' = Off(b) /\ Off(b) \in 0 .. NumBuffers - 1
                         /\ Aimed(b)' <=> Aimed(b)
                         /\ Aimed(b) <=> Off(b) >= NumBuffers - l
                         /\ Aimed(b)' <=> Off(b) >= NumBuffers - m
                         /\ Queued(b) <=> Off(b) < w
                         /\ Queued(b)' <=> Off(b) < v
  BY <1>1, <1>2, OffFacts DEF Layout, Off, Aimed
<1>4. Off(i) = w
  <2>1. ~(Off(i) < w)
    BY <1>1, <1>3
  <2>2. ASSUME w < Off(i) PROVE FALSE
    <3>1. At(w) \in Buffers /\ Off(At(w)) = w
      BY <1>1, <1>2, <1>3, <2>2, OffFacts
    <3> QED
      BY <1>1, <1>3, <2>2, <3>1 DEF InOrder
  <2> QED
    BY <1>1, <1>3, <2>1, <2>2
<1>5. w + l < NumBuffers
  BY <1>1, <1>2, <1>3, <1>4
<1>6. m = l
  <2>1. \A b \in Buffers : Off(b) < NumBuffers - m <=> Off(b) < NumBuffers - l
    BY <1>2, <1>3
  <2>2. NumBuffers - m \in 0 .. NumBuffers /\ NumBuffers - l \in 0 .. NumBuffers
    BY <1>2
  <2>3. NumBuffers - m = NumBuffers - l
    BY <1>1, <2>1, <2>2, SameCount
  <2> QED
    BY <1>2, <2>3
<1>7. v = w + 1
  <2>1. \A b \in Buffers : Off(b) = w <=> b = i
    BY <1>1, <1>4, OffFacts
  <2>2. \A b \in Buffers : Off(b) < v <=> Off(b) < w + 1
    BY <1>1, <1>3, <2>1
  <2>3. w + 1 \in 0 .. NumBuffers
    BY <1>2, <1>5
  <2> QED
    BY <1>1, <2>2, <2>3, SameCount
<1>8. /\ Pending \in Seq(Blocks) /\ Len(Pending) = l + w /\ l + w \in Nat
      /\ \A k \in 1 .. l + w : Pending[k] = audio_buffer[At(k - 1 - l)]
  BY <1>2, PendingSeq
<1>9. /\ Append(Pending, fresh) \in Seq(Blocks) /\ Len(Append(Pending, fresh)) = l + w + 1
      /\ Append(Pending, fresh)[l + w + 1] = fresh
      /\ \A k \in 1 .. l + w : Append(Pending, fresh)[k] = Pending[k]
  BY <1>1, <1>8, AppendProperties
<1>10. ASSUME NEW k \in 1 .. l + w + 1 PROVE Pending'[k] = Append(Pending, fresh)[k]
  <2>1. Pending'[k] = audio_buffer'[At(k - 1 - l)]
    <3>1. Pending' = [j \in 1 .. l + w + 1 |-> audio_buffer'[At(j - 1 - l)']]
      BY <1>2, <1>6, <1>7 DEF Pending
    <3>2. At(k - 1 - l)' = At(k - 1 - l)
      BY <1>1 DEF At
    <3> QED
      BY <3>1, <3>2
  <2>2. CASE k = l + w + 1
    <3>1. At(k - 1 - l) = i
      <4>1. At(w) = i
        BY <1>1, <1>4, OffFacts
      <4>2. k - 1 - l = w
        BY <2>2
      <4> QED
        BY <4>1, <4>2
    <3> QED
      BY <1>1, <1>9, <2>1, <2>2, <3>1
  <2>3. CASE k \in 1 .. l + w
    <3>1. /\ k - 1 - l \in -2 .. -1 \/ k - 1 - l \in 0 .. NumBuffers - 1
          /\ k - 1 - l < w
      BY <1>2, <2>3
    <3>2. At(k - 1 - l) \in Buffers /\ At(k - 1 - l) # i
      <4>1. PICK j \in -2 .. NumBuffers - 1 : j = k - 1 - l /\ j < w
        BY <1>2, <2>3
      <4>2. CASE j < 0
        BY <1>1, <1>2, <1>4, <1>5, <4>1, <4>2, OffFacts
      <4>3. CASE j >= 0
        BY <1>1, <1>2, <1>4, <1>5, <4>1, <4>3, OffFacts
      <4> QED
        BY <4>1, <4>2, <4>3
    <3> QED
      BY <1>1, <1>8, <1>9, <2>1, <2>3, <3>2
  <2> QED
    BY <1>8, <2>2, <2>3
<1>11. Pending' = Append(Pending, fresh)
  <2>1. Pending' \in [1 .. l + w + 1 -> Blocks] /\ l + w + 1 \in Nat
    <3>1. Loaded' + Waiting' = l + w + 1
      BY <1>2, <1>6, <1>7
    <3>2. Pending' \in [1 .. Loaded' + Waiting' -> Blocks']
      BY DEF Layout
    <3> QED
      BY <3>1, <3>2 DEF Blocks
  <2> QED
    BY <1>9, <1>10, <2>1, SameSeq
<1>12. fresh' = (fresh + 1) % NumBlocks
  BY DEF ServiceReady
<1> QED
  BY <1>2, <1>5, <1>8, <1>11, <1>12 DEF Queue!HandOver

\* ... and a change of rate leaves only what is loaded.
LEMMA QueueDrop ==
  ASSUME TypeInv, IInv, Layout, Layout', Sets
  PROVE  Queue!Drop \/ UNCHANGED <<Pending, fresh>>
<1>1. /\ UNCHANGED <<next_buffer, read_addr, audio_buffer, fresh>> /\ next_buffer \in Buffers
      /\ \A b \in Buffers : ~Queued(b)'
  BY Dropped DEF Sets, TypeInv, TypeOK
<1>2. PICK l \in 0 .. 2, m \in 0 .. 2, w \in 0 .. NumBuffers, v \in 0 .. NumBuffers :
        /\ Loaded = l /\ Loaded' = m /\ Waiting = w /\ Waiting' = v /\ l + w <= NumBuffers
        /\ NumBuffers \in Nat /\ NumBuffers >= 3
  BY NumBuffersAssumption DEF Layout
<1>3. \A b \in Buffers : /\ Off(b)' = Off(b) /\ Off(b) \in 0 .. NumBuffers - 1
                         /\ Aimed(b)' <=> Aimed(b)
                         /\ Aimed(b) <=> Off(b) >= NumBuffers - l
                         /\ Aimed(b)' <=> Off(b) >= NumBuffers - m
                         /\ Queued(b)' <=> Off(b) < v
  BY <1>1, <1>2, OffFacts DEF Layout, Off, Aimed
<1>4. m = l
  <2>1. \A b \in Buffers : Off(b) < NumBuffers - m <=> Off(b) < NumBuffers - l
    BY <1>2, <1>3
  <2>2. NumBuffers - m \in 0 .. NumBuffers /\ NumBuffers - l \in 0 .. NumBuffers
    BY <1>2
  <2>3. NumBuffers - m = NumBuffers - l
    BY <1>1, <2>1, <2>2, SameCount
  <2> QED
    BY <1>2, <2>3
<1>5. v = 0
  <2>1. \A b \in Buffers : Off(b) < v <=> Off(b) < 0
    BY <1>1, <1>3
  <2>2. 0 \in 0 .. NumBuffers
    BY <1>2
  <2> QED
    BY <1>1, <2>1, <2>2, SameCount
<1>6. /\ Pending = [k \in 1 .. l + w |-> audio_buffer[At(k - 1 - l)]]
      /\ Pending' = [k \in 1 .. l |-> audio_buffer[At(k - 1 - l)]]
  <2>1. \A k : At(k)' = At(k)
    BY <1>1 DEF At
  <2>2. Loaded' + Waiting' = l
    BY <1>2, <1>4, <1>5
  <2> QED
    BY <1>1, <1>2, <1>4, <2>1, <2>2 DEF Pending
<1>7. CASE w = 0
  BY <1>1, <1>6, <1>7
<1>8. CASE w > 0
  <2>1. Pending \in Seq(Blocks) /\ Len(Pending) = l + w
    BY <1>2, PendingSeq
  <2>2. \A k \in 1 .. l : Pending[k] \in Blocks
    BY <2>1, ElementOfSeq
  <2>3. /\ SubSeq(Pending, 1, l) \in Seq(Blocks) /\ Len(SubSeq(Pending, 1, l)) = l
        /\ \A k \in 1 .. l : SubSeq(Pending, 1, l)[k] = Pending[k]
    BY <2>2, SubSeqProperties
  <2>4. ASSUME NEW k \in 1 .. l PROVE Pending'[k] = SubSeq(Pending, 1, l)[k]
    BY <1>6, <2>3
  <2>5. Pending' \in [1 .. l -> Blocks]
    <3>1. ASSUME NEW k \in 1 .. l PROVE audio_buffer[At(k - 1 - l)] \in Blocks
      <4>1. k \in 1 .. l + w
        BY <1>8
      <4>2. Pending[k] = audio_buffer[At(k - 1 - l)]
        BY <1>6, <4>1
      <4> QED
        BY <2>2, <4>2
    <3> QED
      BY <1>6, <3>1
  <2>6. Pending' = SubSeq(Pending, 1, l)
    BY <2>3, <2>4, <2>5, SameSeq
  <2>7. l \in 0 .. 2 /\ l < Len(Pending)
    BY <1>8, <2>1
  <2> QED
    BY <1>1, <2>6, <2>7 DEF Queue!Drop
<1> QED
  BY <1>7, <1>8

LEMMA QueueStep ==
  ASSUME TypeInv, IInv, QueueInv, Layout, Layout', [Next]_vars
  PROVE  [Queue!Next]_(Queue!vars)
<1>1. CASE Takes
  BY <1>1, QueueTaken DEF Queue!vars
<1>2. CASE ServiceReady
  BY <1>2, QueueHandOver DEF Queue!Next
<1>3. CASE Sets
  BY <1>3, QueueDrop DEF Queue!Next, Queue!vars
<1>4. ASSUME NEW c \in Channels, Complete(c) PROVE [Queue!Next]_(Queue!vars)
  <2>1. CASE read_addr[c] \in Buffers
    BY <1>4, <2>1, QueueFinish DEF Queue!Next
  <2>2. CASE read_addr[c] \notin Buffers
    <3>1. \A b \in Buffers : Aimed(b)' <=> Aimed(b)
      BY <1>4, <2>2, NotBuffers DEF Complete, Aimed, TypeInv, TypeOK
    <3>2. ~Takes /\ ~ServiceReady /\ ~Sets
      <4>1. running # running'
        BY <1>4, NotBuffers DEF Complete, Channels, None
      <4> QED
        BY <4>1 DEF Takes, IsrArm, ServiceReady, Sets, SetSampleRate, hwVars
    <3> QED
      BY <3>1, <3>2, QueueSame DEF Queue!vars
  <2> QED
    BY <2>1, <2>2
<1>5. CASE ~Takes /\ ~ServiceReady /\ ~Sets /\ \A c \in Channels : ~Complete(c)
  BY <1>5, AimedKept, QueueSame DEF Queue!vars
<1> QED
  BY <1>1, <1>2, <1>3, <1>4, <1>5

\* audio_out keeps AudioQueue's promise: blocks play whole, once and in the
\* order they were handed over, and only a change of rate drops any.
THEOREM Refines == Spec => PlaysInOrder
<1>1. Spec => [](TypeInv /\ IInv /\ QueueInv /\ Layout)
  <2>1. Spec => []TypeInv
    BY Initially, TypeStep, PTL DEF Spec
  <2> QED
    BY <2>1, Inductive, QueueInductive, LayoutHolds, PTL
<1>2. Init /\ Layout => Queue!Init
  <2> SUFFICES ASSUME Init, Layout PROVE Queue!Init
    OBVIOUS
  <2>1. next_buffer = 0 /\ At(0) = 0 /\ At(-1) \in Buffers /\ At(-2) \in Buffers
    BY NumBuffersAssumption DEF Init, At, Buffers
  <2>2. ~Aimed(At(-1)) /\ ~Aimed(At(-2)) /\ \A b \in Buffers : ~Queued(b)
    BY <2>1, NotBuffers DEF Init, Aimed, Queued
  <2>3. Loaded = 0
    BY <2>2 DEF Loaded
  <2>4. Waiting = 0
    <3>1. Off(0) = 0 /\ 0 \in Buffers
      BY <2>1, Zero DEF Off
    <3>2. Waiting \in 0 .. NumBuffers /\ ~(Off(0) < Waiting)
      BY <2>2, <3>1 DEF Layout
    <3> QED
      BY <3>1, <3>2, NumBuffersAssumption
  <2>5. Pending = <<>>
    BY <2>3, <2>4 DEF Pending
  <2> QED
    BY <2>5 DEF Queue!Init, Init
<1>3. TypeInv /\ IInv /\ QueueInv /\ Layout /\ Layout' /\ [Next]_vars
        => [Queue!Next]_(Queue!vars)
  BY QueueStep
<1> QED
  BY <1>1, <1>2, <1>3, PTL DEF Spec, PlaysInOrder, Queue!Spec
=============================================================================
