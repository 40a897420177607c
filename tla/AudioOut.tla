------------------------------ MODULE AudioOut ------------------------------
(***************************************************************************)
(* audio_out.c: the I2S output.  Two DMA channels, chained to each other   *)
(* through two one-word control channels, walk a ring of buffers.  The     *)
(* completion IRQ (i2s_dma_handler) reloads whichever channel finished;    *)
(* the run loop (audio_out_service) refills the buffers.                   *)
(*                                                                         *)
(* Three actors interleave here: the DMA hardware, the IRQ, and the run    *)
(* loop.  The IRQ has the highest priority, so the run loop takes no step  *)
(* while it is pending or running, except between Mask and Unmask, where   *)
(* interrupts are held off (a flash write).  The hardware never stops.     *)
(*                                                                         *)
(* Audio is abstracted to block numbers: the n-th block handed over is     *)
(* n % NumBlocks, which tells all the blocks in the ring apart.            *)
(***************************************************************************)
EXTENDS Integers

CONSTANTS
  NumBuffers,   \* PICO_AUDIO_I2S_NUM_BUFFERS
  NumBlocks,    \* bound: block numbers repeat after this many
  Rates         \* the sample rates data_clkdiv_fp8 accepts

\* Three is what the ring needs: one buffer playing, one loaded, one to fill.
ASSUME NumBuffersAssumption == NumBuffers \in Nat /\ NumBuffers >= 3
ASSUME NumBlocksAssumption  == NumBlocks \in Nat /\ NumBlocks > NumBuffers
ASSUME RatesAssumption      == Rates # {} /\ Rates \subseteq Nat \ {0}

VARIABLES
  \* the DMA hardware
  running,      \* the data channel transferring, or None
  ctrl,         \* the channel whose control channel is about to run, or None
  read_addr,    \* where each data channel reads from
  whole,        \* the running transfer counts out the whole of what it is aimed at
  ints0,        \* the data channels with a completion interrupt raised
  \* the IRQ handler
  isr,          \* where the handler is: "off", "test", "sample" or "arm"
  isr_c,        \* the channel it is looking at
  \* state shared between the IRQ and the run loop
  chan_buffer, buffer_ready, next_buffer,
  \* the run loop
  pc,           \* "off", "idle", "masked", "scan", "fill", "reprogram"
  i, n,         \* audio_out_service's locals: the buffer, the buffers visited
  streaming,    \* fill_callback # NULL
  current_rate, \* 0 before audio_out_init
  new_rate,     \* audio_out_set_sample_rate's argument
  slack,        \* did the running transfer start before the code running now?
  \* the audio itself
  audio_buffer, \* the block each buffer holds
  made_for,     \* the rate that block was made for
  fresh         \* the block the source hands over next

hwVars     == <<running, ctrl, read_addr, whole>>
isrVars    == <<isr, isr_c>>
sharedVars == <<chan_buffer, buffer_ready, next_buffer>>
loopVars   == <<pc, i, n, streaming, current_rate, new_rate>>
audioVars  == <<audio_buffer, made_for, fresh>>
vars == <<hwVars, ints0, isrVars, sharedVars, loopVars, slack, audioVars>>

Buffers  == 0 .. NumBuffers - 1
Visits   == 0 .. NumBuffers   \* the values of audio_out_service's n
Blocks   == 0 .. NumBlocks - 1
Channels == {0, 1}

None    == -1   \* no channel; no buffer, the channel is on silence
Silence == -1   \* the start of silence_buffer
Spent   == -2   \* past the end of whatever was read last

Succ(b)  == IF b + 1 = NumBuffers THEN 0 ELSE b + 1
Other(c) == 1 - c

TypeOK ==
  /\ running \in Channels \cup {None}
  /\ ctrl \in Channels \cup {None}
  /\ read_addr \in [Channels -> Buffers \cup {Silence, Spent}]
  /\ whole \in BOOLEAN
  /\ ints0 \in SUBSET Channels
  /\ isr \in {"off", "test", "sample", "arm"}
  /\ isr_c \in Channels
  /\ chan_buffer \in [Channels -> Buffers \cup {None}]
  /\ buffer_ready \in [Buffers -> BOOLEAN]
  /\ next_buffer \in Buffers
  /\ pc \in {"off", "idle", "masked", "scan", "fill", "reprogram"}
  /\ i \in Buffers
  /\ n \in Visits
  /\ streaming \in BOOLEAN
  /\ current_rate \in Rates \cup {0}
  /\ new_rate \in Rates \cup {0}
  /\ slack \in BOOLEAN
  /\ audio_buffer \in [Buffers -> Blocks]
  /\ made_for \in [Buffers -> Rates \cup {0}]
  /\ fresh \in Blocks

Init ==
  /\ running = None /\ ctrl = None
  /\ read_addr = [c \in Channels |-> Silence]
  /\ whole = TRUE
  /\ ints0 = {}
  /\ isr = "off" /\ isr_c = 0
  /\ chan_buffer = [c \in Channels |-> None]
  /\ buffer_ready = [b \in Buffers |-> FALSE]
  /\ next_buffer = 0
  /\ pc = "off" /\ i = 0 /\ n = 0
  /\ streaming = FALSE
  /\ current_rate = 0 /\ new_rate = 0
  /\ slack = FALSE
  /\ audio_buffer = [b \in Buffers |-> 0]
  /\ made_for = [b \in Buffers |-> 0]
  /\ fresh = 0

-----------------------------------------------------------------------------
(***************************************************************************)
(* Time.  A transfer takes a buffer period, over 11 ms.  The IRQ handler,  *)
(* and a run of service iterations that fill nothing, take microseconds: a *)
(* transfer may end in such a stretch if it was under way before (slack),  *)
(* never if it started within.  With interrupts enabled the handler runs   *)
(* before the next completion; while they are masked, and during a fill,   *)
(* any number may happen.                                                  *)
(***************************************************************************)
MayComplete ==
  \/ pc = "masked"
  \/ pc \in {"idle", "fill"} /\ ints0 = {} /\ isr = "off"
  \/ slack

\* A data channel finishes.  Its interrupt is raised and it chains to its
\* control channel; its own read address is left past the end of what it read,
\* or, of a transfer that is not whole, a few words short of it.
Complete(c) ==
  /\ running = c
  /\ MayComplete
  /\ running' = None
  /\ ctrl' = c
  /\ ints0' = ints0 \cup {c}
  /\ read_addr' = [read_addr EXCEPT ![c] = Spent]
  /\ UNCHANGED <<whole, isrVars, sharedVars, loopVars, slack, audioVars>>

\* Mutant: the control channel only chains; the address stays where it was.
Chain_NoSilence(c) ==
  /\ ctrl = c
  /\ ctrl' = None
  /\ running' = Other(c) /\ whole' = TRUE
  /\ slack' = FALSE
  /\ UNCHANGED <<read_addr, ints0, isrVars, sharedVars, loopVars, audioVars>>

\* Mutant: the control channel triggers its own data channel again.
Chain_Self(c) ==
  /\ ctrl = c
  /\ ctrl' = None
  /\ read_addr' = [read_addr EXCEPT ![c] = Silence]
  /\ running' = c /\ whole' = TRUE
  /\ slack' = FALSE
  /\ UNCHANGED <<ints0, isrVars, sharedVars, loopVars, audioVars>>

\* A control channel writes silence_addr into the finished channel's read
\* address and chains to the other data channel, which starts and reloads its
\* transfer count.
Chain(c) ==
  /\ ctrl = c
  /\ ctrl' = None
  /\ read_addr' = [read_addr EXCEPT ![c] = Silence]
  /\ running' = Other(c) /\ whole' = TRUE
  /\ slack' = FALSE
  /\ UNCHANGED <<ints0, isrVars, sharedVars, loopVars, audioVars>>

-----------------------------------------------------------------------------
(***************************************************************************)
(* i2s_dma_handler.  Both channels are looked at in turn, channel 0 first. *)
(***************************************************************************)
IsrEnter ==
  /\ isr = "off"
  /\ ints0 # {}
  /\ pc # "masked"
  /\ isr' = "test"
  /\ isr_c' = 0
  /\ UNCHANGED <<hwVars, ints0, sharedVars, loopVars, slack, audioVars>>

\* On to the next channel, or out of the handler.
IsrAdvance ==
  /\ isr' = IF isr_c = 0 THEN "test" ELSE "off"
  /\ isr_c' = IF isr_c = 0 THEN 1 ELSE 0

IsrSkip ==
  /\ isr = "test"
  /\ isr_c \notin ints0
  /\ IsrAdvance
  /\ UNCHANGED <<hwVars, ints0, sharedVars, loopVars, slack, audioVars>>

\* The buffer the channel just played is free again.
IsrFree ==
  /\ isr = "test"
  /\ isr_c \in ints0
  /\ ints0' = ints0 \ {isr_c}
  /\ buffer_ready' = [b \in Buffers |->
                        buffer_ready[b] /\ b # chan_buffer[isr_c]]
  /\ isr' = "sample"
  /\ UNCHANGED <<hwVars, isr_c, chan_buffer, next_buffer, loopVars, slack,
                 audioVars>>

\* The poll: it ends once the channel is running again, or points at silence.
IsrSettled == running = isr_c \/ read_addr[isr_c] = Silence

IsrPoll ==
  /\ isr = "sample"
  /\ ~IsrSettled
  /\ UNCHANGED vars

\* Mutant: the interrupt is not looked at again.
TooLate_OneLook == running = isr_c

\* Mutant: whether the channel is running again is not looked at.
TooLate_NotBusy == isr_c \in ints0

\* The one sample of BUSY, and the second look at the interrupt: the channel
\* has been started again, on silence, and has perhaps finished again.
TooLate == running = isr_c \/ isr_c \in ints0

IsrSample ==
  /\ isr = "sample"
  /\ IsrSettled
  /\ IF TooLate
       THEN /\ chan_buffer' = [chan_buffer EXCEPT ![isr_c] = None]
            /\ IsrAdvance
       ELSE /\ isr' = "arm"
            /\ UNCHANGED <<chan_buffer, isr_c>>
  /\ UNCHANGED <<hwVars, ints0, buffer_ready, next_buffer, loopVars, slack,
                 audioVars>>

\* Mutant: the buffer taken stays the next one to take.
BufferAfterTaken_Same == next_buffer

\* Where next_buffer moves once it is taken.
BufferAfterTaken == Succ(next_buffer)

\* Neither the address nor the count triggers the channel: if it runs by now, what
\* is left of its transfer goes on from the new address.
IsrArm ==
  /\ isr = "arm"
  /\ IF buffer_ready[next_buffer]
       THEN /\ chan_buffer' = [chan_buffer EXCEPT ![isr_c] = next_buffer]
            /\ read_addr' = [read_addr EXCEPT ![isr_c] = next_buffer]
            /\ next_buffer' = BufferAfterTaken
       ELSE /\ chan_buffer' = [chan_buffer EXCEPT ![isr_c] = None]
            /\ read_addr' = [read_addr EXCEPT ![isr_c] = Silence]
            /\ UNCHANGED next_buffer
  /\ whole' = (whole /\ running # isr_c)
  /\ IsrAdvance
  /\ UNCHANGED <<running, ctrl, ints0, buffer_ready, loopVars, slack,
                 audioVars>>

Isr == IsrEnter \/ IsrSkip \/ IsrFree \/ IsrPoll \/ IsrSample \/ IsrArm

-----------------------------------------------------------------------------
(***************************************************************************)
(* The run loop.                                                           *)
(***************************************************************************)

\* The run loop has the processor: no DMA interrupt pending or being handled.
Undisturbed == isr = "off" /\ ints0 = {}

\* audio_out_init, i2s_start: channel 0 starts, on silence.
AudioOutInit(r) ==
  /\ pc = "off"
  /\ pc' = "idle"
  /\ current_rate' = r
  /\ running' = 0
  /\ UNCHANGED <<ctrl, read_addr, whole, ints0, isrVars, sharedVars, i, n, streaming,
                 new_rate, slack, audioVars>>

\* The run loop calls something that disables interrupts for long: a flash
\* write.  When it ends, what it held off is handled before anything else.
Mask ==
  /\ pc = "idle" /\ Undisturbed
  /\ pc' = "masked"
  /\ slack' = FALSE
  /\ UNCHANGED <<hwVars, ints0, isrVars, sharedVars, i, n, streaming,
                 current_rate, new_rate, audioVars>>

Unmask ==
  /\ pc = "masked"
  /\ pc' = "idle"
  /\ slack' = TRUE
  /\ UNCHANGED <<hwVars, ints0, isrVars, sharedVars, i, n, streaming,
                 current_rate, new_rate, audioVars>>

\* Mutant: the walk starts at the bottom of the array.
OldestFree_Bottom == 0

\* Where audio_out_service starts its walk over the ring.
OldestFree == next_buffer

\* The first lines of audio_out_service.
BeginService ==
  /\ pc' = "scan"
  /\ i' = OldestFree
  /\ n' = 0
  /\ slack' = TRUE
  /\ UNCHANGED <<hwVars, ints0, isrVars, sharedVars, current_rate, new_rate,
                 audioVars>>

AudioOutStart ==
  /\ pc = "idle" /\ Undisturbed
  /\ streaming' = TRUE
  /\ BeginService

AudioOutService ==
  /\ pc = "idle" /\ Undisturbed
  /\ streaming
  /\ BeginService
  /\ UNCHANGED streaming

AudioOutStop ==
  /\ pc = "idle" /\ Undisturbed
  /\ streaming
  /\ streaming' = FALSE
  /\ UNCHANGED <<hwVars, ints0, isrVars, sharedVars, pc, i, n, current_rate,
                 new_rate, slack, audioVars>>

\* Is this buffer to be filled?  fill() starts writing it.
ServiceFill ==
  /\ pc = "scan" /\ Undisturbed
  /\ n < NumBuffers
  /\ ~buffer_ready[i]
  /\ pc' = "fill"
  /\ slack' = FALSE
  /\ UNCHANGED <<hwVars, ints0, isrVars, sharedVars, i, n, streaming,
                 current_rate, new_rate, audioVars>>

ServiceSkip ==
  /\ pc = "scan" /\ Undisturbed
  /\ n < NumBuffers
  /\ buffer_ready[i]
  /\ i' = Succ(i)
  /\ n' = n + 1
  /\ UNCHANGED <<hwVars, ints0, isrVars, sharedVars, pc, streaming,
                 current_rate, new_rate, slack, audioVars>>

\* fill() and the gain have written the whole buffer: it is handed over.
ServiceReady ==
  /\ pc = "fill" /\ Undisturbed
  /\ audio_buffer' = [audio_buffer EXCEPT ![i] = fresh]
  /\ made_for' = [made_for EXCEPT ![i] = current_rate]
  /\ fresh' = (fresh + 1) % NumBlocks
  /\ buffer_ready' = [buffer_ready EXCEPT ![i] = TRUE]
  /\ pc' = "scan"
  /\ i' = Succ(i)
  /\ n' = n + 1
  /\ slack' = TRUE
  /\ UNCHANGED <<hwVars, ints0, isrVars, chan_buffer, next_buffer, streaming,
                 current_rate, new_rate>>

ServiceEnd ==
  /\ pc = "scan" /\ Undisturbed
  /\ n = NumBuffers
  /\ pc' = "idle"
  /\ i' = 0 /\ n' = 0      \* the locals are gone
  /\ slack' = FALSE
  /\ UNCHANGED <<hwVars, ints0, isrVars, sharedVars, streaming, current_rate,
                 new_rate, audioVars>>

\* Mutant: what is queued stays queued.
DiscardQueued_Kept == UNCHANGED buffer_ready

\* discard_queued, with interrupts off: all but what the channels hold.
DiscardQueued ==
  buffer_ready' = [b \in Buffers |->
                     buffer_ready[b] /\ \E c \in Channels : chan_buffer[c] = b]

\* audio_out_set_sample_rate: refused mid-stream, nothing to do for the same
\* rate.
SetSampleRate(r) ==
  /\ pc = "idle" /\ Undisturbed
  /\ r # current_rate
  /\ ~streaming
  /\ DiscardQueued
  /\ new_rate' = r
  /\ pc' = "reprogram"
  /\ slack' = TRUE
  /\ UNCHANGED <<hwVars, ints0, isrVars, chan_buffer, next_buffer, i, n,
                 streaming, current_rate, audioVars>>

ProgramSampleRate ==
  /\ pc = "reprogram" /\ Undisturbed
  /\ current_rate' = new_rate
  /\ new_rate' = 0
  /\ pc' = "idle"
  /\ slack' = FALSE
  /\ UNCHANGED <<hwVars, ints0, isrVars, sharedVars, i, n, streaming,
                 audioVars>>

RunLoop ==
  \/ \E r \in Rates : AudioOutInit(r) \/ SetSampleRate(r)
  \/ Mask \/ Unmask
  \/ AudioOutStart \/ AudioOutService \/ AudioOutStop
  \/ ServiceFill \/ ServiceSkip \/ ServiceReady \/ ServiceEnd
  \/ ProgramSampleRate

Hardware == \E c \in Channels : Complete(c) \/ Chain(c)

Next == Hardware \/ Isr \/ RunLoop

Spec == Init /\ [][Next]_vars

(***************************************************************************)
(* Fairness.  The clocks never stop, so a transfer ends and a chain fires; *)
(* the handler is not preempted by anything; every call of the run loop    *)
(* returns, the flash write included.  Nothing obliges the run loop to     *)
(* start, to stop, or even to call audio_out_service again.                *)
(***************************************************************************)
Returns == Unmask \/ ServiceFill \/ ServiceSkip \/ ServiceReady \/ ServiceEnd
             \/ ProgramSampleRate

FairSpec == Spec /\ WF_vars(Hardware) /\ WF_vars(Isr) /\ WF_vars(Returns)

-----------------------------------------------------------------------------
(***************************************************************************)
(* Properties.                                                             *)
(***************************************************************************)

\* A buffer a channel is aimed at, armed or being read.
Aimed(b) == \E c \in Channels : read_addr[c] = b

\* A buffer holding audio that no channel has taken yet.
Queued(b) == buffer_ready[b] /\ \A c \in Channels : chan_buffer[c] # b

\* "The run loop refills anything not marked ready, so it can never write a
\* buffer that is queued or in flight, and the IRQ never picks one that is
\* being written" (audio_out.c, buffer_ready): whatever a channel is aimed at
\* is marked ready, and the run loop is not inside fill() on it.
NeverWrittenWhileAimed ==
  \A b \in Buffers :
    Aimed(b) => buffer_ready[b] /\ ~(pc = "fill" /\ i = b)

\* No block plays twice: the channels are never aimed at the same buffer, and
\* the IRQ never takes for one channel the buffer another still holds.
NoBufferTwice ==
  /\ \A b \in Buffers : ~(read_addr[0] = b /\ read_addr[1] = b)
  /\ \A b \in Buffers : ~(chan_buffer[0] = b /\ chan_buffer[1] = b)

\* However late the IRQ, a running channel reads audio or silence, never the
\* RAM that follows (the comment on i2s_ctrl_chan).
NeverReadsPastEnd == running # None => read_addr[running] # Spent

\* discard_queued: "none of it plays at a rate it was not made for".  What the
\* IRQ may still take was made for the rate it will play at.
QueuedAtCurrentRate ==
  \A b \in Buffers : Queued(b) => made_for[b] = current_rate

\* "A late IRQ now costs silence and nothing worse" (the comment on
\* i2s_ctrl_chan): the block or the silence a running channel reads is never
\* swapped under it, which would cut a block short.
LateCostsOnlySilence ==
  [][\A c \in Channels :
       running = c /\ running' = c => read_addr'[c] = read_addr[c]]_vars

\* A block loses its end only to an IRQ a whole buffer late: the re-aimed channel
\* had just been started on silence, within the handler itself, so it has read a
\* few words of its count and no more (audio_out.c, i2s_dma_handler).
CutOnlyWhenLate ==
  [][whole /\ ~whole' =>
       /\ running = isr_c /\ read_addr[isr_c] = Silence
       /\ Other(isr_c) \in ints0 /\ ~slack]_vars
=============================================================================
