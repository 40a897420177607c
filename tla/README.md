# A TLA+ model of PAB

PAB (Pico Audio Bridge) is the firmware of a small box: a Bluetooth A2DP sink
and a USB sound card for the Raspberry Pi Pico W, over one I2S output. This
directory models its control flow, checks it with TLC and proves the most
important results with TLAPS. Paths below are those of the repository.

## 1. The system

| Component | State | Operations | Works with |
|---|---|---|---|
| I2S output, `src/audio_out.c` | the buffer ring (`buffer_ready`, `next_buffer`), what each DMA channel holds (`chan_buffer`), the rate, the fill callback | init, start, stop, service, set rate, set volume, queued frames; the DMA completion IRQ | DMA hardware; called by either personality's loop, calls back its fill function |
| Mode framework, `src/app_mode.c`, `src/mode_button.c` | the mode in flash, the mode in the watchdog scratch register | current, switch, boot once; poll, announce and switch | bootrom, watchdog, flash |
| Boot and supervision, `src/main.c`, `src/bt.c` | watchdog, controller health, the link count | main, fatal, the feeder; HCI events | BTstack, A2DP sink (`has_streamed`) |
| Sound card, `src/usb_dac.c`, `src/usb_dac_pcm.h` | the host's selection, the frame ring, the playing stream, gate, feedback, charger detector | USB handlers for rate, alternate setting, packets and feedback; main loop: stream update, service, feedback update, charger check | USB device stack (interrupt), audio_out |
| USB device stack, `pico_usb_device/usb_device.c`, `usb_stream_helper.c` (vendored, patched) | endpoints, transfers, buffer ownership, control pipe, address and configuration | setup packets, buffer completions, resets, errors, stalls | the controller; calls the sound card's handlers |
| A2DP sink, `src/a2dp.c` | stream state, SBC and PCM rings, delay report, scans | stream events, media packets, playback, delay reports | BTstack, the audio adapter |
| Audio adapter, `src/btstack_audio_pico_i2s.c` | timer, sink state | init, start, stop, close, timer | audio_out |
| AVRCP, `src/avrcp.c` | connection, volume, playback status | connection, controller and target events | BTstack, the audio adapter |
| SDP, `src/sdp.c` | none that changes | registers records | BTstack |
| `pico_i2s_pio/`, `pico-i2s-pio/` (vendored) | | only the PIO programs are built | |

What is hard here:

- **Interleaving.** One core, but three levels: the DMA channels run by
  themselves, the completion IRQ preempts everything, the USB interrupt
  preempts the main loop. They share memory without locks.
- **Lateness.** Flash writes keep interrupts off for up to 400 ms: dozens of
  buffers may pass before an IRQ is served.
- **Order.** The USB interrupt serves setup packets before buffers, and the
  host changes its mind between any two reads of the main loop.
- **Resets.** Every switch of mode is a reboot, the watchdog may fire
  anywhere, power goes anywhere, and only two places survive.
- **Wrapping counters.** Frame counts and the microsecond clock.
- **Other people's state machines.** BTstack announces a stream's events only
  from some of its own states, and drops them when a source refuses a report; the
  USB controller chooses the next of two buffers by itself.

What makes each component correct: the *output* plays what it is given once, in
order, at its own rate, and nothing else but silence, and cuts nothing short unless
its interrupt is a whole buffer late; the *lifecycle*
boots what was asked, once, keeps the user's choice, revives dead boxes and
leaves live ones alone; the *sound card* plays exactly the host's selection,
from an intact ring, steers the host only for it, and is heard at the volume set;
the *control requests* do what they are acknowledged for and nothing else; the
*USB stack* never loses track of who owns a buffer, and its streams never dry
up; the *A2DP sink* follows the source's stream through any order of events,
plays whole frames in order, and tells a true delay to who asked for it; *AVRCP*
keeps box and source at one volume; the *charger detector* goes by evidence.

## 2. Modules

| Module | Models | Status |
|---|---|---|
| `AudioOut` | `audio_out.c`: DMA channels, control channels, IRQ, run loop | done |
| `AudioQueue` | what `audio_out` promises: a queue of blocks | done |
| `AudioOutQueue` | the refinement mapping from `AudioOut` to `AudioQueue` | done |
| `AudioOutProofs` | theorems about `AudioOut`, and that it implements `AudioQueue` | done |
| `Lifecycle` | `app_mode.c`, `mode_button.c`, `main.c`, half of `bt.c`, `charger_check` | done |
| `LifecycleProofs` | theorems about `Lifecycle` | done |
| `UsbDac` | `usb_dac.c`'s streaming, with the ring of `usb_dac_pcm.h` | done |
| `SoundCard` | what `usb_dac` promises the host: one selection at a time, and a queue | done |
| `UsbSoundCard` | the refinement mapping from `UsbDac` to `SoundCard` | done |
| `UsbTransfer` | `usb_device.c`: one endpoint, its buffers and its transfer, as operators | done |
| `UsbControl` | the control pipe over `UsbTransfer`, with `usb_dac.c`'s requests and a host | done |
| `UsbStream` | the two isochronous endpoints over `UsbTransfer` | done |
| `UsbVolume` | host volume and mute, `apply_volume`, the gain table | done |
| `FeedbackLoop` | the feedback arithmetic, closed over host and DAC clock | done |
| `Charger` | `charger_check` and `usb_dac_charger_step` | done |
| `DelayReport` | `a2dp.c`'s delay reports, as operators on a record | done |
| `A2dpSink` | `a2dp.c`'s events, media and timers over `DelayReport`; the audio adapter; BTstack and a source | done |
| `SbcPipeline` | `a2dp.c`: from SBC ring to output buffer | done |
| `SbcFrames` | `a2dp.c`: sizes of frames and rings | done |
| `Avrcp` | `avrcp.c`, with a source's slider and buttons | done |
| `UsbDacProofs`, `A2dpSinkProofs`, `UsbControlProofs`, `UsbStreamProofs` | theorems about these components | done |
| `PartsProofs` | theorems about `UsbVolume`, `Avrcp`, `SbcFrames`, `Charger`, `SbcPipeline` and `FeedbackLoop` | done |
| `Modulo` | lemmas about remainders | done |
| `MCParts` | the seven components that keep to themselves, one at a time: `UsbStream`, `UsbVolume`, `Charger`, `FeedbackLoop`, `SbcPipeline`, `SbcFrames`, `Avrcp` | done |
| `MCAudioOut`, `MCLifecycle`, `MCUsbDac`, `MCUsbControl`, `MCA2dpSink` | constants, and some views, for TLC | done |

Composition: `AudioOutQueue` instantiates `AudioQueue` over `AudioOut`, and
`UsbSoundCard` instantiates `SoundCard` over `UsbDac`.
`UsbDac` sees `audio_out` through its free buffers and its rate; `Lifecycle`
sees the personalities through the events that reset the box. `UsbControl` and
`UsbStream` are two compositions of `UsbTransfer`'s endpoint with its callers,
the controller and a host; `A2dpSink` composes `DelayReport`, the stream, the
adapter and BTstack. What `UsbControl` establishes about requests (a change
takes effect once, at its own data stage) is what `UsbDac`, `UsbStream` and
`UsbVolume` take for one action.

The components of `MCParts` share no state, and each is a specification of its
own (`StreamSpec`, `VolumeSpec`, ...). `part` says which of them a behaviour is
of: its action runs, and the other components stand still in one of their initial
states. That is every behaviour of every one of them, without their product.

### AudioOut

`running`, `ctrl`, `read_addr` and `ints0` are the hardware: the data channel in
transfer, the control channel about to run, the read addresses, the raised
interrupts. `Complete` and `Chain` are its steps, from the configuration in
`i2s_start`. The handler is `IsrEnter` to `IsrArm`, one action per look at
shared state: it frees the buffer just played, polls until the control channel
has written silence, looks at BUSY once and at the interrupt again, and only
then aims the channel. Aiming does not trigger: a channel that runs by then
(finding 1) goes on from the new address with what is left of its count, which
`whole` FALSE says. The run loop's service is one step per buffer, with
`fill()` between `ServiceFill` and `ServiceReady`. The IRQ has the highest
priority, so the run loop moves only when no interrupt is pending or in
progress, except between `Mask` and `Unmask`, where flash is being written.

Timing is one assumption, in `MayComplete`: code that takes microseconds does not
outlast a transfer (over 11 ms) that began after it did. A transfer that was
under way when it began may end in it (`slack`). Fills and masked stretches
may take any time.

A block of audio is a number, reused after `NumBlocks`; properties only compare
blocks that are in the ring together.

### AudioQueue

Blocks are handed over, finish in order, and a change of rate drops all but at
most two. A block is finished when the transfer of the channel aimed at it is, which in
finding 1's window is a few words before its end: order and once-only are the queue's,
`CutOnlyWhenLate` says when blocks are not whole. `PlaysInOrder` is `AudioQueue!Spec` under the mapping in `AudioOutQueue`.
The mapping looks at places in the ring: the channels are aimed at the `Loaded`
buffers right behind `next_buffer`, and `Waiting` of them, queued one after the
other, begin there. `Pending` is what these hold. `PlaysInTheEnd` is the queue's
fairness.

### Lifecycle

Flash (`None`: erased), the scratch register, BOOTSEL, the supply, the program's
place, the watchdog, the controller, the links. A tick is about two seconds; the
watchdog (8 s), the controller's deadline (20 s) and the release timeout are
counted in ticks. A live loop comes round within each tick (`due`). A power cut
may fall between erase and program and may leave anything in the sector; a
cut there is the one way the user's choice may get lost (`intended`).
`Boot`, `SwitchTo`, `BootOnce`, `FlashErase`, `FlashProgram`,
`WatchdogReboot` are `app_mode.c`; `ButtonHeld` to `ReleaseEnd` are
`mode_button.c`; the HCI actions are `bt.c`'s `packet_handler`.

### UsbDac

A handler of the USB interrupt is one action; the main loop takes one action per
access to what they share, so the interrupt may come between any two.
`SetAlternate` and `SetRate` may leave a packet behind them (`rx`) which was
received before and is handled next, in the same interrupt, as
`usb_device_irq_handler` orders it. The ring holds, for each frame, the index it
was queued under and the selection it was sent for. `age` is the clock minus
`last_packet_us`, modulo the clock's width; `quiet` counts without wrapping, for
the properties only, as do `selected`, `alt_generation` and `live`.

The main loop is `stream_update` (`ReadGeneration` to `Accept`), then
`audio_out_service` with `dac_fill` (`Service` to `ServiceEnd`), then
`feedback_update`. A walk over the output's buffers fills those that were free
when it began and perhaps some freed since. `StreamsPlay` starts from the
output accepting rates in `PlayableRates`. `Steered` returns the ends of the
feedback's clamp in place of any value between them: whatever the queue, the
value lies between the two, and what `feedback_packet` tests is an interval.

### SoundCard

The host makes selections, each of a format and a rate. The box takes the newest as a
whole (`Take`), goes by it for a pass and lets go of it; while it goes by one it may end the
stream that is playing, ask the output for the rate (`Prepare`, which also empties the
queue), begin a stream for it, and play from the queue if the stream is this
selection's. Packets join the queue at any time, and may be late: those sent for an earlier
selection than the stream's never get in, and none gets in behind a later one's.
`KeepsToSelections` is `SoundCard!Spec` under the mapping in `UsbSoundCard`: a selection is
taken at the moment `stream_update` finds the generation unchanged, a stream lasts from
`audio_out_start` to its end, and the queue is what the frame counts say is in the ring.

### UsbTransfer

One operator per function of `usb_device.c` that changes an endpoint: give a
buffer, start, stall, reset, take back, settle. A buffer is the processor's, the
controller's, or raised: gone through and not yet seen by the interrupt.
`hw` is the buffer the controller will use next, which it chooses by itself
but for the first after a reset (`SEL`). `pid` is `next_pid`. Every
`on_packet` of PAB's but SET_CUR's ends with `usb_packet_done`, so calling one
and giving the next buffer is one operator; the recursion through completion and
start is at most as deep as there are buffers.

### UsbControl

The interrupt reads what is pending on entry (`IrqEnter`), then serves setup
packet, buffers and bus reset, in this order, one action each; packets pass
on the wire in between. The host reads or writes the data stage, then the status
stage, meets a stall, gives up by sending the next setup packet (`MaxAborts`),
sends too short a data stage, or resets the bus. Handlers are operators on a record
of the device (`HandleSetup`, `HandleOut`, `HandleIn`).

Assumed of the controller: while a setup packet waits it answers nothing else on
endpoint 0, and a setup packet does not arrive while the handler of the last one
is in `_usb_handle_setup_packet` (`SETUP_REC` is cleared at its end).
`MayOverrun` FALSE says that the host's next setup packet comes after the
interrupt of the last status stage, as it does on a full-speed bus with an interrupt
that is served in time. `wLength` is what the data stage expects; a
wrong one in a SET_CUR is refused like an unknown request (`UNKNOWN`). The
transfer of a SET_CUR stays outstanding until the next setup packet, as in the
code. `alt` survives a bus reset, as in the code. `ResetOrError` is the host's reset of
the bus and, where `MayError` says so, a damaged packet, which the handler takes for one.

That no request is left waiting is stated without fairness: whenever the interrupt
has nothing left to do, the endpoint the host waits for has what the host's stage
needs, or stalls (`NeverLeftWaiting`).

### UsbStream

Audio OUT and feedback IN, two buffers each. `Restart` is a reset that starts the
default transfer again, by configuration, CLEAR_FEATURE(HALT) and bus reset. The
host sends and reads at any time while it has no request waiting; packets are numbered
modulo `NumPackets`. A host uses an endpoint again only after a request that
configures, halts or revives it, so these come when nothing of it is left
to handle.

### UsbVolume, Charger, FeedbackLoop

`UsbVolume` takes the main loop's two reads apart, so that a SET_CUR may come
between them; at most one does, since a control transfer takes milliseconds. The
gain table is the code's.

`Charger` keeps the detector's record beside the whole history of samples, and
`VerdictIsEvidence` states the verdict over the history. `now` does not wrap,
what the code sees does (`Wrap`). A pass takes some time (`Gaps` is not empty), and
none as much as the clock has left after the window, or all evidence would be void.

`FeedbackLoop` is deterministic after `Init`: the code's integer arithmetic
from each combination of rate, drift and phase. The host sends what it was told
two passes before; a pass is 5 ms. The queue counts in 1/16384 of a frame,
the resolution of the value told.

### DelayReport and A2dpSink

Each event of `event_handler` is an operator `On...`; actions such as `Open` and
`Start` are steps of the source and BTstack, which have states of their own (`src`,
`a2dp`), and call the handler if BTstack would announce it. BTstack is modelled
from how `a2dp.c` uses it, the comments on its behaviour included: an OPEN is
announced only in `W4_OPEN`, START and SUSPEND only in `OPENED`; any reject
drops its state to `CONNECTED`; after a release it is `CONFIGURED`. Both ways of
configuring are there: the source sends SET_CONFIGURATION (`BeConfigured`), or
BTstack explores two endpoints and sends it (`Explore`, `Configure`). A failed or
aborted configuration leaves the endpoint's bits as they are.

A packet is the rate it was encoded for. Time is in ticks of half a second,
the rate limit is two ticks. A due timer fires before time goes on, but packets and
windows go on at any time, so a window may end while a report waits for its limit or for
a retry. The code's 49 retries take half a second in all; with `Attempts` 2 the model has
one, a tick (`Retry`) after the first attempt. What a window measures replaces the report
that waits, unless the source was told the same last: then nothing is asked for, and the
older report keeps waiting (`A2dpSink_older.cfg`, below). Media is delivered in order with signalling. One source is connected
at a time. A loss of the link after a stream was set up restarts the box (`bt.c`,
see `Lifecycle`), so `LinkLost` is `Init` for PAB's variables.

### SbcPipeline and SbcFrames

`SbcPipeline` numbers the frames: a byte of the SBC ring is its frame's number and
whether it is the last, a sample is its frame's number. The loop of
`playback_handler` is one action per turn (`Decode`: a chunk of bytes goes to the
decoder) and one per frame that the decoder finds whole in it (`Deliver`); the resampler
makes `Samples` or one more. What the decoder keeps of a half-read frame over a
pause is not modelled, since a pause empties the rings (`A2dpSink`).

`SbcFrames` has the code's constants and the whole space of configurations; it
is arithmetic, run as a state machine so that TLC walks the space.

### Avrcp

The box and a source, with a queue each way. BTstack acknowledges an absolute
volume with the volume it was sent. Every press is answered with the volume it
led to. `sink_gain` is what the adapter was given. `_playing` is kept, as in
the code, where nothing uses it but an accessor.

## 3. What TLC checks

| Run | Bounds | Shows |
|---|---|---|
| `audio_out_safety` | 4 buffers, 5 block numbers, 2 rates | no race on a buffer, no block twice, nothing read past an end, no wrong rate; `AudioOut` implements `AudioQueue`; a block is cut short only by an IRQ a whole buffer late (`CutOnlyWhenLate`) |
| `audio_out_liveness` | 3 buffers, 4 block numbers, 1 rate | every block not dropped is played |
| `late_irq` | as above | finding 1 |
| `lifecycle` | watchdog 4 ticks, deadline 10, release 3, 2 links, 2 failures; host or charger | the right mode at every boot, the stored mode, no needless reset, restart with the last link; a charger gets Bluetooth; dead boxes restart |
| `usb_ring` | ring of 4 frames, counts modulo 8, buffers of 2 frames, packets of 1 or 2, 2 output buffers, 2 selections | the ring is intact |
| `usb_safety` | 2 formats, 2 rates, 2 selections after the first, ring of 2 | `UsbDac` implements `SoundCard`: one selection, its frames, its rate; its feedback |
| `usb_liveness` | 1 format, a playable and a refused rate, 3 selections, timeout 2 ticks | streams play, idle stops |
| `usb_clock_wrap`, `usb_old_packet` | as small as shows them | findings 2 and 3 |
| `usb_control` | 2 rates and one refused, 2 volumes, 1 address, 1 alternate setting, descriptors of 2 packets, 1 request given up | buffers accounted for and packet ids in step (`PipeIntact`), answers and outcomes true, no request left unanswered, changes on request only |
| `a2dp` | 2 rates, 2 latencies, 3 kinds of source, ring of 2, limit of 2 ticks, 2 attempts a tick apart | PAB's stream is the source's; the output plays its configuration; output, scans, endpoint and waiting report are those of the stream there is (`NothingLeftOver`); reports to who asked, one a second; streams are heard, sources told |
| `parts` | see below | the components of `MCParts` |

`parts` runs:

| Part | Bounds | Property |
|---|---|---|
| `UsbStream` | 2 rates, packets modulo 4 | `StreamsAlive`: buffers accounted for, no endpoint dries up; `PacketsInOrder`: packets once, in order, none left behind; `FeedbackCatchesUp`: feedback two reads late at most |
| `UsbVolume` | 19 volumes: the ends, beyond them, and both sides of a rounding | `SoundsAsSet`: the gain of one setting the host made, after one pass the last; the table |
| `Charger` | window 5, SE1 3, gap 1, fallback off or 6, clock wraps at 9, up to 14 units | `VerdictIsEvidence` |
| `FeedbackLoop` | 44.1 and 96 kHz, drifts to 300 ppm, phases over 1, 2 and 4 passes, 3000 passes | `Settles`: within its margin always, at rest in the end |
| `SbcPipeline` | frames of 2 to 4 bytes, 2 samples (or 3), SBC ring of 12 bytes, PCM ring of 6, packets of 2, 10 frames; fills of 1 and 5 | `NothingLost`: order, whole fills, room |
| `SbcFrames` | every mode, block length and number of subbands; bitpools 2, 3, 19, 31, 35, 51, 52, 53 | `SizesSuffice`: frame and ring sizes |
| `Avrcp` | 8 volumes, steps of 3, 3 slider positions, queues of 3 | `HeardAsShown`: one volume on both sides |

Why the bounds are enough. Four buffers is one more than both channels and the
run loop can hold, so order among waiting blocks shows, and three is the least
the ring works with; two rates make a change, and the theorems hold for all
values. In `Lifecycle` the deadline is longer than the watchdog and the release
timeout shorter, as in the code (20 s, 8 s, 5 s); two failures
let one happen during the recovery from another. In `UsbDac` the ring's counts
wrap twice round the ring, a buffer takes part of a ring's content so that it
can run dry in the middle, and two further selections make the bounce
(2 -> 0 -> 2 within two passes); three let a refused rate be left again. The clock
turns quickly, which only makes old stamps look recent more often than they do.
`usb_liveness` needs `Timeout` 2 so that time may pass in a stream that is not
quiet.

In `UsbControl` a request given up may be any, at any stage, and the next may be any;
two packets make the data stage's ids alternate, and a reset of the bus may
come anywhere. Four packet numbers are more than two buffers and the packet in the
handler's hands. In `A2dpSink` the three sources cover a player with reports, one
without whose SBC endpoint is not the one with Delay Reporting, and one that refuses; streams are
set up any number of times on a connection; a ring of two starts and
overflows. In `SbcPipeline` sizes that at most double stand for bitpools that do,
three bytes after two make reads that straddle frames, and a fill of five is more
than a frame and less than the ring. The charger's clock turns once and more than
half again. `FeedbackLoop` runs 15 s, seven time constants of
the loop; drifts are three times those of ordinary crystals, the rates the lowest
and the highest.

`LiveView` in `MCAudioOut` and `MCUsbDac` identifies states that differ only in
what nobody will read: the contents of dead buffers and slots, local variables
that are written before they are read again. It is used in runs of invariants and
action properties only; liveness runs use none.

Deadlock is checked in every run; no state of the box is without a next step. Where a
bound ends a part (`Charger`, `FeedbackLoop`) a named step stands still.

Fairness. `AudioOut`: the clocks never stop (weak fairness of the hardware), the
IRQ is preempted by nothing, and a call returns once made; nothing makes the
run loop call. `Lifecycle`: the processor executes, time passes; no event of the
user's, the radio's or the supply's is assumed. `UsbDac`: the interrupt
finishes what it was raised for, and the main loop goes on; the host need not
send, the output need not play. `StreamsPlay` makes the host's sending its
premise. `A2dpSink`: the run loop runs its timers, BTstack sends the accepts it has
promised, a source answers a report, and one that streams sends audio; no source
need connect, open or start. `UsbControl` (in `UsbControl_liveness.cfg`): the
interrupt is served, and a host in a request tries again while it is refused.

### Findings

1. `late_irq`. "A late IRQ now costs silence and nothing worse"
   (`src/audio_out.c:137`). If the handler is so late that it looks at BUSY
   just before the chain restarts its channel, it sets the read address of a
   running channel, and a block starts in the middle of a transfer of silence.
   The window is a few cycles wide and needs an IRQ late by almost exactly a
   buffer. The block loses as many words at its end as had been read of the
   silence. No memory but audio and silence is read, no block plays twice, and
   order holds (`audio_out_safety`). `OnlySilenceSwapped` and `OnlyLateIrqCuts`
   prove what of the comment is true.
2. `usb_clock_wrap`. "Unsigned subtraction also survives the 32 bit microsecond
   counter wrapping" (`src/usb_dac.c:965`). It survives the counter's wrap; it
   does not survive an age of a whole turn. A host that keeps a format selected
   and sends nothing finds the stream started for 50 ms every 71 minutes.
   `charger_check`, in the same file, retires itself against this. (TLC's
   trace lets the turn happen within one pass; nothing a pass does resets
   `have_packet`, so it happens over many passes too.)
3. `usb_old_packet`. "A packet from the previous selection must not count as a
   live stream" (`src/usb_dac.c:708`). A packet received just before a
   `SET_INTERFACE` from one format to another is handled after it, in the same
   interrupt. Its frames are flushed when the stream starts
   (`NothingFromOldSelection` holds), but the start no longer waits for a packet
   of the new format.

### Kept beside the runs

Configurations that are not among the runs above, to be checked by hand
(`tlc -config X.cfg M`). Each but the last states what a comment says and is violated by
what the code does.

- `UsbControl_overrun.cfg` (`MCUsbControl`). "a setup packet is always accepted, so
  reset anything in progress" (`src/pico_usb_device/usb_device.c:931`). A setup
  packet in the same interrupt as the last status stage's completion is handled first;
  the old completion is then taken for one of the new transfer, or of none, and
  halts the endpoint, so that a request the box takes ends in a stall. It needs the
  interrupt to be late by a whole request, as when interrupts are off. Without it,
  which `MayOverrun` FALSE says, `OutcomeIsTrue` holds: only refusals stall.
- `UsbControl_error.cfg` (`MCUsbControl`). "note we treat all errors the same (we
  just ignore)" (`src/pico_usb_device/usb_device.c:36`). All errors but a data sequence
  error are taken for a pulled cable and take address and configuration away;
  the host has to reset the bus before the box answers again.
- `Parts_feedback.cfg` (`MCParts`). "a value made for another rate is far outside
  this one's clamp, and the host must not be told it" (`src/usb_dac.c:760`). Both
  feedback buffers are filled ahead; up to two values of the old rate go out
  after a change. `FeedbackCatchesUp` bounds them to two.
- `A2dpSink_codec_switch.cfg` (`MCA2dpSink`). `_delay_sent_once` is "on this
  connection, for the rate limit" (`src/a2dp.c:190`), and "Apple asks for no more
  than one a second" (`src/a2dp.c:116`). STREAM_RELEASED clears it while the
  connection goes on. Within one stream the limit holds (`ReportsAsAsked`).
- `A2dpSink_refused.cfg` (`MCA2dpSink`). "the source refused one: send no more"
  (`src/a2dp.c:191`). STREAM_RELEASED clears `_delay_rejected` too. Within one
  stream it holds (`ReportsAsAsked`).
- `A2dpSink_older.cfg` (`MCA2dpSink`). "the source already has it; drop anything
  older" (`src/a2dp.c:367`). `measure_delay` asks for a report only if the mean has moved
  from what was sent (`src/a2dp.c:493`), so that branch is not reached with a value the
  source has. A source takes more than a second to answer a report; the next one,
  measured since, waits for the limit and then for BTstack; the window after it finds the
  delay back at what was sent, and asks for nothing. The older figure stays pending and
  goes out once it may; a later window corrects it. What does hold of a waiting report
  is `ReportStands`, a part of `NothingLeftOver`.
- `Parts_leap.cfg` (`MCParts`). "Room for two decoded frames [...] one read can
  complete two of the older, smaller frames" (`src/a2dp.c:171`). If frames more than
  double, a read completes three, and the third is dropped. Below that,
  `NothingLost` is proved (`PipelineCorrect`).
- `UsbControl_liveness.cfg` (`MCUsbControl`). With the fairness above, every request
  ends: acknowledged, stalled or given up by the host. It holds.

## 4. What is proved

All theorems are checked by `tlapm` to the last leaf, for every value of the
constants that satisfies the named assumptions in the modules. TLC evaluates these
assumptions in every run. Each proof has the same shape: an invariant that is
inductive, one lemma for each group of actions or each operator that the code is
made of, and the properties as its consequences. TLC agreed with every invariant
before it was proved.

**`AudioOutProofs`** (at least three buffers; more block numbers than buffers; any
rates). `TypeCorrect`, and `Inductive`, the invariant `IInv`, from which follow
`BuffersNotRaced`, `BuffersNotShared`, `NothingReadPastEnd` and `RatesMatch`. The
properties are not inductive: that a buffer is not written while a channel is aimed
at it depends on which buffer each channel *holds*, on what the handler has decided
so far and on what can complete meanwhile. `IInv` says, for each place of the handler
and each state of the hardware, which channel runs, what the other is aimed at, and
that of the two the one that holds the newer buffer never finishes first.

`Refines` is the refinement: `audio_out` implements `AudioQueue`. Beside `IInv` it
needs that what waits is one run of buffers from `next_buffer` on (`QueueInductive`):
the IRQ takes from its front, and `audio_out_service` must fill right behind its
end. The walk starts at `next_buffer`, but the IRQ may take buffers while it is under
way; the argument is that the walk is quick. While it fills nothing, at most one of the
channels finishes (`QuickInv`), so at most one buffer is taken between two fills; hence
the walk never stands on a buffer it could refill out of turn: it is in
order, or it stands on a buffer that is ready and will pass it (`WalkInv`). From
this follows `Layout`: the buffers aimed at and those that wait are one run round the
ring. Each step then maps to a step of the queue: a completed transfer of a buffer to
`Finish`, the end of a fill to `HandOver`, a change of rate to `Drop`, taking a
buffer and all else to nothing.

Finding 1 says that "silence and nothing worse" is not the whole truth.
`BlocksNotSwapped` says what of it is true: a channel aimed at a block stays aimed at
it until a transfer of its own has ended, and so whatever a late handler swaps under a
running channel is silence (`OnlySilenceSwapped`). The block that comes instead does not
get its whole length, since the count is reloaded only when a channel is triggered.
`OnlyLateIrqCuts` says that a block loses its end in no other way: the handler was a whole
buffer late, and the transfer began, on silence, within it. So what is lost is what the
DMA reads in a few instructions of the handler.

**`LifecycleProofs`** (any deadlines of at least a tick, watchdog of at least two, any number of links).
`LifecycleInductive` and `LifecycleTypeCorrect`; from them `StoredModeKept`, and the
action properties `RequestsHonouredOnce`, `LiveBoxesRunOn` and
`RestartIsWithLastLink`. The invariant ties the scratch register to the one path
that writes it, the watchdog's count to the loop's `due`, and `acl_links` to the
links there are while the controller works.

`DeadBoxesTimeIsCounted` is the safety half of `DeadBoxRestarts`. `Remaining` is the time a
dead box has left: what the watchdog has, or if the button is being held, what the
announcement has (that loop feeds the watchdog whether or not the controller is well) and
then the watchdog's whole time. It is bounded by the constants, no step of anyone's adds
to it, and every tick takes one away. What is left to TLC is that time passes.

**`UsbDacProofs`** (any formats; a ring of any size whose counts wrap at a multiple
of it; any packets, buffers, margins and timeouts; rates so far apart that the
ranges of their feedback do not meet, `RatesApartAssumption`, as the code's do).
`Inductive` and `TypeCorrect`; `RingStaysIntact`, `NothingOldIsPlayed`,
`OneSelectionPlays`, `SteersWhileAudible`, `FeedbackIsForThisRate`, `CardRefines`. `WalkInv` says at
which places of the main loop the ring accepts packets and that it is empty when a
stream is about to start; `SnapshotInv` that what `stream_update` has read so far
is one selection, unless the generation has moved since; `PlayedInv` and `QueueInv`
that nothing in the ring is older than the selection that plays; `FeedbackInv` ties
the value told to the gate, place by place. The ring's arithmetic rests on `Modulo`:
that `write_index - read_index` is the level, and that two frames of the queue never
share a slot, depends on where the counts wrap.

`CardRefines` is the refinement: `usb_dac` implements `SoundCard`. Beside `IInv` it needs
that a stream is only started for a format, and that no packet is behind one of a
later selection (`CardInv`). The selection taken is the one that `SnapshotInv` describes; each
step maps as follows: a read that finds the generation unchanged to `Take`, the start to
`Prepare` and then `Begin`, a packet that fits to `Receive`, a copy into a buffer to
`Play`, a stop to `End`, the end of a pass to `LetGo`, all else to nothing. That ring and
counts are a queue, wherever they wrap, is what `UnpackQueues`, `FillEndGivesBack` and
`StartEmpties` say. `OneSelectionPlays` states the best-known consequence by itself.

**`A2dpSinkProofs`** (any sources, rates, latencies, interval, number of attempts and
size of ring). `Inductive` and `TypeCorrect`; `SourceIsFollowed`,
`ConfigurationPlays`, `NothingIsLeftOver`, and the action property `OnlyWhenAsked`.
Its invariant has one part for each thing that `a2dp.c` keeps in step with the
source: BTstack's state (`StackInv`), what exploring has noted of the endpoints
(`SetupInv`), pipeline and output (`OutputInv`), and the report that waits (`TimerInv`,
`ReportInv`). `TimerInv` says that a report that waits has its timer and an attempt
left, whatever windows close meanwhile, and is the newest figure unless the source was
told that one last.

**`UsbControlProofs`** (any rates, volumes, addresses, length of descriptors, number
of requests given up). Between two setup packets the device is in one of six
modes (`Reading`, `Confirming`, `Writing`, `Acking`, `Refusing`, `Over`); `DeviceInv`
says where each endpoint's buffer and transfer are in a mode, `WireInv` that the interrupt
finds at most one endpoint raised, `HostInv` where the host is meanwhile. `Inductive` assumes
`~MayOverrun`; from it `PipeStaysIntact`, `AnswersFit` and `ControlsObey`, damaged packets or
not. `OutcomeKnown` adds what has come of the request (`OutcomeInv`,
`AddressInv`) and assumes `~MayError` too; from it `HostIsToldTheTruth` and
`HostIsServed`. These are real hypotheses and not conveniences: the first is what a full-speed
bus and an interrupt served in time give, and `UsbControl_overrun.cfg` and
`UsbControl_error.cfg` show the properties violated without them.

**`UsbStreamProofs`** (any rates; packets numbered modulo anything above three).
`StreamInductive`; `StreamsStayAlive`, `FeedbackFollows` and the action property
`PacketsArrive`. Outside the interrupt an endpoint is idle, or runs with its two
buffers in one of two arrangements (audio) or three (feedback), which `EndpointsInv`
lists; `PacketsInv` says that at most one packet is on its way, and `FeedbackInv` for
which rate each waiting buffer of feedback was made.

**`PartsProofs`**. `SetIsHeard` (`UsbVolume`, for any volumes of 16 bits): what is
heard is one of the settings in force since the last pass began, and its gain falls with
the volume; the table's 91 entries are checked one by one. `OneVolume` (`Avrcp`, any
scale, step and length of queues): the newest answer on its way, or with none
what the source shows, is the box's volume, unless a question is on its way too.
`BuffersSuffice` (`SbcFrames`, every configuration and bitpool). `JudgedByEvidence`
(`Charger`, any window, times and clock): the run of SE1 that the code's record keeps
is the longest there is in the history of samples, which is what makes the
record's two fields enough for a verdict over the whole history.

`FillsCorrect` (`SbcPipeline`, any sizes): no ring is overfull, and a fill is what it was
asked for. `PipelineCorrect` is `NothingLost` for sizes none of which is more than twice
another; this hypothesis is what the comment on the ring of decoded audio takes for
granted, and `Parts_leap.cfg` shows it needed. Its invariant takes what is in hand as two
sequences: what the fill and the ring of decoded audio have (`Heard`), in samples, and what
chunk and SBC ring have (`Coming`), in bytes. Frame numbers never fall along either, nor
from the first to the second; a byte of another frame comes only after the last byte of the
one before; every frame that was not refused is played or in one of them. A chunk completes
two frames at most, because the ends of three are as far apart as two whole frames
(`AsSent`), and what the first leaves over finds the ring of decoded audio empty (`Roomy`).

`LoopWithinMargin` (`FeedbackLoop`): the half of `Settles` that the sound card relies on,
for the code's four rates, any drifts to 300 ppm, any phases and without a bound on the
passes. No bound on the queue alone is inductive: by the time a deviation has passed
through the filter, three corrections made before are still on their way. `Within`
bounds the queue as it is and as it will be after each of these, and a sum of queue,
filter and corrections so weighted that every pass shrinks it, up to what the DAC eats;
the bounds leave room for all that the code's divisions may lose. It holds of
deviations upwards and, with every sign changed, downwards.
`ClampOutOfReach` is its by-product: in these conditions the clamp of the correction never
acts, which is what makes the loop linear.

Only model-checked:

- Liveness, which is out of the prover's reach: `PlaysInTheEnd`, `ChargerGetsBluetooth`,
  `DeadBoxRestarts`, `StreamsPlay`, `StreamsStop`, `Heard`, `Told`. The invariants
  they lean on are proved, and so is the count-down behind `DeadBoxRestarts`.
- `AtRest`, the other half of `Settles`: where the loop comes to rest. It depends on when one
  looks (`Settling`), and on the mean of the phases over a period, so that it would be an
  induction over passes with a bound that shrinks.
- The findings, which are counterexamples.

## 5. What is not modelled, and what is next

Not modelled: sample values, unpacking, resampling and clock dividers; consoles and
LEDs; the button's debounce (holding it may or may not be noticed); `RUN_PIN`;
descriptors' contents; headers of media packets; chained transfers and halts on
a condition, which `usb_device.c` offers and PAB does not use; AVRCP
notifications without effect. `sdp.c` registers constant records once and has no
state. The vendored I2S drivers are not built but for their PIO programs.
A failure of `audio_out_init` at the default rate is not considered in `UsbDac`;
one in `media_processing_init` is ignored by the code, and by `A2dpSink`. The second hardware
buffer behind one setup packet is not in `UsbDac` (one packet shows the
effect), but in `UsbStream`.

What could come next:

1. `AtRest` of `FeedbackLoop`, with bounds that shrink as the passes go.
2. The control pipe as an abstract request and answer, which `UsbControl` would
   implement; its properties say as much piece by piece.
3. `PlaysInTheEnd`, `StreamsPlay` and the other liveness properties, with a prover that
   reasons about `ENABLED`.
