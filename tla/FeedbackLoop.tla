----------------------------- MODULE FeedbackLoop -----------------------------
(***************************************************************************)
(* usb_dac_pcm.h: the loop that steers the host.  Every pass of the main   *)
(* loop, some 5 ms, feedback_update measures the queue, filters it, and    *)
(* corrects the nominal value in proportion to the error; the host sends   *)
(* what it was told two passes ago, and the DAC eats at its own clock.     *)
(*                                                                         *)
(* This is the arithmetic of the code, run from each of a set of rates,    *)
(* drifts and phases: nothing is nondeterministic after Init.  The queue   *)
(* is a deviation from the level it started at, in 1/16384 of a frame.     *)
(***************************************************************************)
EXTENDS Integers

CONSTANTS
  LoopRates, \* sample rates
  Drifts,    \* of the DAC's clock against the host's, in ppm
  Periods,   \* passes after which packets come at the same phase again
  Settling,  \* passes after which the loop has settled
  Passes     \* bound: passes

ASSUME LoopAssumption ==
  /\ LoopRates \subseteq Nat \ {0} /\ Drifts \subseteq Int
  /\ Periods \subseteq Nat \ {0} /\ Settling \in Nat /\ Passes \in Nat

VARIABLES
  dac_rate, drift, period,
  pass,
  queue,        \* deviation of the queue
  setpoint, filtered_q8,   \* struct usb_dac_fb, active
  fb_value, sending        \* feedback_value, and what the host goes by

loopVars == <<dac_rate, drift, period, pass, queue, setpoint, filtered_q8, fb_value,
              sending>>

PassMs == 5
Kp == 8                  \* USB_DAC_FB_KP
ClampDiv == 128          \* USB_DAC_FB_CLAMP_DIV
Frame == 16384

\* C's division, which rounds towards zero.
Quotient(a, b) == IF a >= 0 THEN a \div b ELSE -((-a) \div b)

\* feedback_nominal
Nominal == (dac_rate * 16384 + 500) \div 1000

\* The level the gate waits for, and the margin in it (USB_DAC_START_MARGIN_MS).
Level == dac_rate \div 50
Margin == dac_rate \div 250

\* What has come of the millisecond's packet differs with the phase of the pass.
Phase == ((pass % period) * (dac_rate \div 1000)) \div period

\* ring level and audio_out_queued_frames.
Measured == Level + queue \div Frame + Phase

\* Mutant: 1/1024.
Filtered_Slow(total) ==
  filtered_q8 + Quotient(total * 256 - filtered_q8, 1024)

\* The low pass of usb_dac_fb_update, 1/16.
Filtered(total) ==
  filtered_q8 + Quotient(total * 256 - filtered_q8, 16)

Correction(filtered) == Quotient((setpoint * 256 - filtered) * Kp, 256)

Limited(corr) ==
  LET limit == Nominal \div ClampDiv
  IN  IF corr > limit THEN limit ELSE IF corr < -limit THEN -limit ELSE corr

\* usb_dac_fb_start, with the level measured when the gate has opened.
LoopInit ==
  /\ dac_rate \in LoopRates /\ drift \in Drifts /\ period \in Periods
  /\ pass = 0 /\ queue = 0
  /\ setpoint = Level /\ filtered_q8 = Level * 256
  /\ fb_value = Nominal /\ sending = <<Nominal, Nominal>>

\* What the DAC eats more than nominal in a pass, and what the host sends more.
Eaten == Quotient(PassMs * (Nominal \div 1000) * drift, 1000)
Given == PassMs * (sending[1] - Nominal)

FeedbackUpdate ==
  /\ pass < Passes
  /\ filtered_q8' = Filtered(Measured)
  /\ fb_value' = Nominal + Limited(Correction(filtered_q8'))
  /\ sending' = <<sending[2], fb_value>>
  /\ queue' = queue + Given - Eaten
  /\ pass' = pass + 1
  /\ UNCHANGED <<dac_rate, drift, period, setpoint>>

End == pass = Passes /\ UNCHANGED loopVars

LoopNext == FeedbackUpdate \/ End
LoopSpec == LoopInit /\ [][LoopNext]_loopVars

-----------------------------------------------------------------------------
Between(x, low, high) == low <= x /\ x <= high
PacketFrames == dac_rate \div 1000

\* What a proportional loop leaves, in frames: the drift over the gain, less the
\* packets that the measurement counts in the mean.
Left ==
  -(Quotient((Nominal \div 1000) * drift, 1000) \div Kp)
    - (PacketFrames * (period - 1)) \div (2 * period)

\* The queue never strays by more than a sixth of the margin, and the packet that
\* may just have come.
WithinMargin ==
  Between(queue \div Frame, -(Margin \div 6) - PacketFrames, Margin \div 6)

\* Once settled the queue stays, to a frame or two, where a proportional loop
\* leaves it.
AtRest == pass >= Settling => Between(queue \div Frame, Left - 2, Left + 2)

\* The loop keeps the queue in its margin from the start and comes to rest, with
\* no oscillation and no drift, whatever the clocks (usb_dac_pcm.h:121-184).
Settles == WithinMargin /\ AtRest
===============================================================================
