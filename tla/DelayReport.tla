----------------------------- MODULE DelayReport -----------------------------
(***************************************************************************)
(* a2dp.c: when the source is told how far behind the sound is.            *)
(*                                                                         *)
(* The state is one record, and the operators map it to the record after   *)
(* the call of the same name; A2dpSink applies them.  A value is a report  *)
(* made for a sample rate: [rate, lag].  Time is in ticks: the timer holds *)
(* the ticks until it fires, and the 1 ms of a request is none.  The 49    *)
(* retries of the code, 10 ms apart, are fewer and as many times as far    *)
(* apart: what matters is that they take time, less than an interval.      *)
(***************************************************************************)
EXTENDS Naturals

CONSTANTS
  Interval,    \* DELAY_REPORT_INTERVAL_MS, in ticks
  Retry,       \* DELAY_REPORT_RETRY_MS, in ticks
  Attempts,    \* DELAY_REPORT_ATTEMPTS
  Lags,        \* the latencies that are told apart, 50 or more of 100 us
  None         \* a timer that is not armed

ASSUME DelayAssumption ==
  /\ Interval \in Nat \ {0} /\ Attempts \in Nat \ {0} /\ Lags \subseteq Nat /\ 0 \in Lags
  /\ Retry \in 1 .. Interval
  /\ None \notin Nat

NoLag == [rate |-> 0, lag |-> 0]      \* the code's 0: no value
Capped(n) == IF n < Interval THEN n + 1 ELSE n

\* since: ticks since _delay_sent_ms.  window: ticks since _latency_window_ms;
\* None: no measurement yet (_latency_count is 0).  latest: what was last
\* estimated or measured, for the properties.
InitialDelay ==
  [reporting |-> FALSE, rejected |-> FALSE, pending |-> NoLag, sent |-> NoLag,
   sent_once |-> FALSE, since |-> Interval, timer |-> None, attempts |-> 0,
   window |-> None, latest |-> NoLag]

\* delay_reporting_enabled
Enabled(d) == d.reporting /\ ~ d.rejected

\* delay_report_request.  The value is never _delay_sent: both callers see to it.
Request(d, value) ==
  [d EXCEPT !.pending = value, !.attempts = 0, !.timer = 0, !.latest = value]

\* delay_report_reset
ResetReport(d) ==
  [d EXCEPT !.timer = None, !.pending = NoLag, !.sent = NoLag, !.latest = NoLag]

\* What a stream that is gone, and a new source, start from.
ForgetSource(d) ==
  [ResetReport(d) EXCEPT !.sent_once = FALSE, !.rejected = FALSE, !.reporting = FALSE]

\* delay_report_initial: the estimate, lag 0, for the rate just configured.
InitialReport(d, rate) ==
  IF Enabled(d) /\ d.sent = NoLag /\ d.pending = NoLag
  THEN Request(d, [rate |-> rate, lag |-> 0]) ELSE d

\* measure_delay of a packet, while playing: the first opens a window, and one
\* that ends it has the mean of the packets since.  A mean that the source already
\* has asks for nothing, and a report that waits goes on waiting.
Measure(d, value) ==
  IF ~ Enabled(d) THEN d
  ELSE IF d.window = None THEN [d EXCEPT !.window = 0]
  ELSE IF d.window < Interval THEN d
  ELSE LET e == [d EXCEPT !.window = None, !.latest = value]
       IN  IF value # d.sent THEN Request(e, value) ELSE e

\* measure_delay_restart
RestartMeasure(d) == [d EXCEPT !.window = None]

\* delay_report_timer_handler, up to the call into BTstack.
MaySend(d) == d.pending # NoLag /\ Enabled(d)
TooSoon(d) == d.sent_once /\ d.since < Interval

Sent(d) ==
  [d EXCEPT !.sent = d.pending, !.since = 0, !.sent_once = TRUE,
            !.pending = NoLag, !.timer = None]
TryLater(d) ==
  IF d.attempts + 1 < Attempts
  THEN [d EXCEPT !.attempts = @ + 1, !.timer = Retry]
  ELSE [d EXCEPT !.attempts = @ + 1, !.pending = NoLag, !.timer = None]

Elapse(d) ==
  [d EXCEPT !.since = Capped(@),
            !.window = IF @ = None THEN None ELSE Capped(@),
            !.timer = IF @ = None THEN None ELSE @ - 1]
==============================================================================
