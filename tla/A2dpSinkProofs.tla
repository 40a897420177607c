--------------------------- MODULE A2dpSinkProofs ---------------------------
(***************************************************************************)
(* The A2DP sink's safety properties, proved for any sources, rates and    *)
(* latencies, and rings, intervals and numbers of attempts of any size.    *)
(* The inductive invariant has one part for each thing a2dp.c keeps in     *)
(* step with the source: BTstack's state, the endpoint it configures, the  *)
(* output, the scans, and the report that waits.                           *)
(***************************************************************************)
EXTENDS A2dpSink, TLAPS

-----------------------------------------------------------------------------
(***************************************************************************)
(* The inductive invariant.                                                *)
(***************************************************************************)

\* BTstack is where the source takes it to be: it tells of the OPEN to come, and
\* of every START and SUSPEND after it.
StackInv ==
  /\ src \in {"configuring", "configured"} => a2dp = "W4_OPEN"
  /\ a2dp = "OPENED" <=> HasStream(src)
  /\ ~ signaling => src = "idle"
  /\ src # "idle" => rate \in Rates
  /\ FollowsTheSource

\* What has been noted of the endpoints asked about so far.
SetupInv ==
  /\ explored = 0 => endpoint = NewEndpoint
  /\ explored = 1 =>
       /\ endpoint.seid = IF peer.sbc = 1 THEN 1 ELSE 0
       /\ endpoint.bitmap <=> peer.sbc = 1 /\ 1 \in peer.offers
  /\ explored # None => ~ HasStream(src)
  /\ ConfiguredAsOffered

\* The pipeline exists only for a stream; while it does not play, it is empty and
\* set up for the rate, unless the source reconfigured since.
OutputInv ==
  /\ OutputFollowsStream
  /\ media_initialized => HasStream(src)
  /\ stream_state = "PLAYING" =>
       /\ media_initialized
       /\ out_rate = rate /\ pcm \in {0, rate}
       /\ \A i \in DOMAIN ring : ring[i] = rate
  /\ media_initialized /\ stream_state # "PLAYING" =>
       /\ ring = <<>> /\ pcm = 0
       /\ reconfigure \/ out_rate = rate

\* A report that waits is for a stream at rate r, has its timer and an attempt
\* left, and is the newest figure unless the source was told that one last.
Waits(d, r) ==
  d.pending # NoLag =>
    /\ d.timer # None /\ d.attempts < Attempts
    /\ d.pending.rate = r
    /\ d.latest \in {d.pending, d.sent}

TimerInv == Waits(delay, rate)

\* What the source said of reports, and when it had the last.
ReportInv ==
  /\ delay.reporting = asked
  /\ refused = "now" => delay.rejected
  /\ quiet = Interval \/ reopened \/ (delay.sent_once /\ delay.since = quiet)

IInv == StackInv /\ SetupInv /\ OutputInv /\ OpenToOthers /\ TimerInv /\ ReportInv

-----------------------------------------------------------------------------
(***************************************************************************)
(* The operators on the report.                                            *)
(***************************************************************************)

\* The ends of an interval, spelt out for the provers.
LEMMA Ends ==
  /\ Interval \in Nat /\ Attempts \in Nat /\ None \notin Nat
  /\ 0 \in 0 .. Interval /\ Interval \in 0 .. Interval /\ 0 \in 0 .. Attempts
  /\ 0 \in 0 .. 2 /\ 0 \in 0 .. 1
  /\ Retry \in 0 .. Interval /\ Retry # None
BY DelayAssumption

\* An empty ring fits.
LEMMA EmptyRing == <<>> \in Seq(Rates) /\ Len(<<>>) = 0 /\ 0 <= RingFrames /\ 0 \in 0 .. 1
BY RingAssumption

\* Each leaves a report of the right kind.
LEMMA DelayTypes ==
  ASSUME NEW d \in Delays
  PROVE  /\ InitialDelay \in Delays
         /\ ResetReport(d) \in Delays /\ ForgetSource(d) \in Delays
         /\ RestartMeasure(d) \in Delays
         /\ \A on \in BOOLEAN : [d EXCEPT !.reporting = on] \in Delays
         /\ \A r \in Rates : InitialReport(d, r) \in Delays
         /\ \A v \in Values : Measure(d, v) \in Delays
         /\ d.timer # 0 => Elapse(d) \in Delays
<1> USE Ends DEF Delays
<1>0. NoLag \in Values /\ \A r \in Rates : [rate |-> r, lag |-> 0] \in Values
  BY DelayAssumption DEF Values, NoLag
<1>1. InitialDelay \in Delays
  BY <1>0 DEF InitialDelay
<1>2. ResetReport(d) \in Delays /\ ForgetSource(d) \in Delays
  BY <1>0 DEF ResetReport, ForgetSource
<1>3. RestartMeasure(d) \in Delays /\ \A on \in BOOLEAN : [d EXCEPT !.reporting = on] \in Delays
  BY DEF RestartMeasure
<1>4. \A r \in Rates : InitialReport(d, r) \in Delays
  BY <1>0, DelayAssumption DEF InitialReport, Request
<1>5. ASSUME NEW v \in Values
      PROVE  Measure(d, v) \in Delays
  <2>1. [d EXCEPT !.window = 0] \in Delays
    OBVIOUS
  <2>2. [d EXCEPT !.window = None, !.latest = v] \in Delays
    OBVIOUS
  <2>3. Request([d EXCEPT !.window = None, !.latest = v], v) \in Delays
    BY DEF Request
  <2> QED
    BY <2>1, <2>2, <2>3 DEF Measure
<1>6. ASSUME d.timer # 0
      PROVE  Elapse(d) \in Delays
  <2>1. \A n \in 0 .. Interval : Capped(n) \in 0 .. Interval
    BY DEF Capped
  <2>2. d.timer # None => d.timer - 1 \in 0 .. Interval
    BY <1>6
  <2> QED
    BY <2>1, <2>2 DEF Elapse
<1> QED
  BY <1>1, <1>2, <1>3, <1>4, <1>5, <1>6

-----------------------------------------------------------------------------
(***************************************************************************)
(* Types.                                                                  *)
(***************************************************************************)

\* The source and BTstack.
LEMMA SourceTypesStep ==
  ASSUME TypeOK, [Next]_vars
  PROVE  SourceTypes'
<1> USE DEF vars, btVars, streamVars, mediaVars, scanVars, ghosts
<1>1. CASE Connect
  BY <1>1, Ends DEF SourceTypes, TypeOK, Values, NoLag, OnConnectionEstablished, Connect
<1>2. CASE Explore
  BY <1>2, Ends DEF SourceTypes, TypeOK, Values, NoLag, Explore
<1>3. CASE AcceptGoesOut
  BY <1>3, Ends DEF SourceTypes, TypeOK, Values, NoLag, AcceptGoesOut
<1>4. CASE Open
  BY <1>4, Ends DEF SourceTypes, TypeOK, Values, NoLag, OnStreamEstablished, Open
<1>5. CASE Start
  BY <1>5, Ends DEF SourceTypes, TypeOK, Values, NoLag, Start
<1>6. CASE Suspend
  BY <1>6, Ends DEF SourceTypes, TypeOK, Values, NoLag, Suspend
<1>7. CASE Close
  BY <1>7, Ends DEF SourceTypes, TypeOK, Values, NoLag, NewEndpoint, Close
<1>8. CASE Abort
  BY <1>8, Ends DEF SourceTypes, TypeOK, Values, NoLag, Abort
<1>9. CASE \E r \in Rates : Configure(r)
  BY <1>9, Ends DEF SourceTypes, TypeOK, Values, NoLag, OnConfiguration, Configure
<1>10. CASE \E r \in Rates : BeConfigured(r)
  BY <1>10, Ends DEF SourceTypes, TypeOK, Values, NoLag, OnConfiguration, BeConfigured
<1>11. CASE \E r \in Rates : Reconfigure(r)
  BY <1>11, Ends DEF SourceTypes, TypeOK, Values, NoLag, OnConfiguration, Reconfigure
<1>12. CASE Disconnect
  BY <1>12, Ends DEF SourceTypes, TypeOK, Values, NoLag, Disconnect
<1>13. CASE LinkLost
  BY <1>13, Ends DEF SourceTypes, TypeOK, Values, NoLag, NewEndpoint, LinkLost
<1>14. CASE AnswerReport
  BY <1>14, Ends DEF SourceTypes, TypeOK, Values, NoLag, OnReportRejected, AnswerReport
<1>15. CASE DelayTimer
  BY <1>15, Ends DEF SourceTypes, TypeOK, Values, NoLag, Delays, DelayTimer
<1>16. CASE UNCHANGED btVars
  BY <1>16, Ends DEF SourceTypes, TypeOK, Values, NoLag
<1>17. \/ Connect
       \/ Explore
       \/ AcceptGoesOut
       \/ Open
       \/ Start
       \/ Suspend
       \/ Close
       \/ Abort
       \/ \E r \in Rates : Configure(r)
       \/ \E r \in Rates : BeConfigured(r)
       \/ \E r \in Rates : Reconfigure(r)
       \/ Disconnect
       \/ LinkLost
       \/ AnswerReport
       \/ DelayTimer
       \/ UNCHANGED btVars
  BY DEF Next, Stream, Connect, Explore, AcceptGoesOut, Open, Start, Suspend,
         Close, Abort, Configure, BeConfigured, Reconfigure, Disconnect, LinkLost,
         AnswerReport, Media, Fill, DelayTimer, Tick, OnConfiguration,
         OnStreamEstablished
<1> QED
  BY <1>1, <1>2, <1>3, <1>4, <1>5, <1>6, <1>7, <1>8, <1>9, <1>10, <1>11, <1>12,
     <1>13, <1>14, <1>15, <1>16, <1>17

\* What PAB notes of the stream.
LEMMA StreamTypesStep ==
  ASSUME TypeOK, [Next]_vars
  PROVE  StreamTypes'
<1> USE DEF vars, btVars, streamVars, mediaVars, scanVars, ghosts
<1>1. CASE Open
  BY <1>1 DEF StreamTypes, TypeOK, OnStreamEstablished, Open
<1>2. CASE Start
  BY <1>2 DEF StreamTypes, TypeOK, OnStreamStarted, Start
<1>3. CASE Suspend
  BY <1>3 DEF StreamTypes, TypeOK, OnStreamSuspended, Suspend
<1>4. CASE Close
  BY <1>4 DEF StreamTypes, TypeOK, OnStreamReleased, Close
<1>5. CASE \E r \in Rates : Configure(r)
  BY <1>5 DEF StreamTypes, TypeOK, OnConfiguration, Configure
<1>6. CASE \E r \in Rates : BeConfigured(r)
  BY <1>6 DEF StreamTypes, TypeOK, OnConfiguration, BeConfigured
<1>7. CASE \E r \in Rates : Reconfigure(r)
  BY <1>7 DEF StreamTypes, TypeOK, OnConfiguration, Reconfigure
<1>8. CASE Disconnect
  BY <1>8 DEF StreamTypes, TypeOK, OnConnectionReleased, Disconnect
<1>9. CASE LinkLost
  BY <1>9 DEF StreamTypes, TypeOK, LinkLost
<1>10. CASE UNCHANGED <<streamVars, scanVars>>
  BY <1>10 DEF StreamTypes, TypeOK
<1>11. \/ Open
       \/ Start
       \/ Suspend
       \/ Close
       \/ \E r \in Rates : Configure(r)
       \/ \E r \in Rates : BeConfigured(r)
       \/ \E r \in Rates : Reconfigure(r)
       \/ Disconnect
       \/ LinkLost
       \/ UNCHANGED <<streamVars, scanVars>>
  BY DEF Next, Stream, Connect, Explore, AcceptGoesOut, Open, Start, Suspend,
         Close, Abort, Configure, BeConfigured, Reconfigure, Disconnect, LinkLost,
         AnswerReport, Media, Fill, DelayTimer, Tick, OnConfiguration,
         OnStreamEstablished
<1> QED
  BY <1>1, <1>2, <1>3, <1>4, <1>5, <1>6, <1>7, <1>8, <1>9, <1>10, <1>11

\* What the properties look at.
LEMMA GhostTypesStep ==
  ASSUME TypeOK, [Next]_vars
  PROVE  GhostTypes'
<1> USE DEF vars, btVars, streamVars, mediaVars, scanVars, ghosts
<1>1. CASE Connect
  BY <1>1, Ends, SourceAssumption DEF GhostTypes, TypeOK, Connect
<1>2. CASE \E r \in Rates : Configure(r)
  BY <1>2, Ends, SourceAssumption DEF GhostTypes, TypeOK, SourceTypes, Configure
<1>3. CASE \E r \in Rates : BeConfigured(r)
  BY <1>3, Ends, SourceAssumption DEF GhostTypes, TypeOK, SourceTypes, BeConfigured
<1>4. CASE Close
  BY <1>4, Ends, SourceAssumption DEF GhostTypes, TypeOK, Close
<1>5. CASE LinkLost
  BY <1>5, Ends, SourceAssumption DEF GhostTypes, TypeOK, LinkLost
<1>6. CASE AnswerReport
  BY <1>6, Ends, SourceAssumption DEF GhostTypes, TypeOK, AnswerReport
<1>7. CASE DelayTimer
  BY <1>7, Ends, SourceAssumption DEF GhostTypes, TypeOK, DelayTimer
<1>8. CASE Tick
  BY <1>8, Ends, SourceAssumption DEF GhostTypes, TypeOK, Capped, Tick
<1>9. CASE UNCHANGED ghosts
  BY <1>9, Ends, SourceAssumption DEF GhostTypes, TypeOK
<1>10. \/ Connect
       \/ \E r \in Rates : Configure(r)
       \/ \E r \in Rates : BeConfigured(r)
       \/ Close
       \/ LinkLost
       \/ AnswerReport
       \/ DelayTimer
       \/ Tick
       \/ UNCHANGED ghosts
  BY DEF Next, Stream, Connect, Explore, AcceptGoesOut, Open, Start, Suspend,
         Close, Abort, Configure, BeConfigured, Reconfigure, Disconnect, LinkLost,
         AnswerReport, Media, Fill, DelayTimer, Tick, OnConfiguration,
         OnStreamEstablished
<1> QED
  BY <1>1, <1>2, <1>3, <1>4, <1>5, <1>6, <1>7, <1>8, <1>9, <1>10

\* The pipeline and the sink; a stream that plays has a rate.
LEMMA MediaTypesStep ==
  ASSUME TypeOK, StackInv, OutputInv, [Next]_vars
  PROVE  MediaTypes'
<1> USE DEF vars, btVars, streamVars, mediaVars, scanVars, ghosts
<1>1. CASE Start
  <2>1. rate \in Rates
    BY <1>1 DEF Start, StackInv
  <2> QED
    BY <1>1, <2>1, EmptyRing
       DEF MediaTypes, TypeOK, Start, OnStreamStarted, MediaReinit, StopSink
<1>2. CASE Suspend
  BY <1>2, EmptyRing
     DEF MediaTypes, TypeOK, OnStreamSuspended, MediaPause, StopSink, Suspend
<1>3. CASE Close
  BY <1>3, EmptyRing
     DEF MediaTypes, TypeOK, OnStreamReleased, MediaClose, StopSink, Close
<1>4. CASE LinkLost
  BY <1>4, EmptyRing DEF MediaTypes, TypeOK, StopSink, LinkLost
<1>5. CASE \E lag \in Lags : Media(lag)
  <2>1. PICK lag \in Lags : Media(lag)
    BY <1>5
  <2>2. rate \in Rates
    BY <2>1 DEF Media, StackInv
  <2>3. /\ frame_size' \in BOOLEAN /\ audio_stream_started' \in BOOLEAN /\ sink_active' \in BOOLEAN
        /\ UNCHANGED <<media_initialized, pcm, out_rate>>
    BY <2>1, Zenon DEF Media, TypeOK, MediaTypes
  <2>4. sink_timer' \in 0 .. 1
    BY <2>1 DEF Media, OutputInv, OutputFollowsStream, TypeOK, MediaTypes
  <2>5. ring' \in Seq(Rates) /\ Len(ring') <= RingFrames
    BY <2>1, <2>2, RingAssumption DEF Media, TypeOK, MediaTypes
  <2> QED
    BY <2>3, <2>4, <2>5 DEF TypeOK, MediaTypes
<1>6. CASE Fill
  <2>1. UNCHANGED <<media_initialized, audio_stream_started, frame_size, sink_active, sink_timer, out_rate>>
    BY <1>6 DEF Fill
  <2>0. ring # <<>> => /\ Head(ring) \in Rates
                       /\ Tail(ring) \in Seq(Rates) /\ Len(Tail(ring)) <= RingFrames
    BY RingAssumption DEF TypeOK, MediaTypes
  <2>2. pcm' \in Rates \cup {0} /\ ring' \in Seq(Rates) /\ Len(ring') <= RingFrames
    BY <1>6, <2>0 DEF Fill, TypeOK, MediaTypes
  <2> QED
    BY <2>1, <2>2 DEF TypeOK, MediaTypes
<1>7. CASE UNCHANGED mediaVars
  BY <1>7 DEF MediaTypes, TypeOK
<1>8. \/ Start
      \/ Suspend
      \/ Close
      \/ LinkLost
      \/ \E lag \in Lags : Media(lag)
      \/ Fill
      \/ UNCHANGED mediaVars
  BY DEF Next, Stream, Connect, Explore, AcceptGoesOut, Open, Start, Suspend,
         Close, Abort, Configure, BeConfigured, Reconfigure, Disconnect, LinkLost,
         AnswerReport, Media, Fill, DelayTimer, Tick, OnConfiguration,
         OnStreamEstablished
<1> QED
  BY <1>1, <1>2, <1>3, <1>4, <1>5, <1>6, <1>7, <1>8

\* The report; an attempt that failed is counted only while there is another.
LEMMA DelayTypesStep ==
  ASSUME TypeOK, StackInv, TimerInv, [Next]_vars
  PROVE  (delay \in Delays)'
<1> USE DEF vars, btVars, streamVars, mediaVars, scanVars, ghosts
<1>1. CASE Connect
  BY <1>1, DelayTypes DEF TypeOK, Connect, OnConnectionEstablished
<1>2. CASE Open
  <2>1. rate \in Rates
    BY <1>2 DEF Open, StackInv
  <2> QED
    BY <1>2, <2>1, DelayTypes DEF TypeOK, Open, OnStreamEstablished
<1>3. CASE Start
  <2>1. rate \in Rates
    BY <1>3 DEF Start, StackInv
  <2> QED
    BY <1>3, <2>1, DelayTypes DEF TypeOK, Start, OnStreamStarted
<1>4. CASE Suspend
  BY <1>4 DEF TypeOK, Suspend, OnStreamSuspended
<1>5. CASE Close
  BY <1>5, DelayTypes DEF TypeOK, Close, OnStreamReleased
<1>6. CASE \E r \in Rates : Configure(r)
  <2>1. PICK r \in Rates : Configure(r)
    BY <1>6
  <2>2. delay' = [ResetReport(delay) EXCEPT !.reporting = endpoint.bitmap]
    BY <2>1 DEF Configure, OnConfiguration
  <2> QED
    BY <2>2, DelayTypes DEF TypeOK, SourceTypes
<1>7. CASE \E r \in Rates : BeConfigured(r)
  <2>1. PICK r \in Rates : BeConfigured(r)
    BY <1>7
  <2>2. delay' = InitialReport([ResetReport(delay) EXCEPT !.reporting = peer.wants], r)
    BY <2>1 DEF BeConfigured, OnConfiguration
  <2>3. peer.wants \in BOOLEAN
    BY SourceAssumption DEF TypeOK, SourceTypes
  <2> QED
    BY <2>2, <2>3, DelayTypes DEF TypeOK
<1>8. CASE \E r \in Rates : Reconfigure(r)
  <2>1. delay' = ResetReport(delay)
    BY <1>8 DEF Reconfigure, OnConfiguration
  <2> QED
    BY <2>1, DelayTypes DEF TypeOK
<1>9. CASE LinkLost
  BY <1>9, DelayTypes DEF TypeOK, LinkLost
<1>10. CASE AnswerReport
  <2>1. ResetReport(delay) \in Delays
    BY DelayTypes DEF TypeOK
  <2> HIDE DEF ResetReport
  <2>2. [ResetReport(delay) EXCEPT !.rejected = TRUE] \in Delays
    BY <2>1 DEF Delays
  <2> QED
    BY <1>10, <2>2 DEF TypeOK, AnswerReport, OnReportRejected
<1>11. CASE \E lag \in Lags : Media(lag)
  <2>1. PICK lag \in Lags : Media(lag)
    BY <1>11
  <2>2. [rate |-> rate, lag |-> lag] \in Values
    BY <2>1 DEF Media, StackInv, Values
  <2>3. PICK d \in {delay, RestartMeasure(delay)} :
          delay' \in {d, Measure(d, [rate |-> rate, lag |-> lag])}
    BY <2>1 DEF Media
  <2> QED
    BY <2>2, <2>3, DelayTypes DEF TypeOK
<1>12. CASE DelayTimer
  <2> DEFINE d == [delay EXCEPT !.timer = None]
  <2>1. d \in Delays
    BY DEF TypeOK, Delays
  <2>2. [d EXCEPT !.pending = NoLag] \in Delays
    BY DEF TypeOK, Delays, Values
  <2>3. TooSoon(d) => [d EXCEPT !.timer = Interval - d.since] \in Delays
    <3> SUFFICES ASSUME TooSoon(d) PROVE Interval - delay.since \in 0 .. Interval
      BY DEF TypeOK, Delays
    <3>1. delay.since \in 0 .. Interval /\ delay.since < Interval
      BY DEF TooSoon, TypeOK, Delays
    <3> QED
      BY <3>1, Ends
  <2>4. Sent(d) \in Delays
    BY <2>1, Ends DEF Delays, Sent, Values
  <2>5. delay.attempts < Attempts => TryLater(d) \in Delays
    <3> SUFFICES ASSUME delay.attempts < Attempts PROVE TryLater(d) \in Delays
      OBVIOUS
    <3>1. delay.attempts + 1 \in 0 .. Attempts /\ d.attempts = delay.attempts
      BY Ends DEF TypeOK, Delays
    <3>2. NoLag \in Values
      BY DEF Values
    <3> HIDE DEF d
    <3> QED
      BY <2>1, <3>1, <3>2, Ends DEF Delays, TryLater
  <2>6. MaySend(d) => delay.attempts < Attempts
    BY DEF TimerInv, Waits, MaySend, TypeOK, Delays
  <2> HIDE DEF d
  <2> QED
    BY <1>12, <2>2, <2>3, <2>4, <2>5, <2>6 DEF DelayTimer, d
<1>13. CASE Tick
  BY <1>13, DelayTypes DEF TypeOK, Tick
<1>14. CASE UNCHANGED delay
  BY <1>14 DEF TypeOK
<1>15. \/ Connect
       \/ Open
       \/ Start
       \/ Suspend
       \/ Close
       \/ \E r \in Rates : Configure(r)
       \/ \E r \in Rates : BeConfigured(r)
       \/ \E r \in Rates : Reconfigure(r)
       \/ LinkLost
       \/ AnswerReport
       \/ \E lag \in Lags : Media(lag)
       \/ DelayTimer
       \/ Tick
       \/ UNCHANGED delay
  BY DEF Next, Stream, Connect, Explore, AcceptGoesOut, Open, Start, Suspend,
         Close, Abort, Configure, BeConfigured, Reconfigure, Disconnect, LinkLost,
         AnswerReport, Media, Fill, DelayTimer, Tick, OnConfiguration,
         OnStreamEstablished
<1> QED
  BY <1>1, <1>2, <1>3, <1>4, <1>5, <1>6, <1>7, <1>8, <1>9, <1>10, <1>11, <1>12,
     <1>13, <1>14, <1>15

-----------------------------------------------------------------------------
(***************************************************************************)
(* BTstack and the source.                                                 *)
(***************************************************************************)

\* No OPEN, START, SUSPEND or CLOSE is missed.
LEMMA StackInvStep ==
  ASSUME TypeOK, StackInv, [Next]_vars
  PROVE  StackInv'
<1> USE DEF vars, btVars, streamVars, mediaVars, scanVars, ghosts
<1>1. CASE Connect
  BY <1>1 DEF StackInv, FollowsTheSource, HasStream, Connect
<1>2. CASE AcceptGoesOut
  BY <1>2 DEF StackInv, FollowsTheSource, HasStream, AcceptGoesOut
<1>3. CASE Open
  BY <1>3 DEF StackInv, FollowsTheSource, HasStream, OnStreamEstablished, Open
<1>4. CASE Start
  BY <1>4 DEF StackInv, FollowsTheSource, HasStream, OnStreamStarted, Start
<1>5. CASE Suspend
  BY <1>5 DEF StackInv, FollowsTheSource, HasStream, OnStreamSuspended, Suspend
<1>6. CASE Close
  BY <1>6 DEF StackInv, FollowsTheSource, HasStream, OnStreamReleased, Close
<1>7. CASE Abort
  BY <1>7 DEF StackInv, FollowsTheSource, HasStream, Abort
<1>8. CASE \E r \in Rates : Configure(r)
  BY <1>8 DEF StackInv, FollowsTheSource, HasStream, OnConfiguration, Configure
<1>9. CASE \E r \in Rates : BeConfigured(r)
  BY <1>9
     DEF StackInv, FollowsTheSource, HasStream, OnConfiguration, TypeOK,
         SourceTypes, BeConfigured
<1>10. CASE \E r \in Rates : Reconfigure(r)
  BY <1>10 DEF StackInv, FollowsTheSource, HasStream, OnConfiguration, Reconfigure
<1>11. CASE Disconnect
  BY <1>11 DEF StackInv, FollowsTheSource, HasStream, Disconnect
<1>12. CASE LinkLost
  BY <1>12 DEF StackInv, FollowsTheSource, HasStream, LinkLost
<1>13. CASE AnswerReport
  BY <1>13 DEF StackInv, FollowsTheSource, HasStream, OnReportRejected, AnswerReport
<1>14. CASE UNCHANGED <<src, a2dp, signaling, rate, stream_state, conn_pin>>
  BY <1>14 DEF StackInv, FollowsTheSource, HasStream
<1>15. \/ Connect
       \/ AcceptGoesOut
       \/ Open
       \/ Start
       \/ Suspend
       \/ Close
       \/ Abort
       \/ \E r \in Rates : Configure(r)
       \/ \E r \in Rates : BeConfigured(r)
       \/ \E r \in Rates : Reconfigure(r)
       \/ Disconnect
       \/ LinkLost
       \/ AnswerReport
       \/ UNCHANGED <<src, a2dp, signaling, rate, stream_state, conn_pin>>
  BY DEF Next, Stream, Connect, Explore, AcceptGoesOut, Open, Start, Suspend,
         Close, Abort, Configure, BeConfigured, Reconfigure, Disconnect, LinkLost,
         AnswerReport, Media, Fill, DelayTimer, Tick, OnConfiguration,
         OnStreamEstablished, OnStreamStarted, OnStreamSuspended, OnStreamReleased,
         OnConnectionReleased, OnConnectionEstablished, OnReportRejected
<1> QED
  BY <1>1, <1>2, <1>3, <1>4, <1>5, <1>6, <1>7, <1>8, <1>9, <1>10, <1>11, <1>12,
     <1>13, <1>14, <1>15

\* What has been noted is of the endpoint that was picked.
LEMMA SetupInvStep ==
  ASSUME TypeOK, StackInv, SetupInv, [Next]_vars
  PROVE  SetupInv'
<1> USE DEF vars, btVars, streamVars, mediaVars, scanVars, ghosts
<1>1. CASE Connect
  <2>1. endpoint' = NewEndpoint
    BY <1>1 DEF Connect, OnConnectionEstablished, NewEndpoint, TypeOK, SourceTypes
  <2>2. explored' \in {0, None} /\ src' = "idle"
    BY <1>1 DEF Connect, StackInv
  <2> QED
    BY <2>1, <2>2, Ends DEF SetupInv, ConfiguredAsOffered, HasStream
<1>2. CASE Explore
  <2>1. /\ explored' = explored + 1 /\ explored \in {0, 1} /\ UNCHANGED <<peer, src>>
        /\ src = "idle"
        /\ endpoint'.seid = IF explored' = peer.sbc THEN explored' ELSE endpoint.seid
        /\ endpoint'.bitmap <=>
             (endpoint.bitmap \/ (explored' \in peer.offers /\ endpoint'.seid = explored'))
    BY <1>2 DEF Explore
  <2>2. peer.sbc \in {1, 2}
    BY SourceAssumption DEF TypeOK, SourceTypes, Seids
  <2>3. CASE explored = 0
    <3>1. endpoint.seid = 0 /\ endpoint.bitmap = FALSE
      BY <2>3 DEF SetupInv, NewEndpoint
    <3> QED
      BY <2>1, <2>2, <2>3, <3>1, Ends DEF SetupInv, ConfiguredAsOffered, HasStream
  <2>4. CASE explored = 1
    <3>1. /\ endpoint.seid = IF peer.sbc = 1 THEN 1 ELSE 0
          /\ endpoint.bitmap <=> peer.sbc = 1 /\ 1 \in peer.offers
      BY <2>4 DEF SetupInv
    <3> QED
      BY <2>1, <2>2, <2>4, <3>1, Ends DEF SetupInv, ConfiguredAsOffered, HasStream
  <2> QED
    BY <2>1, <2>3, <2>4
<1>3. CASE AcceptGoesOut
  BY <1>3, Ends DEF SetupInv, ConfiguredAsOffered, HasStream, AcceptGoesOut
<1>4. CASE Open
  BY <1>4, Ends DEF SetupInv, ConfiguredAsOffered, HasStream, Open
<1>5. CASE Start
  BY <1>5, Ends DEF SetupInv, ConfiguredAsOffered, HasStream, Start
<1>6. CASE Suspend
  BY <1>6, Ends DEF SetupInv, ConfiguredAsOffered, HasStream, Suspend
<1>7. CASE Close
  BY <1>7, Ends DEF SetupInv, ConfiguredAsOffered, HasStream, Close
<1>8. CASE Abort
  BY <1>8, Ends DEF SetupInv, ConfiguredAsOffered, HasStream, Abort
<1>9. CASE \E r \in Rates : Configure(r)
  BY <1>9, Ends DEF SetupInv, ConfiguredAsOffered, HasStream, Configure
<1>10. CASE \E r \in Rates : BeConfigured(r)
  BY <1>10, Ends DEF SetupInv, ConfiguredAsOffered, HasStream, BeConfigured
<1>11. CASE Disconnect
  BY <1>11, Ends DEF SetupInv, ConfiguredAsOffered, HasStream, Disconnect
<1>12. CASE LinkLost
  BY <1>12, Ends DEF SetupInv, ConfiguredAsOffered, HasStream, LinkLost
<1>13. CASE UNCHANGED <<peer, src, explored, endpoint>>
  BY <1>13, Ends DEF SetupInv, ConfiguredAsOffered, HasStream
<1>14. \/ Connect
       \/ Explore
       \/ AcceptGoesOut
       \/ Open
       \/ Start
       \/ Suspend
       \/ Close
       \/ Abort
       \/ \E r \in Rates : Configure(r)
       \/ \E r \in Rates : BeConfigured(r)
       \/ Disconnect
       \/ LinkLost
       \/ UNCHANGED <<peer, src, explored, endpoint>>
  BY DEF Next, Stream, Connect, Explore, AcceptGoesOut, Open, Start, Suspend,
         Close, Abort, Configure, BeConfigured, Reconfigure, Disconnect, LinkLost,
         AnswerReport, Media, Fill, DelayTimer, Tick, OnConfiguration,
         OnStreamEstablished, OnStreamStarted, OnStreamSuspended, OnStreamReleased,
         OnConnectionReleased, OnConnectionEstablished, OnReportRejected
<1> QED
  BY <1>1, <1>2, <1>3, <1>4, <1>5, <1>6, <1>7, <1>8, <1>9, <1>10, <1>11, <1>12,
     <1>13, <1>14

\* The scans.
LEMMA OpenToOthersStep ==
  ASSUME TypeOK, StackInv, OpenToOthers, [Next]_vars
  PROVE  OpenToOthers'
<1> USE DEF vars, btVars, streamVars, mediaVars, scanVars, ghosts
<1>1. CASE Connect
  BY <1>1 DEF OpenToOthers, StackInv, FollowsTheSource, HasStream, Connect
<1>2. CASE Open
  BY <1>2
     DEF OpenToOthers, StackInv, FollowsTheSource, HasStream, OnStreamEstablished,
         Open
<1>3. CASE Start
  BY <1>3
     DEF OpenToOthers, StackInv, FollowsTheSource, HasStream, OnStreamStarted,
         Start
<1>4. CASE Suspend
  BY <1>4
     DEF OpenToOthers, StackInv, FollowsTheSource, HasStream, OnStreamSuspended,
         Suspend
<1>5. CASE Close
  BY <1>5
     DEF OpenToOthers, StackInv, FollowsTheSource, HasStream, OnStreamReleased,
         Close
<1>6. CASE Disconnect
  BY <1>6
     DEF OpenToOthers, StackInv, FollowsTheSource, HasStream, OnConnectionReleased,
         Disconnect
<1>7. CASE LinkLost
  BY <1>7 DEF OpenToOthers, StackInv, FollowsTheSource, HasStream, LinkLost
<1>8. CASE UNCHANGED <<signaling, stream_state, discoverable, connectable>>
  BY <1>8 DEF OpenToOthers, StackInv, FollowsTheSource, HasStream
<1>9. \/ Connect
      \/ Open
      \/ Start
      \/ Suspend
      \/ Close
      \/ Disconnect
      \/ LinkLost
      \/ UNCHANGED <<signaling, stream_state, discoverable, connectable>>
  BY DEF Next, Stream, Connect, Explore, AcceptGoesOut, Open, Start, Suspend,
         Close, Abort, Configure, BeConfigured, Reconfigure, Disconnect, LinkLost,
         AnswerReport, Media, Fill, DelayTimer, Tick, OnConfiguration,
         OnStreamEstablished, OnStreamStarted, OnStreamSuspended, OnStreamReleased,
         OnConnectionReleased, OnConnectionEstablished, OnReportRejected
<1> QED
  BY <1>1, <1>2, <1>3, <1>4, <1>5, <1>6, <1>7, <1>8, <1>9

-----------------------------------------------------------------------------
(***************************************************************************)
(* The output.                                                             *)
(***************************************************************************)

\* It runs while the stream plays, with what this configuration queued.
LEMMA OutputInvStep ==
  ASSUME TypeOK, StackInv, OutputInv, [Next]_vars
  PROVE  OutputInv'
<1> USE DEF vars, btVars, streamVars, mediaVars, scanVars, ghosts
<1>1. CASE Open
  BY <1>1
     DEF OutputInv, OutputFollowsStream, StackInv, FollowsTheSource, HasStream,
         TypeOK, StreamTypes, MediaTypes, OnStreamEstablished, Open
<1>2. CASE Start
  <2>1. /\ src' = "streaming" /\ stream_state' = "PLAYING" /\ UNCHANGED rate
        /\ MediaReinit(reconfigure)
    BY <1>2 DEF Start, OnStreamStarted, StackInv, HasStream
  <2>2. stream_state # "PLAYING"
    BY <1>2 DEF Start, StackInv, FollowsTheSource
  <2>3. CASE media_initialized /\ ~ reconfigure
    <3>1. UNCHANGED mediaVars
      BY <2>1, <2>3 DEF MediaReinit
    <3>2. ring = <<>> /\ pcm = 0 /\ out_rate = rate
      BY <2>2, <2>3 DEF OutputInv
    <3>3. OutputFollowsStream'
      BY <2>1, <3>1 DEF OutputInv, OutputFollowsStream
    <3> QED
      BY <2>1, <2>3, <3>1, <3>2, <3>3 DEF OutputInv, HasStream
  <2>4. CASE ~ (media_initialized /\ ~ reconfigure)
    <3>1. /\ media_initialized' = TRUE /\ audio_stream_started' = FALSE
          /\ ring' = <<>> /\ pcm' = 0 /\ out_rate' = rate
          /\ sink_active' = FALSE /\ sink_timer' = 0
      BY <2>1, <2>4 DEF MediaReinit, StopSink
    <3>2. OutputFollowsStream'
      BY <3>1 DEF OutputFollowsStream
    <3>3. DOMAIN ring' = {}
      BY <3>1
    <3>4. media_initialized' /\ HasStream(src)' /\ out_rate' = rate' /\ pcm' \in {0, rate'}
      BY <2>1, <3>1 DEF HasStream
    <3> QED
      BY <2>1, <3>2, <3>3, <3>4 DEF OutputInv
  <2> QED
    BY <2>3, <2>4
<1>3. CASE Suspend
  BY <1>3
     DEF OutputInv, OutputFollowsStream, StackInv, FollowsTheSource, HasStream,
         TypeOK, StreamTypes, MediaTypes, OnStreamSuspended, MediaPause, StopSink,
         Suspend
<1>4. CASE Close
  BY <1>4
     DEF OutputInv, OutputFollowsStream, StackInv, FollowsTheSource, HasStream,
         TypeOK, StreamTypes, MediaTypes, OnStreamReleased, MediaClose, StopSink, Close
<1>5. CASE \E r \in Rates : Configure(r)
  BY <1>5
     DEF OutputInv, OutputFollowsStream, StackInv, FollowsTheSource, HasStream,
         TypeOK, StreamTypes, MediaTypes, OnConfiguration, Configure
<1>6. CASE \E r \in Rates : BeConfigured(r)
  BY <1>6
     DEF OutputInv, OutputFollowsStream, StackInv, FollowsTheSource, HasStream,
         TypeOK, StreamTypes, MediaTypes, OnConfiguration, BeConfigured
<1>7. CASE \E r \in Rates : Reconfigure(r)
  BY <1>7
     DEF OutputInv, OutputFollowsStream, StackInv, FollowsTheSource, HasStream,
         TypeOK, StreamTypes, MediaTypes, OnConfiguration, Reconfigure
<1>8. CASE LinkLost
  <2>1. /\ src' = "idle" /\ stream_state' = "CLOSED" /\ media_initialized' = FALSE
        /\ audio_stream_started' = FALSE /\ sink_active' = FALSE /\ sink_timer' = 0
    BY <1>8 DEF LinkLost, StopSink
  <2> QED
    BY <2>1 DEF OutputInv, OutputFollowsStream
<1>9. CASE AcceptGoesOut
  BY <1>9
     DEF OutputInv, OutputFollowsStream, StackInv, FollowsTheSource, HasStream,
         TypeOK, StreamTypes, MediaTypes, AcceptGoesOut
<1>10. CASE Abort
  BY <1>10
     DEF OutputInv, OutputFollowsStream, StackInv, FollowsTheSource, HasStream,
         TypeOK, StreamTypes, MediaTypes, Abort
<1>11. CASE \E lag \in Lags : Media(lag)
  <2>1. PICK lag \in Lags : Media(lag)
    BY <1>11
  <2>2. src = "streaming" /\ stream_state = "PLAYING" /\ rate \in Rates /\ media_initialized
    BY <2>1 DEF Media, StackInv, FollowsTheSource, OutputInv
  <2>3. UNCHANGED <<src, stream_state, reconfigure, rate, media_initialized, pcm, out_rate>>
    BY <2>1 DEF Media
  <2>4. ring' \in {ring, Append(ring, rate)}
    BY <2>1 DEF Media
  <2>5. \A i \in DOMAIN ring' : ring'[i] = rate
    BY <2>2, <2>4 DEF OutputInv, TypeOK, MediaTypes
  <2>6. OutputFollowsStream'
    <3>1. CASE UNCHANGED <<sink_active, sink_timer, audio_stream_started>>
      BY <2>2, <2>3, <3>1 DEF OutputInv, OutputFollowsStream
    <3>2. CASE /\ ~ audio_stream_started /\ audio_stream_started' = TRUE
               /\ sink_active' = TRUE /\ sink_timer' = sink_timer + 1
      <4>1. sink_active = FALSE /\ sink_timer = 0
        BY <3>2 DEF OutputInv, OutputFollowsStream, TypeOK, MediaTypes
      <4> QED
        BY <2>2, <2>3, <3>2, <4>1 DEF OutputFollowsStream
    <3>3. \/ UNCHANGED <<sink_active, sink_timer, audio_stream_started>>
          \/ /\ ~ audio_stream_started /\ audio_stream_started' = TRUE
             /\ sink_active' = TRUE /\ sink_timer' = sink_timer + 1
      BY <2>1 DEF Media, TypeOK, MediaTypes
    <3> QED
      BY <3>1, <3>2, <3>3
  <2> QED
    BY <2>2, <2>3, <2>5, <2>6 DEF OutputInv, HasStream
<1>12. CASE Fill
  <2>1. UNCHANGED <<src, stream_state, reconfigure, rate, media_initialized,
                     audio_stream_started, sink_active, sink_timer, out_rate>>
    BY <1>12 DEF Fill
  <2>2. sink_active /\ stream_state = "PLAYING"
    BY <1>12 DEF Fill, OutputInv, OutputFollowsStream
  <2>3. ring # <<>> => ring[1] = rate /\ \A i \in DOMAIN Tail(ring) : Tail(ring)[i] = rate
    <3>1. ring \in Seq(Rates) /\ \A i \in DOMAIN ring : ring[i] = rate
      BY <2>2 DEF OutputInv, TypeOK, MediaTypes
    <3> QED
      BY <3>1
  <2>4. pcm' \in {0, rate} /\ \A i \in DOMAIN ring' : ring'[i] = rate
    BY <1>12, <2>2, <2>3 DEF Fill, OutputInv, TypeOK, MediaTypes
  <2> QED
    BY <2>1, <2>2, <2>4 DEF OutputInv, OutputFollowsStream, HasStream
<1>13. CASE UNCHANGED <<src, stream_state, reconfigure, rate, mediaVars>>
  BY <1>13
     DEF OutputInv, OutputFollowsStream, StackInv, FollowsTheSource, HasStream,
         TypeOK, StreamTypes, MediaTypes
<1>14. \/ Open
       \/ Start
       \/ Suspend
       \/ Close
       \/ \E r \in Rates : Configure(r)
       \/ \E r \in Rates : BeConfigured(r)
       \/ \E r \in Rates : Reconfigure(r)
       \/ LinkLost
       \/ AcceptGoesOut
       \/ Abort
       \/ \E lag \in Lags : Media(lag)
       \/ Fill
       \/ UNCHANGED <<src, stream_state, reconfigure, rate, mediaVars>>
  BY DEF Next, Stream, Connect, Explore, AcceptGoesOut, Open, Start, Suspend,
         Close, Abort, Configure, BeConfigured, Reconfigure, Disconnect, LinkLost,
         AnswerReport, Media, Fill, DelayTimer, Tick, OnConfiguration,
         OnStreamEstablished, OnStreamStarted, OnStreamSuspended, OnStreamReleased,
         OnConnectionReleased, OnConnectionEstablished, OnReportRejected
<1> QED
  BY <1>1, <1>2, <1>3, <1>4, <1>5, <1>6, <1>7, <1>8, <1>9, <1>10, <1>11, <1>12,
     <1>13, <1>14

-----------------------------------------------------------------------------
(***************************************************************************)
(* The report.                                                             *)
(***************************************************************************)

\* Where no report waits, nothing is to be sent.
LEMMA NothingWaits ==
  ASSUME NEW d, d.pending = NoLag
  PROVE  \A r : Waits(d, r)
BY DEF Waits

\* ... as after every reset.
LEMMA ResetWaits ==
  ASSUME NEW d \in Delays
  PROVE  \A e \in {ResetReport(d), ForgetSource(d), InitialDelay} :
           /\ e.pending = NoLag
           /\ \A on \in BOOLEAN : [e EXCEPT !.reporting = on].pending = NoLag
           /\ [e EXCEPT !.rejected = TRUE].pending = NoLag
<1>1. ASSUME NEW e \in {ResetReport(d), ForgetSource(d), InitialDelay}
      PROVE  e \in Delays /\ e.pending = NoLag
  <2>1. e \in Delays /\ ResetReport(d) \in Delays
    BY DelayTypes
  <2>2. InitialDelay.pending = NoLag
    BY DEF InitialDelay
  <2>3. ResetReport(d).pending = NoLag
    BY DEF Delays, ResetReport
  <2>4. ForgetSource(d).pending = NoLag
    BY <2>1, <2>3 DEF Delays, ForgetSource
  <2> QED
    BY <2>1, <2>2, <2>3, <2>4
<1>2. ASSUME NEW e \in Delays, NEW on
      PROVE  /\ [e EXCEPT !.reporting = on].pending = e.pending
             /\ [e EXCEPT !.rejected = on].pending = e.pending
  BY DEF Delays
<1> QED
  BY <1>1, <1>2

\* An estimate is asked for where no report waits.
LEMMA InitialWaits ==
  ASSUME NEW d \in Delays, NEW r \in Rates, Waits(d, r)
  PROVE  Waits(InitialReport(d, r), r)
BY Ends, DelayAssumption DEF Delays, Waits, InitialReport, Request

\* A window that ends replaces the report that waits, or finds what the source
\* was told last.
LEMMA MeasureWaits ==
  ASSUME NEW d \in Delays, NEW r \in Rates, NEW lag \in Lags, Waits(d, r)
  PROVE  Waits(Measure(d, [rate |-> r, lag |-> lag]), r)
<1> DEFINE v == [rate |-> r, lag |-> lag]
           e == [d EXCEPT !.window = None, !.latest = v]
<1>1. Measure(d, v) \in {d, [d EXCEPT !.window = 0], Request(e, v)} \/ (Measure(d, v) = e /\ v = d.sent)
  BY DEF Measure
<1>2. Waits([d EXCEPT !.window = 0], r)
  BY DEF Delays, Waits
<1>3. Waits(Request(e, v), r)
  BY Ends, DelayAssumption DEF Delays, Waits, Request
<1>4. v = d.sent => Waits(e, r)
  BY DEF Delays, Waits
<1> QED
  BY <1>1, <1>2, <1>3, <1>4

\* Audio that begins, and time that passes, leave the report as it is.
LEMMA ElapseWaits ==
  ASSUME NEW d \in Delays, NEW r, Waits(d, r)
  PROVE  Waits(RestartMeasure(d), r) /\ (d.timer # 0 => Waits(Elapse(d), r))
<1>1. Waits(RestartMeasure(d), r)
  BY DEF Delays, Waits, RestartMeasure
<1>2. ASSUME d.timer # 0
      PROVE  Waits(Elapse(d), r)
  <2>1. d.timer # None => d.timer - 1 # None
    BY <1>2, Ends DEF Delays
  <2> QED
    BY <2>1 DEF Delays, Waits, Elapse
<1> QED
  BY <1>1, <1>2

\* A report that waits has its timer, through every reset, retry and measurement.
LEMMA TimerInvStep ==
  ASSUME TypeOK, StackInv, TimerInv, [Next]_vars
  PROVE  TimerInv'
<1> USE DEF vars, btVars, streamVars, mediaVars, scanVars, ghosts, TimerInv
<1>1. CASE Connect
  <2>1. delay' = ForgetSource(delay)
    BY <1>1 DEF Connect, OnConnectionEstablished
  <2> QED
    BY <2>1, ResetWaits, NothingWaits DEF TypeOK
<1>2. CASE Open \/ Start
  <2>1. rate \in Rates /\ UNCHANGED rate /\ delay' \in {delay, InitialReport(delay, rate)}
    BY <1>2 DEF Open, Start, OnStreamEstablished, OnStreamStarted, StackInv
  <2> QED
    BY <2>1, InitialWaits DEF TypeOK
<1>3. CASE Close
  <2>1. delay' = ForgetSource(delay)
    BY <1>3 DEF Close, OnStreamReleased
  <2> QED
    BY <2>1, ResetWaits, NothingWaits DEF TypeOK
<1>4. CASE \E r \in Rates : Configure(r)
  <2>1. delay' = [ResetReport(delay) EXCEPT !.reporting = endpoint.bitmap]
    BY <1>4 DEF Configure, OnConfiguration
  <2>2. endpoint.bitmap \in BOOLEAN
    BY DEF TypeOK, SourceTypes
  <2> QED
    BY <2>1, <2>2, ResetWaits, NothingWaits DEF TypeOK
<1>5. CASE \E r \in Rates : BeConfigured(r)
  <2>1. PICK r \in Rates : BeConfigured(r)
    BY <1>5
  <2> DEFINE d == [ResetReport(delay) EXCEPT !.reporting = peer.wants]
  <2>2. delay' = InitialReport(d, r) /\ rate' = r
    BY <2>1 DEF BeConfigured, OnConfiguration
  <2>3. peer.wants \in BOOLEAN
    BY SourceAssumption DEF TypeOK, SourceTypes
  <2>4. d \in Delays /\ d.pending = NoLag
    BY <2>3, DelayTypes, ResetWaits DEF TypeOK
  <2> HIDE DEF d
  <2> QED
    BY <2>2, <2>4, NothingWaits, InitialWaits
<1>6. CASE \E r \in Rates : Reconfigure(r)
  <2>1. delay' = ResetReport(delay)
    BY <1>6 DEF Reconfigure, OnConfiguration
  <2> QED
    BY <2>1, ResetWaits, NothingWaits DEF TypeOK
<1>7. CASE LinkLost
  <2>1. delay' = InitialDelay
    BY <1>7 DEF LinkLost
  <2> QED
    BY <2>1, ResetWaits, NothingWaits DEF TypeOK
<1>8. CASE AnswerReport
  <2>1. UNCHANGED rate /\ delay' \in {delay, [ResetReport(delay) EXCEPT !.rejected = TRUE]}
    BY <1>8 DEF AnswerReport, OnReportRejected
  <2> QED
    BY <2>1, ResetWaits, NothingWaits DEF TypeOK
<1>9. CASE \E lag \in Lags : Media(lag)
  <2>1. PICK lag \in Lags : Media(lag)
    BY <1>9
  <2>2. rate \in Rates /\ UNCHANGED rate
    BY <2>1 DEF Media, StackInv
  <2> DEFINE v == [rate |-> rate, lag |-> lag]
  <2>3. PICK d \in {delay, RestartMeasure(delay)} : delay' \in {d, Measure(d, v)}
    BY <2>1 DEF Media
  <2>4. d \in Delays /\ Waits(d, rate)
    BY <2>3, DelayTypes, ElapseWaits DEF TypeOK
  <2>5. Waits(Measure(d, v), rate)
    BY <2>2, <2>4, MeasureWaits
  <2> QED
    BY <2>2, <2>3, <2>4, <2>5
<1>10. CASE DelayTimer
  <2> DEFINE d == [delay EXCEPT !.timer = None]
  <2>1. UNCHANGED rate
    BY <1>10 DEF DelayTimer
  <2>2. CASE delay' \in {[d EXCEPT !.pending = NoLag], Sent(d)}
    <3>1. delay'.pending = NoLag
      BY <2>2 DEF Sent, TypeOK, Delays
    <3> QED
      BY <3>1, NothingWaits
  <2>3. CASE TooSoon(d) /\ delay' = [d EXCEPT !.timer = Interval - d.since]
    <3>1. delay.since \in 0 .. Interval
      BY DEF TypeOK, Delays
    <3>2. delay'.timer = Interval - delay.since /\ delay'.timer # None
      BY <2>3, <3>1, Ends DEF TypeOK, Delays
    <3>3. /\ delay'.pending = delay.pending /\ delay'.attempts = delay.attempts
          /\ delay'.latest = delay.latest /\ delay'.sent = delay.sent
          /\ delay'.timer # None
      BY <2>3, <3>2 DEF TypeOK, Delays
    <3>4. delay.timer = 0 /\ delay.timer # None
      BY <1>10, Ends DEF DelayTimer
    <3> QED
      BY <2>1, <3>3, <3>4 DEF Waits
  <2>4. CASE MaySend(d) /\ delay' = TryLater(d)
    <3>1. CASE d.attempts + 1 < Attempts
      <4>1. /\ delay'.timer = Retry /\ delay'.attempts = delay.attempts + 1
            /\ delay'.pending = delay.pending /\ delay'.latest = delay.latest
            /\ delay'.sent = delay.sent /\ delay.attempts + 1 < Attempts
        BY <2>4, <3>1 DEF TryLater, TypeOK, Delays
      <4> QED
        BY <2>1, <4>1, Ends DEF Waits
    <3>2. CASE ~ (d.attempts + 1 < Attempts)
      <4>1. delay'.pending = NoLag
        BY <2>4, <3>2 DEF TryLater, TypeOK, Delays
      <4> QED
        BY <4>1, NothingWaits
    <3> QED
      BY <3>1, <3>2
  <2> HIDE DEF d
  <2> QED
    BY <1>10, <2>2, <2>3, <2>4 DEF DelayTimer, d
<1>11. CASE Tick
  <2>1. delay' = Elapse(delay) /\ delay.timer # 0 /\ UNCHANGED rate
    BY <1>11 DEF Tick
  <2> QED
    BY <2>1, ElapseWaits DEF TypeOK
<1>12. CASE UNCHANGED <<delay, rate>>
  BY <1>12
<1>13. \/ Connect
       \/ Open \/ Start
       \/ Close
       \/ \E r \in Rates : Configure(r)
       \/ \E r \in Rates : BeConfigured(r)
       \/ \E r \in Rates : Reconfigure(r)
       \/ LinkLost
       \/ AnswerReport
       \/ \E lag \in Lags : Media(lag)
       \/ DelayTimer
       \/ Tick
       \/ UNCHANGED <<delay, rate>>
  BY DEF Next, Stream, Explore, AcceptGoesOut, Suspend, OnStreamSuspended,
         Abort, Disconnect, Fill
<1> QED
  BY <1>1, <1>2, <1>3, <1>4, <1>5, <1>6, <1>7, <1>8, <1>9, <1>10, <1>11, <1>12,
     <1>13

\* What a report keeps of the source, and of the last one sent.
Remembers(e, d) ==
  /\ e.reporting = d.reporting /\ e.rejected = d.rejected
  /\ e.sent_once = d.sent_once /\ e.since = d.since

LEMMA RememberedWhile ==
  ASSUME NEW d \in Delays
  PROVE  /\ Remembers(ResetReport(d), d) /\ Remembers(RestartMeasure(d), d)
         /\ \A r \in Rates : Remembers(InitialReport(d, r), d)
         /\ \A v \in Values : Remembers(Measure(d, v), d)
<1>1. Remembers(ResetReport(d), d) /\ Remembers(RestartMeasure(d), d)
  BY DEF Delays, Remembers, ResetReport, RestartMeasure
<1>2. ASSUME NEW r \in Rates
      PROVE  Remembers(InitialReport(d, r), d)
  BY DEF Delays, Remembers, InitialReport, Request
<1>3. ASSUME NEW v \in Values
      PROVE  Remembers(Measure(d, v), d)
  BY DEF Delays, Remembers, Measure, Request
<1> QED
  BY <1>1, <1>2, <1>3

\* A source is remembered until it is gone, and its refusal until its stream is.
LEMMA ReportInvStep ==
  ASSUME TypeOK, StackInv, ReportInv, [Next]_vars
  PROVE  ReportInv'
<1> USE DEF vars, btVars, streamVars, mediaVars, scanVars, ghosts
<1>1. CASE Connect
  <2>1. ResetReport(delay) \in Delays
    BY DelayTypes DEF TypeOK
  <2>2. delay'.reporting = FALSE
    BY <1>1, <2>1 DEF Connect, OnConnectionEstablished, ForgetSource, Delays
  <2> QED
    BY <1>1, <2>2 DEF Connect, ReportInv
<1>2. CASE Close
  <2>1. ResetReport(delay) \in Delays
    BY DelayTypes DEF TypeOK
  <2>2. delay'.reporting = FALSE
    BY <1>2, <2>1 DEF Close, OnStreamReleased, ForgetSource, Delays
  <2> QED
    BY <1>2, <2>2 DEF Close, ReportInv
<1>3. CASE LinkLost
  BY <1>3 DEF LinkLost, ReportInv, InitialDelay
<1>4. CASE \E r \in Rates : Configure(r)
  <2>1. PICK r \in Rates : Configure(r)
    BY <1>4
  <2> DEFINE d == ResetReport(delay)
  <2>2. d \in Delays /\ Remembers(d, delay)
    BY DelayTypes, RememberedWhile DEF TypeOK
  <2>3. /\ delay' = [d EXCEPT !.reporting = endpoint.bitmap] /\ asked' = endpoint.bitmap
        /\ UNCHANGED <<quiet, reopened, refused>>
    BY <2>1 DEF Configure, OnConfiguration
  <2> HIDE DEF d
  <2> QED
    BY <2>2, <2>3 DEF Delays, Remembers, ReportInv
<1>5. CASE \E r \in Rates : BeConfigured(r)
  <2>1. PICK r \in Rates : BeConfigured(r)
    BY <1>5
  <2> DEFINE d == ResetReport(delay)
             e == [d EXCEPT !.reporting = peer.wants]
  <2>2. d \in Delays /\ Remembers(d, delay)
    BY DelayTypes, RememberedWhile DEF TypeOK
  <2>3. /\ delay' = InitialReport(e, r) /\ asked' = peer.wants
        /\ UNCHANGED <<quiet, reopened, refused>>
    BY <2>1 DEF BeConfigured, OnConfiguration
  <2>4. peer.wants \in BOOLEAN
    BY SourceAssumption DEF TypeOK, SourceTypes
  <2> HIDE DEF d
  <2>5. /\ e \in Delays /\ e.reporting = peer.wants /\ e.rejected = delay.rejected
        /\ e.sent_once = delay.sent_once /\ e.since = delay.since
    BY <2>2, <2>4 DEF Delays, Remembers
  <2> HIDE DEF e
  <2>6. Remembers(delay', e)
    BY <2>3, <2>5, RememberedWhile
  <2> QED
    BY <2>3, <2>5, <2>6 DEF Remembers, ReportInv
<1>6. CASE \E r \in Rates : Reconfigure(r)
  <2>1. delay' = ResetReport(delay) /\ UNCHANGED ghosts
    BY <1>6 DEF Reconfigure, OnConfiguration
  <2>2. Remembers(delay', delay)
    BY <2>1, RememberedWhile DEF TypeOK
  <2> QED
    BY <2>1, <2>2 DEF Remembers, ReportInv
<1>7. CASE (Open \/ Start)
  <2>1. rate \in Rates
    BY <1>7 DEF Open, Start, StackInv
  <2>2. delay' \in {delay, InitialReport(delay, rate)} /\ UNCHANGED ghosts
    BY <1>7 DEF Open, Start, OnStreamEstablished, OnStreamStarted
  <2>3. Remembers(delay', delay)
    BY <2>1, <2>2, RememberedWhile DEF TypeOK, Remembers
  <2> QED
    BY <2>2, <2>3 DEF Remembers, ReportInv
<1>8. CASE AnswerReport
  <2> DEFINE d == ResetReport(delay)
  <2>1. d \in Delays /\ Remembers(d, delay)
    BY DelayTypes, RememberedWhile DEF TypeOK
  <2>2. /\ \/ delay' = delay /\ refused' = refused
           \/ delay' = [d EXCEPT !.rejected = TRUE]
        /\ UNCHANGED <<asked, quiet, reopened>>
    BY <1>8 DEF AnswerReport, OnReportRejected
  <2> HIDE DEF d
  <2> QED
    BY <2>1, <2>2 DEF Delays, Remembers, ReportInv
<1>9. CASE \E lag \in Lags : Media(lag)
  <2>1. PICK lag \in Lags : Media(lag)
    BY <1>9
  <2> DEFINE v == [rate |-> rate, lag |-> lag]
             d == RestartMeasure(delay)
  <2>2. v \in Values
    BY <2>1 DEF Media, StackInv, Values
  <2>3. delay' \in {delay, d, Measure(delay, v), Measure(d, v)} /\ UNCHANGED ghosts
    BY <2>1 DEF Media
  <2>4. d \in Delays /\ Remembers(d, delay)
    BY DelayTypes, RememberedWhile DEF TypeOK
  <2> HIDE DEF v, d
  <2>5. Remembers(Measure(delay, v), delay) /\ Remembers(Measure(d, v), d)
    BY <2>2, <2>4, RememberedWhile DEF TypeOK
  <2>6. Remembers(delay', delay)
    BY <2>3, <2>4, <2>5 DEF Remembers
  <2> QED
    BY <2>3, <2>6 DEF Remembers, ReportInv
<1>10. CASE DelayTimer
  <2> DEFINE d == [delay EXCEPT !.timer = None]
  <2>1. d \in Delays /\ Remembers(d, delay) /\ UNCHANGED <<asked, refused>>
    BY <1>10 DEF DelayTimer, TypeOK, Delays, Remembers
  <2>2. \/ /\ delay' \in {[d EXCEPT !.pending = NoLag], [d EXCEPT !.timer = Interval - d.since],
                           TryLater(d)}
           /\ UNCHANGED <<quiet, reopened>>
        \/ delay' = Sent(d) /\ quiet' = 0
    BY <1>10 DEF DelayTimer
  <2> HIDE DEF d
  <2>3. CASE (/\ delay' \in {[d EXCEPT !.pending = NoLag], [d EXCEPT !.timer = Interval - d.since],
                           TryLater(d)}
             /\ UNCHANGED <<quiet, reopened>>)
    <3>1. Remembers(delay', d)
      BY <2>1, <2>2, <2>3 DEF Delays, Remembers, TryLater
    <3> QED
      BY <2>1, <2>3, <3>1 DEF Remembers, ReportInv
  <2>4. CASE delay' = Sent(d) /\ quiet' = 0
    BY <2>1, <2>4 DEF Sent, Delays, Remembers, ReportInv
  <2> QED
    BY <2>2, <2>3, <2>4
<1>11. CASE Tick
  <2>1. /\ delay' = Elapse(delay) /\ quiet' = Capped(quiet)
        /\ UNCHANGED <<asked, reopened, refused>>
    BY <1>11 DEF Tick
  <2>2. /\ delay'.reporting = delay.reporting /\ delay'.rejected = delay.rejected
        /\ delay'.sent_once = delay.sent_once /\ delay'.since = Capped(delay.since)
    BY <2>1 DEF Elapse, TypeOK, Delays
  <2>3. quiet = Interval => quiet' = Interval
    BY <2>1, Ends DEF Capped
  <2> QED
    BY <2>1, <2>2, <2>3 DEF ReportInv
<1>12. CASE UNCHANGED <<delay, ghosts>>
  BY <1>12 DEF ReportInv
<1>13. \/ Connect
       \/ Close
       \/ LinkLost
       \/ \E r \in Rates : Configure(r)
       \/ \E r \in Rates : BeConfigured(r)
       \/ \E r \in Rates : Reconfigure(r)
       \/ Open \/ Start
       \/ AnswerReport
       \/ \E lag \in Lags : Media(lag)
       \/ DelayTimer
       \/ Tick
       \/ UNCHANGED <<delay, ghosts>>
  BY DEF Next, Stream, Explore, AcceptGoesOut, Suspend, OnStreamSuspended,
         Abort, Disconnect, Fill
<1> QED
  BY <1>1, <1>2, <1>3, <1>4, <1>5, <1>6, <1>7, <1>8, <1>9, <1>10, <1>11, <1>12,
     <1>13

-----------------------------------------------------------------------------
(***************************************************************************)
(* The theorems.                                                           *)
(***************************************************************************)

LEMMA InitInv == Init => TypeOK /\ IInv
<1> SUFFICES ASSUME Init
             PROVE  TypeOK /\ IInv
  OBVIOUS
<1>1. InitialDelay \in [reporting : BOOLEAN, rejected : BOOLEAN, pending : Values, sent : Values,
        sent_once : BOOLEAN, since : 0 .. Interval, timer : 0 .. Interval \cup {None},
        attempts : 0 .. Attempts, window : 0 .. Interval \cup {None}, latest : Values]
  BY Ends DEF InitialDelay, Values
<1>2. InitialDelay \in Delays
  BY <1>1 DEF Delays
<1>3. SourceTypes /\ StreamTypes /\ GhostTypes
  BY Ends DEF Init, SourceTypes, StreamTypes, GhostTypes, Values, NewEndpoint
<1>4. MediaTypes
  BY EmptyRing DEF Init, MediaTypes
<1>5. TypeOK
  BY <1>2, <1>3, <1>4 DEF Init, TypeOK
<1>6. StackInv /\ SetupInv /\ OpenToOthers
  <2>1. explored = None /\ explored # 0 /\ explored # 1 /\ explored # 2
    BY DelayAssumption DEF Init
  <2>2. FollowsTheSource
    BY DEF Init, FollowsTheSource, HasStream
  <2> QED
    BY <2>1, <2>2
       DEF Init, StackInv, HasStream, SetupInv, ConfiguredAsOffered, OpenToOthers
<1>7. OutputInv
  BY DEF Init, OutputInv, OutputFollowsStream
<1>8. TimerInv /\ ReportInv
  <2>1. delay.pending = NoLag /\ delay.timer = None
    BY DEF Init, InitialDelay
  <2> QED
    BY <2>1, NothingWaits DEF Init, InitialDelay, TimerInv, ReportInv
<1> QED
  BY <1>5, <1>6, <1>7, <1>8 DEF IInv

LEMMA NextInv ==
  ASSUME TypeOK, IInv, [Next]_vars
  PROVE  TypeOK' /\ IInv'
<1>1. TypeOK'
  BY SourceTypesStep, StreamTypesStep, GhostTypesStep, MediaTypesStep, DelayTypesStep
     DEF TypeOK, IInv
<1>2. StackInv' /\ SetupInv'
  BY StackInvStep, SetupInvStep DEF IInv
<1>3. OutputInv' /\ OpenToOthers'
  BY OutputInvStep, OpenToOthersStep DEF IInv
<1>4. TimerInv' /\ ReportInv'
  BY TimerInvStep, ReportInvStep DEF IInv
<1> QED
  BY <1>1, <1>2, <1>3, <1>4 DEF IInv

\* The inductive invariant holds of every step of a2dp.c's handlers, whatever
\* sources come and go.
THEOREM Inductive == Spec => [](TypeOK /\ IInv)
<1>1. TypeOK /\ IInv /\ [Next]_vars => (TypeOK /\ IInv)'
  BY NextInv
<1> QED
  BY <1>1, InitInv, PTL DEF Spec

\* Every variable keeps its type: the ring of SBC frames never overflows, and the
\* sink's timer is never added twice (a2dp.c:716-746, btstack_audio_pico_i2s.c:155-179).
THEOREM TypeCorrect == Spec => []TypeOK
BY Inductive, PTL

\* PAB hears every OPEN, START, SUSPEND and CLOSE of the source, through reports it
\* refuses and streams set up again (a2dp.c:421-437, 632-645).
THEOREM SourceIsFollowed == Spec => []FollowsTheSource
<1>1. IInv => FollowsTheSource
  BY DEF IInv, StackInv
<1> QED
  BY <1>1, Inductive, PTL

\* What plays is of the configuration the stream has (a2dp.c:292-315, 716-746).
THEOREM ConfigurationPlays == Spec => []PlaysThisConfiguration
<1>1. IInv => PlaysThisConfiguration
  BY DEF IInv, OutputInv, OutputFollowsStream, PlaysThisConfiguration
<1> QED
  BY <1>1, Inductive, PTL

\* The output, the scans, the endpoint and the report that waits are those of the
\* stream there is (a2dp.c:365-375, 505-546, 656-708, 761-766).
THEOREM NothingIsLeftOver == Spec => []NothingLeftOver
<1>1. TypeOK /\ IInv => NothingLeftOver
  BY DEF IInv, OutputInv, SetupInv, TimerInv, Waits, ReportStands, NothingLeftOver
<1> QED
  BY <1>1, Inductive, PTL

\* A report goes to a source that asked for it and has not refused one, a second
\* after the last on its connection or on a stream set up since (a2dp.c:344-431).
THEOREM OnlyWhenAsked == Spec => ReportsAsAsked
<1> DEFINE Allowed == asked /\ refused # "now" /\ (quiet = Interval \/ reopened)
<1>1. TypeOK /\ IInv /\ [Next]_vars => [Reports => Allowed]_vars
  <2> SUFFICES ASSUME TypeOK, IInv, [Next]_vars, Reports
               PROVE  Allowed
    OBVIOUS
  <2> USE DEF vars, btVars, ghosts
  <2>1. DelayTimer
    BY DEF Reports, Next, Stream, Connect, Explore, AcceptGoesOut, Open, Start,
           Suspend, Close, Abort, Configure, BeConfigured, Reconfigure, Disconnect,
           LinkLost, AnswerReport, Media, Fill, Tick
  <2> DEFINE d == [delay EXCEPT !.timer = None]
  <2>2. MaySend(d) /\ ~ TooSoon(d)
    BY <2>1 DEF DelayTimer, Reports
  <2>3. /\ delay.reporting /\ ~ delay.rejected
        /\ delay.sent_once => ~ (delay.since < Interval)
    BY <2>2 DEF MaySend, Enabled, TooSoon, TypeOK, Delays
  <2>4. delay.since \in 0 .. Interval /\ quiet \in 0 .. Interval
    BY DEF TypeOK, Delays, GhostTypes
  <2> QED
    BY <2>3, <2>4, Ends DEF IInv, ReportInv
<1> QED
  BY <1>1, Inductive, PTL DEF Spec, ReportsAsAsked
=============================================================================
