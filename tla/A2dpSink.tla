------------------------------ MODULE A2dpSink -------------------------------
(***************************************************************************)
(* a2dp.c and btstack_audio_pico_i2s.c: a source connects, sets up a       *)
(* stream, plays, pauses, reconfigures, closes and goes; PAB follows it    *)
(* through BTstack's events, starts and stops the output, and tells the    *)
(* source its latency.                                                     *)
(*                                                                         *)
(* The source (src, peer) and BTstack (a2dp, the endpoint, the command in  *)
(* flight) are external.  BTstack has a state of its own for the stream,   *)
(* and tells PAB of an OPEN only in W4_OPEN and of START and SUSPEND only  *)
(* in OPENED.  BTstack's callbacks and timers all run on one run loop, so  *)
(* an event and its handler are one step.                                  *)
(*                                                                         *)
(* A packet of audio is the rate it was encoded for.  The ring of SBC      *)
(* frames is in units of half START_FRAMES.                                *)
(***************************************************************************)
EXTENDS DelayReport, Sequences, FiniteSets

CONSTANTS
  Rates,        \* sample rates, positive
  Sources,      \* what sources there are: see SourceAssumption
  StartFrames,  \* START_FRAMES, in packets
  RingFrames    \* the ring's room, in packets

Seids == {1, 2}
ASSUME SourceAssumption ==
  \* sbc: the endpoint with SBC.  offers: those with Delay Reporting.  wants:
  \* switches it on when it configures PAB.  refuses: rejects a report.
  Sources \subseteq [sbc : Seids, offers : SUBSET Seids, wants : BOOLEAN, refuses : BOOLEAN]
ASSUME RateAssumption == Rates \subseteq Nat \ {0}
ASSUME RingAssumption ==
  StartFrames \in Nat \ {0} /\ RingFrames \in Nat /\ RingFrames >= StartFrames

VARIABLES
  peer,              \* the source there is, or was
  src,               \* what the source takes the stream to be
  signaling,         \* the signalling connection is up
  explored,          \* BTstack configures it: the last endpoint asked about, or None
  a2dp,              \* a2dp_sink_config_process.state
  endpoint,          \* bitmap, seid: remote_configuration_bitmap, set_config_remote_seid
  flight,            \* the report the source has not answered
  delay,             \* see DelayReport
  stream_state, cid, reconfigure, rate,
  media_initialized, audio_stream_started,
  frame_size,        \* _sbc_frame_size is set
  ring, pcm,         \* the SBC ring, and what is left in the decoded one
  sink_active, sink_timer, out_rate,
  conn_pin, discoverable, connectable,
  asked,             \* this stream was set up with Delay Reporting
  quiet,             \* ticks since the last report on this connection
  reopened,          \* a stream was closed since
  refused            \* the source refused a report: "now", since a stream closed last;
                     \* "before", earlier on this connection

btVars     == <<peer, src, signaling, explored, a2dp, endpoint, flight>>
streamVars == <<stream_state, cid, reconfigure, rate, conn_pin>>
mediaVars  == <<media_initialized, audio_stream_started, frame_size, ring, pcm,
                sink_active, sink_timer, out_rate>>
scanVars   == <<discoverable, connectable>>
ghosts     == <<asked, quiet, reopened, refused>>
vars == <<btVars, delay, streamVars, mediaVars, scanVars, ghosts>>

HasStream(s) == s \in {"open", "streaming"}
NewEndpoint  == [bitmap |-> FALSE, seid |-> 0]
Values       == [rate : Rates, lag : Lags] \cup {NoLag}
Delays       == [reporting : BOOLEAN, rejected : BOOLEAN, pending : Values, sent : Values,
                 sent_once : BOOLEAN, since : 0 .. Interval, timer : 0 .. Interval \cup {None},
                 attempts : 0 .. Attempts, window : 0 .. Interval \cup {None}, latest : Values]

SourceTypes ==
  /\ peer \in Sources /\ src \in {"idle", "configuring", "configured", "open", "streaming"}
  /\ signaling \in BOOLEAN /\ explored \in 0 .. 2 \cup {None}
  /\ a2dp \in {"CONNECTED", "CONFIGURED", "W4_OPEN", "OPENED"}
  /\ endpoint \in [bitmap : BOOLEAN, seid : 0 .. 2]
  /\ flight \in Values

StreamTypes ==
  /\ stream_state \in {"CLOSED", "OPEN", "PLAYING", "PAUSED"}
  /\ cid \in BOOLEAN /\ reconfigure \in BOOLEAN /\ rate \in Rates \cup {0}
  /\ conn_pin \in BOOLEAN /\ discoverable \in BOOLEAN /\ connectable \in BOOLEAN

MediaTypes ==
  /\ media_initialized \in BOOLEAN /\ frame_size \in BOOLEAN
  /\ audio_stream_started \in BOOLEAN
  /\ sink_active \in BOOLEAN /\ sink_timer \in 0 .. 1
  /\ ring \in Seq(Rates) /\ Len(ring) <= RingFrames /\ pcm \in Rates \cup {0}
  /\ out_rate \in Rates \cup {0}

GhostTypes ==
  /\ asked \in BOOLEAN /\ reopened \in BOOLEAN
  /\ quiet \in 0 .. Interval /\ refused \in {"no", "now", "before"}

\* Every variable has its type; the driver's timer is never added twice.
TypeOK ==
  SourceTypes /\ delay \in Delays /\ StreamTypes /\ MediaTypes /\ GhostTypes

\* a2dp_sink_begin, and BTstack and a source before a connection.
Init ==
  /\ peer \in Sources /\ src = "idle" /\ signaling = FALSE /\ explored = None
  /\ a2dp = "CONNECTED" /\ endpoint = NewEndpoint /\ flight = NoLag
  /\ delay = InitialDelay
  /\ stream_state = "CLOSED" /\ cid = FALSE /\ reconfigure = FALSE /\ rate = 0
  /\ media_initialized = FALSE /\ audio_stream_started = FALSE /\ frame_size = FALSE
  /\ ring = <<>> /\ pcm = 0
  /\ sink_active = FALSE /\ sink_timer = 0 /\ out_rate = 0
  /\ conn_pin = FALSE /\ discoverable = TRUE /\ connectable = TRUE
  /\ asked = FALSE /\ quiet = Interval /\ reopened = FALSE /\ refused = "no"

-----------------------------------------------------------------------------
(***************************************************************************)
(* The media pipeline, and the sink of btstack_audio_pico_i2s.c.           *)
(***************************************************************************)

\* btstack_audio_pico_sink_stop_stream, and audio_out_stop.
StopSink == sink_active' = FALSE /\ sink_timer' = 0

\* media_processing_close
MediaClose ==
  IF ~ media_initialized THEN UNCHANGED mediaVars
  ELSE /\ media_initialized' = FALSE /\ audio_stream_started' = FALSE
       /\ frame_size' = FALSE /\ StopSink
       /\ UNCHANGED <<ring, pcm, out_rate>>

\* media_processing_init, after media_processing_close if the source has
\* reconfigured.
MediaReinit(again) ==
  IF media_initialized /\ ~ again THEN UNCHANGED mediaVars
  ELSE /\ media_initialized' = TRUE /\ audio_stream_started' = FALSE
       /\ frame_size' = IF media_initialized THEN FALSE ELSE frame_size
       /\ ring' = <<>> /\ pcm' = 0 /\ out_rate' = rate
       /\ StopSink

\* media_processing_pause
MediaPause ==
  IF ~ media_initialized THEN UNCHANGED mediaVars
  ELSE /\ audio_stream_started' = FALSE /\ StopSink
       /\ ring' = <<>> /\ pcm' = 0
       /\ UNCHANGED <<media_initialized, frame_size, out_rate>>

-----------------------------------------------------------------------------
(***************************************************************************)
(* event_handler: one operator per event, from the state BTstack has put   *)
(* itself in (stack).                                                      *)
(***************************************************************************)

\* Mutant: a stream set up again on the same link opens unannounced.
OnConfiguration_Once(stack, r, again, reporting, early) ==
  /\ reconfigure' = again /\ rate' = r /\ cid' = TRUE
  /\ a2dp' = stack
  /\ LET d == ResetReport(delay)
         e == IF again THEN d ELSE [d EXCEPT !.reporting = reporting]
     IN  delay' = IF early THEN InitialReport(e, r) ELSE e
  /\ UNCHANGED <<stream_state, conn_pin, mediaVars, scanVars>>

\* Mutant: a RECONFIGURE, which carries only the codec, switches reports off.
OnConfiguration_Reread(stack, r, again, reporting, early) ==
  /\ reconfigure' = again /\ rate' = r /\ cid' = TRUE
  /\ a2dp' = IF ~ again /\ stack = "CONFIGURED" THEN "W4_OPEN" ELSE stack
  /\ LET e == [ResetReport(delay) EXCEPT !.reporting = reporting]
     IN  delay' = IF early THEN InitialReport(e, r) ELSE e
  /\ UNCHANGED <<stream_state, conn_pin, mediaVars, scanVars>>

\* reporting: what SET_CONFIGURATION said; early: the endpoint is still in
\* CONFIGURATION_SUBSTATEMACHINE.
OnConfiguration(stack, r, again, reporting, early) ==
  /\ reconfigure' = again /\ rate' = r /\ cid' = TRUE
  /\ a2dp' = IF ~ again /\ stack = "CONFIGURED" THEN "W4_OPEN" ELSE stack
  /\ LET d == ResetReport(delay)
         e == IF again THEN d ELSE [d EXCEPT !.reporting = reporting]
     IN  delay' = IF early THEN InitialReport(e, r) ELSE e
  /\ UNCHANGED <<stream_state, conn_pin, mediaVars, scanVars>>

\* Mutant: the next source is configured as the last was to be.
OnConnectionEstablished_Keep ==
  delay' = ForgetSource(delay) /\ UNCHANGED endpoint

OnConnectionEstablished ==
  /\ endpoint' = [endpoint EXCEPT !.bitmap = FALSE, !.seid = 0]
  /\ delay' = ForgetSource(delay)

OnStreamEstablished ==
  /\ cid' = TRUE /\ stream_state' = "OPEN" /\ conn_pin' = TRUE
  /\ delay' = InitialReport(delay, rate)
  /\ discoverable' = FALSE /\ connectable' = FALSE
  /\ UNCHANGED <<reconfigure, rate, mediaVars>>

\* Mutant: a reconfigured stream starts as it was.
OnStreamStarted_AsBefore ==
  /\ stream_state' = "PLAYING"
  /\ MediaReinit(FALSE)
  /\ delay' = InitialReport(delay, rate)
  /\ UNCHANGED <<cid, reconfigure, rate, conn_pin, scanVars>>

OnStreamStarted ==
  /\ stream_state' = "PLAYING"
  /\ MediaReinit(reconfigure)
  /\ delay' = InitialReport(delay, rate)
  /\ UNCHANGED <<cid, reconfigure, rate, conn_pin, scanVars>>

OnStreamSuspended ==
  /\ stream_state' = "PAUSED"
  /\ MediaPause
  /\ UNCHANGED <<delay, cid, reconfigure, rate, conn_pin, scanVars>>

OnStreamReleased ==
  /\ stream_state' = "CLOSED" /\ cid' = FALSE /\ conn_pin' = FALSE
  /\ delay' = ForgetSource(delay)
  /\ MediaClose
  /\ UNCHANGED <<reconfigure, rate, scanVars>>

OnConnectionReleased == connectable' = TRUE /\ discoverable' = TRUE

\* Mutant: the state is left as BTstack has it.
OnReportRejected_Drop ==
  /\ delay' = [ResetReport(delay) EXCEPT !.rejected = TRUE]
  /\ a2dp' = "CONNECTED"

\* Mutant: only the value is dropped, and the next is sent as before.
OnReportRejected_Again ==
  /\ delay' = ResetReport(delay)
  /\ a2dp' = IF stream_state = "CLOSED" THEN "W4_OPEN" ELSE "OPENED"

\* delay_report_rejected: BTstack has dropped its state to CONNECTED.
OnReportRejected ==
  /\ delay' = [ResetReport(delay) EXCEPT !.rejected = TRUE]
  /\ a2dp' = IF stream_state = "CLOSED" THEN "W4_OPEN" ELSE "OPENED"

-----------------------------------------------------------------------------
(***************************************************************************)
(* The source and BTstack.                                                 *)
(***************************************************************************)

\* A source connects; BTstack may start to configure it, or leave that to it.
Connect ==
  /\ ~ signaling /\ connectable
  /\ peer' \in Sources /\ signaling' = TRUE
  /\ explored' \in {0, None}
  /\ a2dp' = "CONNECTED" /\ flight' = NoLag
  /\ OnConnectionEstablished
  /\ asked' = FALSE /\ quiet' = Interval /\ reopened' = FALSE /\ refused' = "no"
  /\ UNCHANGED <<src, streamVars, mediaVars, scanVars>>

\* BTstack asks for the capabilities of one endpoint after the other.  It picks
\* the first with SBC; PAB then hears of Delay Reporting there.
Explore ==
  /\ signaling /\ explored \in {0, 1} /\ src = "idle"
  /\ LET sep == explored + 1
         picked == IF sep = peer.sbc THEN sep ELSE endpoint.seid
     IN  /\ explored' = sep
         /\ endpoint' =
              [seid |-> picked,
               bitmap |-> endpoint.bitmap \/ (sep \in peer.offers /\ picked = sep)]
  /\ UNCHANGED <<peer, src, signaling, a2dp, flight, delay, streamVars, mediaVars,
                 scanVars, ghosts>>

\* BTstack sends SET_CONFIGURATION, the source accepts, and BTstack opens.
Configure(r) ==
  /\ signaling /\ explored = 2 /\ src = "idle"
  /\ src' = "configured" /\ asked' = endpoint.bitmap
  /\ OnConfiguration("W4_OPEN", r, FALSE, endpoint.bitmap, FALSE)
  /\ UNCHANGED <<peer, signaling, explored, endpoint, flight, quiet, reopened, refused>>

\* The source sends it.  The accept goes out after the event.
BeConfigured(r) ==
  /\ signaling /\ explored = None /\ src = "idle"
  /\ src' = "configuring" /\ asked' = peer.wants
  /\ OnConfiguration(IF a2dp = "CONNECTED" THEN "W4_OPEN" ELSE a2dp, r, FALSE, peer.wants, TRUE)
  /\ UNCHANGED <<peer, signaling, explored, endpoint, flight, quiet, reopened, refused>>

AcceptGoesOut ==
  /\ src = "configuring" /\ src' = "configured"
  /\ UNCHANGED <<peer, signaling, explored, a2dp, endpoint, flight, delay, streamVars,
                 mediaVars, scanVars, ghosts>>

Open ==
  /\ src = "configured" /\ src' = "open"
  /\ explored' = None
  /\ IF a2dp = "W4_OPEN" THEN a2dp' = "OPENED" /\ OnStreamEstablished
     ELSE UNCHANGED <<a2dp, delay, streamVars, mediaVars, scanVars>>
  /\ UNCHANGED <<peer, signaling, endpoint, flight, ghosts>>

Start ==
  /\ src = "open" /\ src' = "streaming"
  /\ IF a2dp = "OPENED" THEN OnStreamStarted
     ELSE UNCHANGED <<delay, streamVars, mediaVars, scanVars>>
  /\ UNCHANGED <<peer, signaling, explored, a2dp, endpoint, flight, ghosts>>

Suspend ==
  /\ src = "streaming" /\ src' = "open"
  /\ IF a2dp = "OPENED" THEN OnStreamSuspended
     ELSE UNCHANGED <<delay, streamVars, mediaVars, scanVars>>
  /\ UNCHANGED <<peer, signaling, explored, a2dp, endpoint, flight, ghosts>>

\* Only a suspended stream can be given another configuration.
Reconfigure(r) ==
  /\ src = "open" /\ r # rate
  /\ OnConfiguration(a2dp, r, TRUE, FALSE, FALSE)
  /\ UNCHANGED <<peer, src, signaling, explored, endpoint, flight, ghosts>>

\* The media channel closes, and the signalling connection may stay.
Close ==
  /\ HasStream(src) /\ src' = "idle"
  /\ a2dp' = "CONFIGURED" /\ endpoint' = NewEndpoint
  /\ OnStreamReleased
  /\ asked' = FALSE /\ reopened' = TRUE
  /\ refused' = IF refused = "now" THEN "before" ELSE refused
  /\ UNCHANGED <<peer, signaling, explored, flight, quiet>>

\* A configuration that fails, or that the source gives up before it opens.
Abort ==
  /\ src \in {"configuring", "configured"} \/ (src = "idle" /\ explored \in {1, 2})
  /\ src' = "idle" /\ explored' = None
  /\ UNCHANGED <<peer, signaling, a2dp, endpoint, flight, delay, streamVars, mediaVars,
                 scanVars, ghosts>>

\* The source lets go of PAB, or its link goes before a stream was set up.
Disconnect ==
  /\ signaling /\ src = "idle"
  /\ signaling' = FALSE /\ explored' = None /\ flight' = NoLag
  /\ OnConnectionReleased
  /\ UNCHANGED <<peer, src, a2dp, endpoint, delay, streamVars, mediaVars, ghosts>>

\* bt.c restarts the box once the link of a source that streamed has gone.
LinkLost ==
  /\ signaling /\ HasStream(src)
  /\ peer' \in Sources /\ src' = "idle" /\ signaling' = FALSE /\ explored' = None
  /\ a2dp' = "CONNECTED" /\ endpoint' = NewEndpoint /\ flight' = NoLag
  /\ delay' = InitialDelay
  /\ stream_state' = "CLOSED" /\ cid' = FALSE /\ reconfigure' = FALSE /\ rate' = 0
  /\ media_initialized' = FALSE /\ audio_stream_started' = FALSE /\ frame_size' = FALSE
  /\ StopSink /\ ring' = <<>> /\ pcm' = 0 /\ out_rate' = 0
  /\ conn_pin' = FALSE /\ discoverable' = TRUE /\ connectable' = TRUE
  /\ asked' = FALSE /\ quiet' = Interval /\ reopened' = FALSE /\ refused' = "no"

\* The source answers a report.
AnswerReport ==
  /\ flight # NoLag /\ flight' = NoLag
  /\ IF peer.refuses THEN OnReportRejected /\ refused' = "now"
     ELSE UNCHANGED <<delay, a2dp, refused>>
  /\ UNCHANGED <<peer, src, signaling, explored, endpoint, streamVars, mediaVars,
                 scanVars, asked, quiet, reopened>>

-----------------------------------------------------------------------------
(***************************************************************************)
(* Media packets, and the two timers.                                      *)
(***************************************************************************)

\* media_handler: a packet that fits is queued, and enough of them start the
\* output.  lag: what measure_delay finds when a window ends, whatever timer or
\* retry of an earlier report is under way.
Media(lag) ==
  /\ src = "streaming"
  /\ frame_size' = TRUE
  /\ LET fits == media_initialized /\ Len(ring) < RingFrames
         queue == IF fits THEN Append(ring, rate) ELSE ring
         begins == ~ audio_stream_started /\ media_initialized /\ Len(queue) >= StartFrames
         d == IF begins THEN RestartMeasure(delay) ELSE delay
     IN  /\ ring' = queue
         /\ audio_stream_started' = (audio_stream_started \/ begins)
         /\ sink_active' = (sink_active \/ begins)
         /\ sink_timer' = IF begins THEN sink_timer + 1 ELSE sink_timer
         /\ delay' = IF fits /\ audio_stream_started' /\ cid
                     THEN Measure(d, [rate |-> rate, lag |-> lag]) ELSE d
  /\ UNCHANGED <<btVars, streamVars, media_initialized, pcm, out_rate, scanVars, ghosts>>

\* driver_timer_handler_sink, sink_fill and playback_handler: decoded audio
\* first, then frames; what the last one leaves waits for the next fill.
Fill ==
  /\ sink_timer > 0
  /\ frame_size
  /\ IF ring = <<>> THEN pcm' = 0 /\ UNCHANGED ring
     ELSE pcm' \in {0, Head(ring)} /\ ring' = Tail(ring)
  /\ UNCHANGED <<btVars, delay, streamVars, media_initialized, audio_stream_started,
                 frame_size, sink_active, sink_timer, out_rate, scanVars, ghosts>>

\* avdtp_sink_delay_report takes a report for an endpoint that is configured,
\* with no command of ours in flight.
MayReport ==
  /\ src \in {"open", "streaming"} \/ (src = "configured" /\ explored = None)
  /\ flight = NoLag

\* delay_report_timer_handler: nothing to send any more, too soon, no connection,
\* refused by BTstack for now, or sent.
DelayTimer ==
  /\ delay.timer = 0
  /\ LET d == [delay EXCEPT !.timer = None]
         wanted == MaySend(d) /\ cid
         goes == wanted /\ ~ TooSoon(d)
     IN  \/ /\ ~ wanted \/ (goes /\ ~ signaling)
            /\ delay' = [d EXCEPT !.pending = NoLag]
            /\ UNCHANGED <<flight, quiet, reopened>>
         \/ /\ wanted /\ TooSoon(d)
            /\ delay' = [d EXCEPT !.timer = Interval - d.since]
            /\ UNCHANGED <<flight, quiet, reopened>>
         \/ /\ goes /\ signaling /\ ~ MayReport
            /\ delay' = TryLater(d)
            /\ UNCHANGED <<flight, quiet, reopened>>
         \/ /\ goes /\ signaling /\ MayReport
            /\ delay' = Sent(d) /\ flight' = d.pending
            /\ quiet' = 0 /\ reopened' = FALSE
  /\ UNCHANGED <<peer, src, signaling, explored, a2dp, endpoint, streamVars, mediaVars,
                 scanVars, asked, refused>>

\* Half a second passes.  A timer that is due comes first.
Tick ==
  /\ delay.timer # 0
  /\ delay' = Elapse(delay) /\ quiet' = Capped(quiet)
  /\ UNCHANGED <<btVars, streamVars, mediaVars, scanVars, asked, reopened, refused>>

Stream ==
  \/ AcceptGoesOut \/ Open \/ Start \/ Suspend \/ Close \/ Abort
  \/ \E r \in Rates : Configure(r) \/ BeConfigured(r) \/ Reconfigure(r)
Next ==
  \/ Connect \/ Explore \/ Stream \/ Disconnect \/ LinkLost \/ AnswerReport
  \/ \E lag \in Lags : Media(lag)
  \/ Fill \/ DelayTimer \/ Tick

Spec == Init /\ [][Next]_vars

\* The run loop runs its timers, BTstack sends what it has accepted, a source
\* answers, and one that streams sends audio.
Fairness ==
  /\ WF_vars(\E lag \in Lags : Media(lag)) /\ WF_vars(Fill)
  /\ WF_vars(DelayTimer) /\ WF_vars(Tick)
  /\ WF_vars(AcceptGoesOut) /\ WF_vars(AnswerReport)
FairSpec == Spec /\ Fairness

-----------------------------------------------------------------------------
(***************************************************************************)
(* Properties.                                                             *)
(***************************************************************************)

\* PAB's stream is the source's, and the pin that says so too: no OPEN, START,
\* SUSPEND or CLOSE is missed, whatever BTstack makes of a report the source
\* refuses or of a stream set up a second time (a2dp.c:421-437, 632-645).
FollowsTheSource ==
  /\ stream_state = CASE src = "streaming" -> "PLAYING"
                      [] src = "open" -> IF stream_state = "PAUSED" THEN "PAUSED" ELSE "OPEN"
                      [] OTHER -> "CLOSED"
  /\ conn_pin <=> HasStream(src)

\* What plays was encoded for the rate the output runs at: nothing queued before
\* a pause, a reconfiguration or a new stream is left (a2dp.c:292-315, 716-746).
PlaysThisConfiguration ==
  sink_active => /\ out_rate = rate
                 /\ pcm \in {0, rate}
                 /\ \A i \in DOMAIN ring : ring[i] = rate

\* The output runs only for a stream that plays, and its timer, the sink and
\* a2dp.c agree on whether it does (a2dp.c:505-546, the sink's 155-179).
OutputFollowsStream ==
  /\ sink_active => stream_state = "PLAYING"
  /\ sink_active = audio_stream_started
  /\ sink_timer = IF sink_active THEN 1 ELSE 0

\* Nobody else can connect while a stream is set up, and everybody can when no
\* source is connected (a2dp.c:697-708, 761-766).
OpenToOthers ==
  /\ stream_state # "CLOSED" => ~ connectable /\ ~ discoverable
  /\ ~ signaling => connectable /\ discoverable

\* A source BTstack configures is given Delay Reporting if the endpoint picked
\* offers it, and never on the strength of another's (a2dp.c:656-684).
ConfiguredAsOffered ==
  explored = 2 => (endpoint.bitmap <=> peer.sbc \in peer.offers)

\* A report that waits to go out has a timer to send it and is made for the
\* configuration the stream has; and either it is the newest figure there is, or
\* that one differs by nothing from what the source was told last
\* (a2dp.c:362-375, 391-403, 414-419, 480-501).
ReportStands ==
  delay.pending # NoLag =>
    /\ delay.timer # None
    /\ delay.pending.rate = rate
    /\ delay.latest \in {delay.pending, delay.sent}

\* Whatever sources come, fail half way through and vanish: the output, the scans,
\* the endpoint's configuration and the waiting report are those of the stream
\* there is.
NothingLeftOver ==
  TypeOK /\ OutputFollowsStream /\ OpenToOthers /\ ConfiguredAsOffered /\ ReportStands

\* The comment at a2dp.c:367: "the source already has it; drop anything older".
OlderIsDropped ==
  delay.latest # NoLag /\ delay.latest = delay.sent => delay.pending = NoLag

Reports == flight = NoLag /\ flight' # NoLag

\* Reports go only to a source that switched them on for this stream and has not
\* refused one since, at most one a second, across retries and timers that were
\* under way (a2dp.c:344-431).
ReportsAsAsked ==
  [][Reports => /\ asked /\ refused # "now"
                /\ quiet = Interval \/ reopened]_vars

\* The comment at a2dp.c:190: _delay_sent_once is "on this connection, for the
\* rate limit", one report a second (a2dp.c:115-117).
OneASecondOnConnection == [][Reports => quiet = Interval]_vars

\* The comment at a2dp.c:191: "the source refused one: send no more", and
\* "stop reporting to this source" (a2dp.c:427).
NoMoreOnceRefused == [][Reports => refused = "no"]_vars

\* A source that streams is heard (a2dp.c:421-437, 632-645, 884-888).
Heard == (src = "streaming") ~> (sink_active \/ src # "streaming")

\* A source that asked is told its delay while it streams (a2dp.c:440-501).
Told ==
  (src = "streaming" /\ asked /\ ~ peer.refuses)
    ~> (delay.sent # NoLag \/ src # "streaming")
==============================================================================
