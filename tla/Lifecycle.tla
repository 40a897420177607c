----------------------------- MODULE Lifecycle ------------------------------
(***************************************************************************)
(* How the box boots, switches mode and restarts: app_mode.c, main.c,      *)
(* mode_button.c, the lifecycle half of bt.c and charger_check of          *)
(* usb_dac.c.                                                              *)
(*                                                                         *)
(* Every change of mode is a reboot.  What survives one is the watchdog    *)
(* scratch register; what survives a power cut is the flash sector.  Both  *)
(* may be interrupted anywhere.  The user holds and releases BOOTSEL, the  *)
(* supply is a host, a charger or neither, links come and go, and the      *)
(* radio or the program may stop working, all at any time.                 *)
(*                                                                         *)
(* Time advances in ticks of some two seconds, on which the watchdog (8 s) *)
(* and the deadline for the controller (20 s) are measured.  A loop that   *)
(* is alive comes round several times a tick (due); booting, erasing a     *)
(* sector and rebooting take much less than one.                           *)
(***************************************************************************)
EXTENDS Naturals

CONSTANTS
  WatchdogTicks,   \* PAB_WATCHDOG_MS
  UpDeadline,      \* PAB_BT_UP_DEADLINE_MS
  ReleaseTicks,    \* MODE_BUTTON_RELEASE_TIMEOUT_MS
  MaxLinks,        \* bound: links at a time
  MaxWedges,       \* bound: hangs, crashes and radio failures
  Supplies         \* what the box may be plugged into

ASSUME TicksAssumption ==
  /\ WatchdogTicks \in Nat \ {0, 1}
  /\ UpDeadline \in Nat \ {0}
  /\ ReleaseTicks \in Nat \ {0}
ASSUME BoundsAssumption == MaxLinks \in Nat \ {0} /\ MaxWedges \in Nat
ASSUME SuppliesAssumption ==
  Supplies # {} /\ Supplies \subseteq {"host", "charger", "other"}

VARIABLES
  flash,         \* the stored mode; None: erased, or never written
  scratch,       \* the mode in the watchdog scratch register; None: no tag
  supply, button,
  pc,            \* where the program is
  mode,          \* app_mode_current()
  target,        \* the argument of app_mode_switch_to or app_mode_boot_once
  waited,        \* ticks spent in announce_and_switch
  watchdog,      \* ticks until it fires
  uptime,        \* ticks since boot, up to UpDeadline
  due,           \* the run loop has not come round in this tick
  wedged,        \* the program is stuck
  hci,           \* hci_get_state, as bt_healthy tells states apart
  was_up, power_failed, acl_links, has_streamed,
  links,         \* the ACL links there are
  asked,         \* the mode the last reset was asked to boot, if it was
  intended,      \* the mode the user last switched to; None: it was cut short
  late,          \* the controller came up after the deadline
  wedges         \* hangs, crashes and radio failures so far

nvVars   == <<flash, scratch>>
envVars  == <<supply, button>>
swVars   == <<target, waited>>
wdVars   == <<watchdog, uptime, due>>
btVars   == <<hci, was_up, power_failed, acl_links, has_streamed, links, late>>
ghosts   == <<asked, intended>>
vars == <<nvVars, envVars, pc, mode, swVars, wdVars, wedged, btVars, ghosts,
          wedges>>

Modes == {"BT_SINK", "USB_DAC"}
None  == "none"
Boxed == {"radio", "run", "blink", "release", "fatal"}   \* the watchdog is on

TypeOK ==
  /\ flash \in Modes \cup {None} /\ scratch \in Modes \cup {None}
  /\ supply \in Supplies /\ button \in BOOLEAN
  /\ pc \in Boxed \cup {"off", "boot", "bootloader", "erase", "program", "reboot"}
  /\ mode \in Modes \cup {None} /\ target \in Modes \cup {None}
  /\ waited \in 0 .. ReleaseTicks
  /\ watchdog \in 0 .. WatchdogTicks /\ uptime \in 0 .. UpDeadline
  /\ due \in BOOLEAN /\ wedged \in BOOLEAN
  /\ hci \in {"off", "init", "working", "dead"}
  /\ was_up \in BOOLEAN /\ power_failed \in BOOLEAN
  /\ acl_links \in 0 .. MaxLinks /\ links \in 0 .. MaxLinks
  /\ has_streamed \in BOOLEAN /\ late \in BOOLEAN
  /\ asked \in Modes \cup {None} /\ intended \in Modes \cup {None}
  /\ wedges \in 0 .. MaxWedges

Init ==
  /\ flash = None /\ scratch = None
  /\ supply \in Supplies /\ button = FALSE
  /\ pc = "off" /\ mode = None /\ target = None /\ waited = 0
  /\ watchdog = 0 /\ uptime = 0 /\ due = FALSE /\ wedged = FALSE
  /\ hci = "off" /\ was_up = FALSE /\ power_failed = FALSE
  /\ acl_links = 0 /\ has_streamed = FALSE /\ links = 0 /\ late = FALSE
  /\ asked = None /\ intended = "BT_SINK"
  /\ wedges = 0

-----------------------------------------------------------------------------
(***************************************************************************)
(* Power, resets and the button.                                           *)
(***************************************************************************)

\* What a box that goes off or is reset loses.
ClearRam ==
  /\ mode' = None /\ target' = None /\ waited' = 0
  /\ watchdog' = 0 /\ uptime' = 0 /\ due' = FALSE /\ wedged' = FALSE
  /\ hci' = "off" /\ was_up' = FALSE /\ power_failed' = FALSE
  /\ acl_links' = 0 /\ has_streamed' = FALSE /\ links' = 0 /\ late' = FALSE

PowerOn ==
  /\ pc = "off"
  /\ pc' = "boot"
  /\ supply' \in Supplies
  /\ UNCHANGED <<nvVars, button, mode, swVars, wdVars, wedged, btVars, ghosts,
                 wedges>>

\* A cut in the middle of programming may leave anything in the sector.
PowerCut ==
  /\ pc # "off"
  /\ pc' = "off" /\ ClearRam
  /\ scratch' = None
  /\ IF pc = "program" THEN flash' \in Modes \cup {None} ELSE UNCHANGED flash
  /\ asked' = None
  /\ intended' = IF pc \in {"erase", "program"} THEN None ELSE intended
  /\ UNCHANGED <<envVars, wedges>>

\* A reset clears the RAM and keeps the scratch register.  The bootrom looks
\* at BOOTSEL before it starts the program.
Reset ==
  /\ pc' = IF button THEN "bootloader" ELSE "boot"
  /\ ClearRam
  /\ UNCHANGED <<nvVars, envVars, intended, wedges>>

Press ==
  /\ pc # "off"
  /\ button' = ~button
  /\ UNCHANGED <<nvVars, supply, pc, mode, swVars, wdVars, wedged, btVars,
                 ghosts, wedges>>

-----------------------------------------------------------------------------
(***************************************************************************)
(* app_mode.c                                                              *)
(***************************************************************************)
ModeFromFlash == IF flash = None THEN "BT_SINK" ELSE flash

NextMode == CHOOSE m \in Modes : m # mode

\* Mutant: the request stays in the scratch register.
ConsumeRequest_Kept == UNCHANGED scratch

\* "consume it, so a later crash-and-watchdog-reboot does not repeat it"
ConsumeRequest == scratch' = None

\* app_mode_current, then main() as far as watchdog_enable.
Boot ==
  /\ pc = "boot"
  /\ mode' = IF scratch # None THEN scratch ELSE ModeFromFlash
  /\ ConsumeRequest
  /\ pc' = IF mode' = "USB_DAC" THEN "run" ELSE "radio"
  /\ watchdog' = WatchdogTicks
  /\ due' = TRUE
  /\ UNCHANGED <<flash, envVars, swVars, uptime, wedged, btVars, ghosts, wedges>>

\* Mutant: the reset comes without a request.
RebootInto_NoRequest(m) == target' = m /\ pc' = "reboot" /\ UNCHANGED scratch

\* reboot_into, as far as the scratch register.
RebootInto(m) == scratch' = m /\ target' = m /\ pc' = "reboot"

\* app_mode_switch_to, as far as the flash: nothing to write, a write that
\* fails (the scratch register still carries the mode), or one that begins.
SwitchTo(m, ok) ==
  /\ UNCHANGED flash
  /\ IF ModeFromFlash = m \/ ~ok
       THEN RebootInto(m)
       ELSE target' = m /\ pc' = "erase" /\ UNCHANGED scratch

\* Mutant: falling back is a switch like any other.
BootOnce_Stored(m) == SwitchTo(m, TRUE)

\* app_mode_boot_once: no flash here.
BootOnce(m) == RebootInto(m) /\ UNCHANGED flash

\* mode_write_flash.  An erased sector reads as never written.
FlashErase ==
  /\ pc = "erase"
  /\ pc' = "program"
  /\ flash' = None
  /\ UNCHANGED <<scratch, envVars, mode, swVars, wdVars, wedged, btVars, ghosts,
                 wedges>>

FlashProgram ==
  /\ pc = "program"
  /\ flash' = target
  /\ RebootInto(target)
  /\ UNCHANGED <<envVars, mode, waited, wdVars, wedged, btVars, ghosts, wedges>>

\* watchdog_reboot(0, 0, 0), from reboot_into.
WatchdogReboot ==
  /\ pc = "reboot"
  /\ asked' = target
  /\ Reset

-----------------------------------------------------------------------------
(***************************************************************************)
(* mode_button.c: announce_and_switch feeds the watchdog itself, since it  *)
(* blocks the loop that does.                                              *)
(***************************************************************************)
Alive == ~wedged /\ pc \in Boxed

ButtonHeld ==
  /\ pc = "run" /\ Alive
  /\ button
  /\ pc' = "blink"
  /\ waited' = 0
  /\ UNCHANGED <<nvVars, envVars, mode, target, wdVars, wedged, btVars, ghosts,
                 wedges>>

\* Mutant: the loop that waits for the button does not feed the watchdog.
AnnounceFeeds_Not ==
  /\ pc \in {"blink", "release"} /\ Alive
  /\ due
  /\ due' = FALSE
  /\ UNCHANGED <<nvVars, envVars, pc, mode, swVars, watchdog, uptime, wedged,
                 btVars, ghosts, wedges>>

AnnounceFeeds ==
  /\ pc \in {"blink", "release"} /\ Alive
  /\ due
  /\ due' = FALSE
  /\ watchdog' = WatchdogTicks
  /\ UNCHANGED <<nvVars, envVars, pc, mode, swVars, uptime, wedged, btVars,
                 ghosts, wedges>>

BlinkEnd ==
  /\ pc = "blink" /\ Alive
  /\ pc' = "release"
  /\ waited' = 0
  /\ UNCHANGED <<nvVars, envVars, mode, target, wdVars, wedged, btVars, ghosts,
                 wedges>>

\* Let go, or held for too long: app_mode_switch_next.
ReleaseEnd ==
  /\ pc = "release" /\ Alive
  /\ ~button \/ waited = ReleaseTicks
  /\ \E ok \in BOOLEAN :
       /\ SwitchTo(NextMode, ok)
       /\ intended' = IF ok THEN NextMode ELSE intended
  /\ UNCHANGED <<envVars, mode, waited, wdVars, wedged, btVars, asked, wedges>>

-----------------------------------------------------------------------------
(***************************************************************************)
(* The two run loops.                                                      *)
(***************************************************************************)

\* A pass of usb_dac_run's loop.  A charger is recognised within the tick.
ChargerSeen == supply = "charger" /\ uptime <= 1

UsbPass ==
  /\ mode = "USB_DAC" /\ pc = "run" /\ Alive
  /\ due
  /\ ~ChargerSeen \/ uptime = 0
  /\ due' = FALSE
  /\ watchdog' = WatchdogTicks
  /\ UNCHANGED <<nvVars, envVars, pc, mode, swVars, uptime, wedged, btVars,
                 ghosts, wedges>>

ChargerCheck ==
  /\ mode = "USB_DAC" /\ pc = "run" /\ Alive
  /\ ChargerSeen
  /\ BootOnce("BT_SINK")
  /\ UNCHANGED <<envVars, mode, waited, wdVars, wedged, btVars, ghosts, wedges>>

\* bt_sink_run as far as bt_run; hci_power_control may fail.
RadioUp ==
  /\ pc = "radio" /\ Alive
  /\ pc' = "run"
  /\ \/ hci' = "init" /\ UNCHANGED <<power_failed, wedges>>
     \/ /\ wedges < MaxWedges /\ wedges' = wedges + 1
        /\ power_failed' = TRUE /\ UNCHANGED hci
  /\ UNCHANGED <<nvVars, envVars, mode, swVars, wdVars, wedged, was_up, acl_links,
                 has_streamed, links, late, ghosts>>

\* cyw43_arch_init failed: fatal().
Fatal ==
  /\ pc = "radio" /\ Alive
  /\ wedges < MaxWedges /\ wedges' = wedges + 1
  /\ pc' = "fatal"
  /\ watchdog' = 1
  /\ UNCHANGED <<nvVars, envVars, mode, swVars, uptime, due, wedged, btVars, ghosts>>

\* Mutant: a controller that was up once is taken to be up.
BtHealthy_WasUp == ~power_failed /\ (was_up \/ uptime < UpDeadline)

BtHealthy ==
  /\ ~power_failed
  /\ hci = "working" \/ (~was_up /\ uptime < UpDeadline)

\* watchdog_timer_handler.
WatchdogTimer ==
  /\ mode = "BT_SINK" /\ pc = "run" /\ Alive
  /\ due
  /\ due' = FALSE
  /\ watchdog' = IF BtHealthy THEN WatchdogTicks ELSE watchdog
  /\ UNCHANGED <<nvVars, envVars, pc, mode, swVars, uptime, wedged, btVars,
                 ghosts, wedges>>

-----------------------------------------------------------------------------
(***************************************************************************)
(* bt.c: packet_handler.                                                   *)
(***************************************************************************)
BtRuns == mode = "BT_SINK" /\ pc = "run" /\ Alive

HciWorking ==
  /\ BtRuns /\ hci = "init"
  /\ hci' = "working"
  /\ was_up' = TRUE
  /\ late' = (uptime = UpDeadline)
  /\ UNCHANGED <<nvVars, envVars, pc, mode, swVars, wdVars, wedged, power_failed,
                 acl_links, has_streamed, links, ghosts, wedges>>

HciPowerOnFailed ==
  /\ BtRuns /\ hci = "init"
  /\ wedges < MaxWedges /\ wedges' = wedges + 1
  /\ hci' = "off"
  /\ power_failed' = TRUE
  /\ UNCHANGED <<nvVars, envVars, pc, mode, swVars, wdVars, wedged, was_up,
                 acl_links, has_streamed, links, late, ghosts>>

\* A controller hardware error: the links are gone, and no event says so.
HciDies ==
  /\ BtRuns /\ hci = "working"
  /\ wedges < MaxWedges /\ wedges' = wedges + 1
  /\ hci' = "dead"
  /\ links' = 0
  /\ UNCHANGED <<nvVars, envVars, pc, mode, swVars, wdVars, wedged, was_up,
                 power_failed, acl_links, has_streamed, late, ghosts>>

\* Mutant: a connection that failed is counted as well.
LinksAfter_Any(success) == acl_links + 1

LinksAfter(success) == IF success THEN acl_links + 1 ELSE acl_links

ConnectionComplete(success) ==
  /\ BtRuns /\ hci = "working"
  /\ links < MaxLinks
  /\ links' = IF success THEN links + 1 ELSE links
  /\ acl_links' = LinksAfter(success)
  /\ UNCHANGED <<nvVars, envVars, pc, mode, swVars, wdVars, wedged, hci, was_up,
                 power_failed, has_streamed, late, ghosts, wedges>>

\* A2DP: a stream was established over a link.
StreamEstablished ==
  /\ BtRuns /\ hci = "working"
  /\ links > 0
  /\ has_streamed' = TRUE
  /\ UNCHANGED <<nvVars, envVars, pc, mode, swVars, wdVars, wedged, hci, was_up,
                 power_failed, acl_links, links, late, ghosts, wedges>>

\* The last link to go after a stream restarts the box; the scratch register
\* asks for nothing.  The event of a disconnection that failed changes nothing,
\* link count and links: it is a step that stutters.
DisconnectionComplete ==
  /\ BtRuns /\ hci = "working"
  /\ links > 0
  /\ IF acl_links <= 1 /\ has_streamed
       THEN asked' = None /\ Reset
       ELSE /\ links' = links - 1
            /\ acl_links' = IF acl_links > 0 THEN acl_links - 1 ELSE acl_links
            /\ UNCHANGED <<nvVars, envVars, pc, mode, swVars, wdVars, wedged, hci,
                           was_up, power_failed, has_streamed, late, ghosts,
                           wedges>>

-----------------------------------------------------------------------------
(***************************************************************************)
(* Time, and the watchdog.                                                 *)
(***************************************************************************)

\* A hang, a hard fault or a panic.
Wedge ==
  /\ pc \in Boxed \ {"fatal"} /\ ~wedged
  /\ wedges < MaxWedges /\ wedges' = wedges + 1
  /\ wedged' = TRUE
  /\ UNCHANGED <<nvVars, envVars, pc, mode, swVars, wdVars, btVars, ghosts>>

\* A live loop comes round before the next tick; three blinks last one tick,
\* and the wait for the release ends at its timeout.
TickDue ==
  /\ pc \in Boxed
  /\ \/ wedged \/ pc = "fatal"
     \/ /\ ~due
        /\ pc = "blink" => waited = 0
        /\ pc = "release" => waited < ReleaseTicks

Tick ==
  /\ TickDue
  /\ watchdog > 1
  /\ watchdog' = watchdog - 1
  /\ uptime' = IF uptime < UpDeadline THEN uptime + 1 ELSE uptime
  /\ due' = TRUE
  /\ waited' = IF pc \in {"blink", "release"} /\ waited < ReleaseTicks
                 THEN waited + 1 ELSE waited
  /\ UNCHANGED <<nvVars, envVars, pc, mode, target, wedged, btVars, ghosts, wedges>>

WatchdogFires ==
  /\ TickDue
  /\ watchdog = 1
  /\ asked' = None
  /\ Reset

Progress ==
  \/ Boot \/ FlashErase \/ FlashProgram \/ WatchdogReboot
  \/ AnnounceFeeds \/ BlinkEnd \/ ReleaseEnd
  \/ UsbPass \/ ChargerCheck \/ RadioUp \/ WatchdogTimer

Environment ==
  \/ PowerOn \/ PowerCut \/ Press \/ ButtonHeld
  \/ Fatal \/ Wedge
  \/ HciWorking \/ HciPowerOnFailed \/ HciDies
  \/ \E success \in BOOLEAN : ConnectionComplete(success)
  \/ StreamEstablished \/ DisconnectionComplete

Next == Progress \/ Environment \/ Tick \/ WatchdogFires

Spec == Init /\ [][Next]_vars

\* Time passes, and the processor executes; nothing else has to happen.
FairSpec == Spec /\ WF_vars(Progress) /\ WF_vars(Tick \/ WatchdogFires)

-----------------------------------------------------------------------------
(***************************************************************************)
(* Properties.                                                             *)
(***************************************************************************)

\* app_mode_current: "the one just requested if we got here via
\* app_mode_switch_to(), otherwise the last one stored in flash".  A request
\* is honoured, and honoured once: a crash, the end of a session or a power cut
\* afterwards comes back in the stored mode.
BootsAsAsked ==
  [][Boot => mode' = IF asked # None THEN asked ELSE ModeFromFlash]_vars

\* Whatever falls back, crashes or restarts, the mode of the next cold start is
\* the one the user last chose (unless the power went while it was written).
StoredModeIsTheUsers ==
  intended # None /\ pc \notin {"erase", "program"} => ModeFromFlash = intended

\* The comment on charger_check: "a charger gets Bluetooth either way", whatever
\* the stored mode, BOOTSEL and the ends of sessions do.
ChargerGetsBluetooth ==
  supply = "charger" /\ pc # "off"
    ~> mode = "BT_SINK" \/ pc \in {"off", "bootloader"}

\* README, Staying up: a hang, a fault or a controller that stops working
\* restarts the box.
Dead == pc \in Boxed /\ (wedged \/ pc = "fatal" \/ power_failed \/ hci = "dead")

DeadBoxRestarts == Dead ~> pc \in {"boot", "bootloader", "off"}

\* ... and nothing else does: a box whose loop comes round, and whose radio is
\* up or still has time to come up, is never reset by its own watchdog, not
\* while it blinks and waits for the button to be let go either.
OnlyDeadBoxesRestart ==
  [][WatchdogFires => \/ Dead \/ late
                      \/ mode = "BT_SINK" /\ hci = "init" /\ uptime = UpDeadline]_vars

\* bt.c: a fresh start after each listening session, "but only once the
\* source's link has actually gone": the box restarts exactly when the last
\* link goes after a stream.
RestartsWithLastLink ==
  [][DisconnectionComplete => (pc' # "run" <=> has_streamed /\ links = 1)]_vars
=============================================================================
