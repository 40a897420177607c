-------------------------- MODULE LifecycleProofs ---------------------------
(***************************************************************************)
(* Lifecycle's safety properties, proved for every length of the timeouts  *)
(* and every number of links.  The inductive invariant has three           *)
(* independent parts: where a request for a mode is, whether the count of  *)
(* links is right, and why the watchdog was last fed or not.               *)
(***************************************************************************)
EXTENDS Lifecycle, TLAPS

\* A request is in the scratch register from reboot_into until the next boot,
\* and only then.
RequestInv ==
  /\ pc = "off" => scratch = None /\ asked = None
  /\ pc = "boot" => scratch = asked
  /\ pc = "reboot" => scratch = target
  /\ pc \in Boxed \cup {"erase", "program"} => scratch = None

\* What is being written is what the user chose.
WriteInv ==
  /\ pc \in {"erase", "program", "reboot"} => target \in Modes
  /\ pc \in {"erase", "program"} => intended \in {target, None}
  /\ StoredModeIsTheUsers

\* The count is right as long as the controller tells.
LinksInv ==
  /\ hci # "dead" => acl_links = links
  /\ hci \notin {"working", "dead"} => links = 0

\* The controller's state says whether it was up.
RadioInv ==
  /\ pc \in {"off", "boot", "bootloader", "radio"} => hci = "off"
  /\ was_up => hci \in {"working", "dead"}
  /\ late => was_up
  /\ pc = "run" /\ mode = "BT_SINK" /\ hci = "off" => power_failed

\* Why a loop that came round may not have fed the watchdog.
Excuse ==
  \/ power_failed \/ hci = "dead" \/ late
  \/ mode = "BT_SINK" /\ hci = "init" /\ uptime = UpDeadline

FedInv ==
  /\ pc = "radio" => due
  /\ pc \in Boxed /\ pc # "fatal" /\ ~wedged /\ ~due =>
       watchdog = WatchdogTicks \/ Excuse

IInv == RequestInv /\ WriteInv /\ LinksInv /\ RadioInv /\ FedInv

-----------------------------------------------------------------------------
LEMMA NextModeType == NextMode \in Modes
<1>1. \E m \in Modes : m # mode
  BY DEF Modes
<1> QED
  BY <1>1 DEF NextMode

LEMMA Ranges ==
  /\ 0 \in 0 .. WatchdogTicks /\ 1 \in 0 .. WatchdogTicks
  /\ WatchdogTicks \in 0 .. WatchdogTicks
  /\ 0 \in 0 .. UpDeadline /\ 0 \in 0 .. ReleaseTicks
  /\ 0 \in 0 .. MaxLinks /\ 0 \in 0 .. MaxWedges
  BY TicksAssumption, BoundsAssumption

LEMMA MoreWedges ==
  ASSUME wedges \in 0 .. MaxWedges, wedges < MaxWedges
  PROVE  wedges + 1 \in 0 .. MaxWedges
  BY BoundsAssumption

LEMMA LinkCount ==
  ASSUME NEW k \in 0 .. MaxLinks
  PROVE  /\ k < MaxLinks => k + 1 \in 0 .. MaxLinks
         /\ k > 0 => k - 1 \in 0 .. MaxLinks
  BY BoundsAssumption

LEMMA Ticking ==
  ASSUME TypeOK
  PROVE  /\ watchdog > 1 => watchdog - 1 \in 0 .. WatchdogTicks
         /\ uptime < UpDeadline => uptime + 1 \in 0 .. UpDeadline
         /\ waited < ReleaseTicks => waited + 1 \in 0 .. ReleaseTicks
  BY TicksAssumption DEF TypeOK

LEMMA TypeInit == Init => TypeOK /\ IInv
<1> USE Ranges, SuppliesAssumption
<1> SUFFICES ASSUME Init PROVE TypeOK /\ IInv
  OBVIOUS
<1>1. TypeOK
  BY DEF Init, TypeOK, Modes, None
<1>2. IInv
  BY DEF Init, IInv, RequestInv, WriteInv, LinksInv, RadioInv, FedInv, Boxed,
         StoredModeIsTheUsers, ModeFromFlash, Modes, None
<1> QED
  BY <1>1, <1>2

-----------------------------------------------------------------------------
(***************************************************************************)
(* Steps other than resets, one lemma per part of the invariant.           *)
(***************************************************************************)
LEMMA TypeStep ==
  ASSUME TypeOK, IInv, [Next]_vars
  PROVE  TypeOK'
<1> USE NextModeType, Ranges, SuppliesAssumption
    DEF TypeOK, nvVars, envVars, swVars, wdVars, btVars, ghosts, None, Boxed
<1>1. CASE PowerOn
  BY <1>1 DEF PowerOn
<1>2. CASE PowerCut
  BY <1>2 DEF PowerCut, ClearRam
<1>3. CASE Press
  BY <1>3 DEF Press
<1>4. CASE ButtonHeld
  BY <1>4 DEF ButtonHeld
<1>5. CASE Boot
  BY <1>5 DEF Boot, ConsumeRequest, ModeFromFlash, Modes
<1>6. CASE FlashErase
  BY <1>6 DEF FlashErase
<1>7. CASE FlashProgram
  BY <1>7 DEF FlashProgram, RebootInto
<1>8. CASE WatchdogReboot
  BY <1>8 DEF WatchdogReboot, Reset, ClearRam
<1>9. CASE AnnounceFeeds
  <2>1. watchdog' \in 0 .. WatchdogTicks /\ due' \in BOOLEAN
    BY <1>9 DEF AnnounceFeeds
  <2>2. UNCHANGED <<nvVars, envVars, pc, mode, swVars, uptime, wedged, btVars,
                    ghosts, wedges>>
    BY <1>9 DEF AnnounceFeeds
  <2> QED
    BY <2>1, <2>2
<1>10. CASE BlinkEnd
  BY <1>10 DEF BlinkEnd
<1>11. CASE ReleaseEnd
  BY <1>11 DEF ReleaseEnd, SwitchTo, RebootInto
<1>12. CASE UsbPass
  <2>1. watchdog' \in 0 .. WatchdogTicks /\ due' \in BOOLEAN
    BY <1>12 DEF UsbPass
  <2>2. UNCHANGED <<nvVars, envVars, pc, mode, swVars, uptime, wedged, btVars,
                    ghosts, wedges>>
    BY <1>12 DEF UsbPass
  <2> QED
    BY <2>1, <2>2
<1>13. CASE WatchdogTimer
  <2>1. watchdog' \in 0 .. WatchdogTicks /\ due' \in BOOLEAN
    BY <1>13 DEF WatchdogTimer
  <2>2. UNCHANGED <<nvVars, envVars, pc, mode, swVars, uptime, wedged, btVars,
                    ghosts, wedges>>
    BY <1>13 DEF WatchdogTimer
  <2> QED
    BY <2>1, <2>2
<1>14. CASE ChargerCheck
  BY <1>14 DEF ChargerCheck, BootOnce, RebootInto, Modes
<1>15. CASE RadioUp
  <2>1. CASE power_failed' = power_failed /\ wedges' = wedges /\ hci' = "init"
    BY <1>15, <2>1 DEF RadioUp
  <2>2. CASE /\ wedges < MaxWedges /\ wedges' = wedges + 1
             /\ power_failed' = TRUE /\ hci' = hci
    BY <1>15, <2>2, MoreWedges DEF RadioUp
  <2> QED
    BY <1>15, <2>1, <2>2 DEF RadioUp
<1>16. CASE Fatal
  BY <1>16, MoreWedges DEF Fatal
<1>17. CASE Wedge
  BY <1>17, MoreWedges DEF Wedge
<1>18. CASE HciWorking
  BY <1>18 DEF HciWorking
<1>19. CASE HciPowerOnFailed
  BY <1>19, MoreWedges DEF HciPowerOnFailed
<1>20. CASE HciDies
  BY <1>20, MoreWedges DEF HciDies
<1>21. CASE StreamEstablished
  BY <1>21 DEF StreamEstablished
<1>22. CASE DisconnectionComplete
  <2>1. links - 1 \in 0 .. MaxLinks
    BY <1>22, LinkCount DEF DisconnectionComplete
  <2>2. acl_links > 0 => acl_links - 1 \in 0 .. MaxLinks
    BY LinkCount
  <2>3. CASE acl_links <= 1 /\ has_streamed
    BY <1>22, <2>3 DEF DisconnectionComplete, Reset, ClearRam
  <2>4. CASE ~(acl_links <= 1 /\ has_streamed)
    BY <1>22, <2>1, <2>2, <2>4 DEF DisconnectionComplete
  <2> QED
    BY <2>3, <2>4
<1>23. CASE Tick
  BY <1>23, Ticking DEF Tick
<1>24. CASE WatchdogFires
  BY <1>24 DEF WatchdogFires, Reset, ClearRam
<1>25. ASSUME NEW success \in BOOLEAN, ConnectionComplete(success)
      PROVE  TypeOK'
  BY <1>25, LinkCount DEF ConnectionComplete, LinksAfter, IInv, LinksInv
<1>26. CASE UNCHANGED vars
  BY <1>26 DEF vars
<1> QED
  BY <1>1, <1>2, <1>3, <1>4, <1>5, <1>6, <1>7, <1>8, <1>9, <1>10, <1>11, <1>12, <1>13, <1>14, <1>15, <1>16, <1>17, <1>18, <1>19, <1>20, <1>21, <1>22, <1>23, <1>24, <1>25, <1>26
     DEF Next, Progress, Environment
LEMMA RequestStep ==
  ASSUME TypeOK, IInv, [Next]_vars
  PROVE  RequestInv'
<1> USE DEF TypeOK, IInv, RequestInv, Alive, BtRuns, TickDue, nvVars, envVars, swVars, wdVars, btVars,
        ghosts, Boxed
<1>1. CASE PowerOn
  BY <1>1 DEF PowerOn
<1>2. CASE PowerCut
  BY <1>2 DEF PowerCut, ClearRam
<1>3. CASE Press \/ ButtonHeld \/ AnnounceFeeds \/ BlinkEnd
  BY <1>3 DEF Press, ButtonHeld, AnnounceFeeds, BlinkEnd
<1>4. CASE Boot
  BY <1>4 DEF Boot, ConsumeRequest
<1>5. CASE FlashErase
  BY <1>5 DEF FlashErase
<1>6. CASE FlashProgram
  BY <1>6 DEF FlashProgram, RebootInto
<1>7. CASE WatchdogReboot \/ WatchdogFires
  BY <1>7 DEF WatchdogReboot, WatchdogFires, Reset, ClearRam
<1>8. CASE ReleaseEnd
  BY <1>8 DEF ReleaseEnd, SwitchTo, RebootInto
<1>9. CASE UsbPass \/ Fatal \/ Wedge
  BY <1>9 DEF UsbPass, Fatal, Wedge
<1>10. CASE WatchdogTimer
  BY <1>10 DEF WatchdogTimer
<1>11. CASE RadioUp
  BY <1>11 DEF RadioUp
<1>12. CASE ChargerCheck
  BY <1>12 DEF ChargerCheck, BootOnce, RebootInto
<1>13. CASE HciWorking \/ HciPowerOnFailed
  BY <1>13 DEF HciWorking, HciPowerOnFailed
<1>14. CASE HciDies \/ StreamEstablished
  BY <1>14 DEF HciDies, StreamEstablished
<1>15. ASSUME NEW success \in BOOLEAN, ConnectionComplete(success)
      PROVE  RequestInv'
  BY <1>15 DEF ConnectionComplete
<1>16. CASE DisconnectionComplete
  BY <1>16 DEF DisconnectionComplete, Reset, ClearRam
<1>17. CASE Tick
  BY <1>17 DEF Tick
<1>18. CASE UNCHANGED vars
  BY <1>18 DEF vars
<1> QED
  BY <1>1, <1>2, <1>3, <1>4, <1>5, <1>6, <1>7, <1>8, <1>9, <1>10, <1>11,
     <1>12, <1>13, <1>14, <1>15, <1>16, <1>17, <1>18
     DEF Next, Progress, Environment

LEMMA WriteStep ==
  ASSUME TypeOK, IInv, [Next]_vars
  PROVE  WriteInv'
<1> USE NextModeType
    DEF TypeOK, IInv, WriteInv, StoredModeIsTheUsers, ModeFromFlash, Modes, None,
        Alive, BtRuns, TickDue, nvVars, envVars, swVars, wdVars, btVars,
        ghosts, Boxed
<1>1. CASE PowerOn
  BY <1>1 DEF PowerOn
<1>2. CASE PowerCut
  BY <1>2 DEF PowerCut, ClearRam
<1>3. CASE Press \/ ButtonHeld \/ AnnounceFeeds \/ BlinkEnd
  BY <1>3 DEF Press, ButtonHeld, AnnounceFeeds, BlinkEnd
<1>4. CASE Boot
  BY <1>4 DEF Boot, ConsumeRequest
<1>5. CASE FlashErase
  BY <1>5 DEF FlashErase
<1>6. CASE FlashProgram
  BY <1>6 DEF FlashProgram, RebootInto
<1>7. CASE WatchdogReboot \/ WatchdogFires
  BY <1>7 DEF WatchdogReboot, WatchdogFires, Reset, ClearRam
<1>8. CASE ReleaseEnd
  BY <1>8 DEF ReleaseEnd, SwitchTo, RebootInto
<1>9. CASE UsbPass \/ Fatal \/ Wedge
  BY <1>9 DEF UsbPass, Fatal, Wedge
<1>10. CASE WatchdogTimer
  BY <1>10 DEF WatchdogTimer
<1>11. CASE RadioUp
  BY <1>11 DEF RadioUp
<1>12. CASE ChargerCheck
  BY <1>12 DEF ChargerCheck, BootOnce, RebootInto
<1>13. CASE HciWorking \/ HciPowerOnFailed
  BY <1>13 DEF HciWorking, HciPowerOnFailed
<1>14. CASE HciDies \/ StreamEstablished
  BY <1>14 DEF HciDies, StreamEstablished
<1>15. ASSUME NEW success \in BOOLEAN, ConnectionComplete(success)
      PROVE  WriteInv'
  BY <1>15 DEF ConnectionComplete
<1>16. CASE DisconnectionComplete
  BY <1>16 DEF DisconnectionComplete, Reset, ClearRam
<1>17. CASE Tick
  BY <1>17 DEF Tick
<1>18. CASE UNCHANGED vars
  BY <1>18 DEF vars
<1> QED
  BY <1>1, <1>2, <1>3, <1>4, <1>5, <1>6, <1>7, <1>8, <1>9, <1>10, <1>11,
     <1>12, <1>13, <1>14, <1>15, <1>16, <1>17, <1>18
     DEF Next, Progress, Environment

LEMMA LinksStep ==
  ASSUME TypeOK, IInv, [Next]_vars
  PROVE  LinksInv'
<1> USE DEF TypeOK, IInv, LinksInv, RadioInv, LinksAfter, BtRuns, nvVars, envVars, swVars, wdVars, btVars,
        ghosts, Boxed
<1>1. CASE PowerOn
  BY <1>1 DEF PowerOn
<1>2. CASE PowerCut
  BY <1>2 DEF PowerCut, ClearRam
<1>3. CASE Press \/ ButtonHeld \/ AnnounceFeeds \/ BlinkEnd
  BY <1>3 DEF Press, ButtonHeld, AnnounceFeeds, BlinkEnd
<1>4. CASE Boot
  BY <1>4 DEF Boot
<1>5. CASE FlashErase
  BY <1>5 DEF FlashErase
<1>6. CASE FlashProgram
  BY <1>6 DEF FlashProgram
<1>7. CASE WatchdogReboot \/ WatchdogFires
  BY <1>7 DEF WatchdogReboot, WatchdogFires, Reset, ClearRam
<1>8. CASE ReleaseEnd
  BY <1>8 DEF ReleaseEnd
<1>9. CASE UsbPass \/ Fatal \/ Wedge
  BY <1>9 DEF UsbPass, Fatal, Wedge
<1>10. CASE WatchdogTimer
  BY <1>10 DEF WatchdogTimer
<1>11. CASE RadioUp
  BY <1>11 DEF RadioUp
<1>12. CASE ChargerCheck
  BY <1>12 DEF ChargerCheck
<1>13. CASE HciWorking \/ HciPowerOnFailed
  BY <1>13 DEF HciWorking, HciPowerOnFailed
<1>14. CASE HciDies \/ StreamEstablished
  BY <1>14 DEF HciDies, StreamEstablished
<1>15. ASSUME NEW success \in BOOLEAN, ConnectionComplete(success)
      PROVE  LinksInv'
  BY <1>15 DEF ConnectionComplete
<1>16. CASE DisconnectionComplete
  BY <1>16 DEF DisconnectionComplete, Reset, ClearRam
<1>17. CASE Tick
  BY <1>17 DEF Tick
<1>18. CASE UNCHANGED vars
  BY <1>18 DEF vars
<1> QED
  BY <1>1, <1>2, <1>3, <1>4, <1>5, <1>6, <1>7, <1>8, <1>9, <1>10, <1>11,
     <1>12, <1>13, <1>14, <1>15, <1>16, <1>17, <1>18
     DEF Next, Progress, Environment

LEMMA RadioStep ==
  ASSUME TypeOK, IInv, [Next]_vars
  PROVE  RadioInv'
<1> USE DEF TypeOK, IInv, RadioInv, BtRuns, Modes, None, nvVars, envVars, swVars, wdVars, btVars,
        ghosts, Boxed
<1>1. CASE PowerOn
  BY <1>1 DEF PowerOn
<1>2. CASE PowerCut
  BY <1>2 DEF PowerCut, ClearRam
<1>3. CASE Press \/ ButtonHeld \/ AnnounceFeeds \/ BlinkEnd
  BY <1>3 DEF Press, ButtonHeld, AnnounceFeeds, BlinkEnd
<1>4. CASE Boot
  BY <1>4 DEF Boot, ConsumeRequest
<1>5. CASE FlashErase
  BY <1>5 DEF FlashErase
<1>6. CASE FlashProgram
  BY <1>6 DEF FlashProgram, RebootInto
<1>7. CASE WatchdogReboot \/ WatchdogFires
  BY <1>7 DEF WatchdogReboot, WatchdogFires, Reset, ClearRam
<1>8. CASE ReleaseEnd
  BY <1>8 DEF ReleaseEnd, SwitchTo, RebootInto
<1>9. CASE UsbPass \/ Fatal \/ Wedge
  BY <1>9 DEF UsbPass, Fatal, Wedge
<1>10. CASE WatchdogTimer
  BY <1>10 DEF WatchdogTimer
<1>11. CASE RadioUp
  BY <1>11 DEF RadioUp
<1>12. CASE ChargerCheck
  BY <1>12 DEF ChargerCheck, BootOnce, RebootInto
<1>13. CASE HciWorking \/ HciPowerOnFailed
  BY <1>13 DEF HciWorking, HciPowerOnFailed
<1>14. CASE HciDies \/ StreamEstablished
  BY <1>14 DEF HciDies, StreamEstablished
<1>15. ASSUME NEW success \in BOOLEAN, ConnectionComplete(success)
      PROVE  RadioInv'
  BY <1>15 DEF ConnectionComplete
<1>16. CASE DisconnectionComplete
  BY <1>16 DEF DisconnectionComplete, Reset, ClearRam
<1>17. CASE Tick
  BY <1>17 DEF Tick
<1>18. CASE UNCHANGED vars
  BY <1>18 DEF vars
<1> QED
  BY <1>1, <1>2, <1>3, <1>4, <1>5, <1>6, <1>7, <1>8, <1>9, <1>10, <1>11,
     <1>12, <1>13, <1>14, <1>15, <1>16, <1>17, <1>18
     DEF Next, Progress, Environment

LEMMA FedStep ==
  ASSUME TypeOK, IInv, [Next]_vars
  PROVE  FedInv'
<1> USE DEF TypeOK, IInv, RadioInv, FedInv, Excuse, BtHealthy, BtRuns, Alive, TickDue,
        Modes, None, nvVars, envVars, swVars, wdVars, btVars,
        ghosts, Boxed
<1>1. CASE PowerOn
  BY <1>1 DEF PowerOn
<1>2. CASE PowerCut
  BY <1>2 DEF PowerCut, ClearRam
<1>3. CASE Press \/ ButtonHeld \/ AnnounceFeeds \/ BlinkEnd
  BY <1>3 DEF Press, ButtonHeld, AnnounceFeeds, BlinkEnd
<1>4. CASE Boot
  BY <1>4 DEF Boot, ConsumeRequest
<1>5. CASE FlashErase
  BY <1>5 DEF FlashErase
<1>6. CASE FlashProgram
  BY <1>6 DEF FlashProgram, RebootInto
<1>7. CASE WatchdogReboot \/ WatchdogFires
  BY <1>7 DEF WatchdogReboot, WatchdogFires, Reset, ClearRam
<1>8. CASE ReleaseEnd
  BY <1>8 DEF ReleaseEnd, SwitchTo, RebootInto
<1>9. CASE UsbPass \/ Fatal \/ Wedge
  BY <1>9 DEF UsbPass, Fatal, Wedge
<1>10. CASE WatchdogTimer
  <2>1. CASE BtHealthy
    BY <1>10, <2>1 DEF WatchdogTimer
  <2>2. CASE ~BtHealthy
    <3>1. ~(uptime < UpDeadline) => uptime = UpDeadline
      BY TicksAssumption
    <3>2. Excuse
      BY <1>10, <2>2, <3>1 DEF WatchdogTimer
    <3> QED
      BY <1>10, <2>2, <3>2 DEF WatchdogTimer
  <2> QED
    BY <2>1, <2>2
<1>11. CASE RadioUp
  BY <1>11 DEF RadioUp
<1>12. CASE ChargerCheck
  BY <1>12 DEF ChargerCheck, BootOnce, RebootInto
<1>13. CASE HciWorking \/ HciPowerOnFailed
  BY <1>13 DEF HciWorking, HciPowerOnFailed
<1>14. CASE HciDies \/ StreamEstablished
  BY <1>14 DEF HciDies, StreamEstablished
<1>15. ASSUME NEW success \in BOOLEAN, ConnectionComplete(success)
      PROVE  FedInv'
  BY <1>15 DEF ConnectionComplete
<1>16. CASE DisconnectionComplete
  BY <1>16 DEF DisconnectionComplete, Reset, ClearRam
<1>17. CASE Tick
  BY <1>17 DEF Tick
<1>18. CASE UNCHANGED vars
  BY <1>18 DEF vars
<1> QED
  BY <1>1, <1>2, <1>3, <1>4, <1>5, <1>6, <1>7, <1>8, <1>9, <1>10, <1>11,
     <1>12, <1>13, <1>14, <1>15, <1>16, <1>17, <1>18
     DEF Next, Progress, Environment

-----------------------------------------------------------------------------
\* The strengthening every theorem below rests on.
THEOREM LifecycleInductive == Spec => [](TypeOK /\ IInv)
<1>1. TypeOK /\ IInv /\ [Next]_vars => TypeOK' /\ IInv'
  BY TypeStep, RequestStep, WriteStep, LinksStep, RadioStep, FedStep DEF IInv
<1> QED
  BY <1>1, TypeInit, PTL DEF Spec

\* Every variable keeps its type: the counts of links and of ticks stay
\* within their bounds.
THEOREM LifecycleTypeCorrect == Spec => []TypeOK
  BY LifecycleInductive, PTL

\* app_mode_boot_once and charger_check: nothing but the user's choice
\* decides the mode of the next cold start.
THEOREM StoredModeKept == Spec => []StoredModeIsTheUsers
<1>1. IInv => StoredModeIsTheUsers
  BY DEF IInv, WriteInv
<1> QED
  BY <1>1, LifecycleInductive, PTL

\* app_mode_current: a boot honours the request it was reset for, and a boot
\* that was not asked for anything comes up in the stored mode.
THEOREM RequestsHonouredOnce == Spec => BootsAsAsked
<1>1. IInv /\ Boot => mode' = IF asked # None THEN asked ELSE ModeFromFlash
  BY DEF IInv, RequestInv, Boot
<1> QED
  BY <1>1, LifecycleInductive, PTL DEF BootsAsAsked

\* main.c, mode_button.c: the watchdog only ever fires on a box that hangs,
\* or whose controller is down or came up too late.
THEOREM LiveBoxesRunOn == Spec => OnlyDeadBoxesRestart
<1>1. ASSUME TypeOK, IInv, WatchdogFires
      PROVE  \/ Dead \/ late
             \/ mode = "BT_SINK" /\ hci = "init" /\ uptime = UpDeadline
  <2>1. WatchdogTicks # 1
    BY TicksAssumption
  <2> QED
    BY <1>1, <2>1 DEF IInv, FedInv, Excuse, Dead, WatchdogFires, TickDue, TypeOK
<1>2. TypeOK /\ IInv =>
        (WatchdogFires => \/ Dead \/ late
                          \/ mode = "BT_SINK" /\ hci = "init" /\ uptime = UpDeadline)
  BY <1>1
<1> QED
  BY <1>2, LifecycleInductive, PTL DEF OnlyDeadBoxesRestart

\* bt.c, packet_handler: the restart after a session comes with the last link,
\* neither earlier, on a live source, nor never.
THEOREM RestartIsWithLastLink == Spec => RestartsWithLastLink
<1>1. ASSUME TypeOK, IInv, DisconnectionComplete
      PROVE  pc' # "run" <=> has_streamed /\ links = 1
  <2>1. acl_links = links /\ links > 0
    BY <1>1 DEF IInv, LinksInv, DisconnectionComplete
  <2>2. acl_links <= 1 <=> links = 1
    BY <1>1, <2>1, BoundsAssumption DEF TypeOK
  <2> QED
    BY <1>1, <2>2 DEF DisconnectionComplete, BtRuns, Reset
<1>2. TypeOK /\ IInv =>
        (DisconnectionComplete => (pc' # "run" <=> has_streamed /\ links = 1))
  BY <1>1
<1> QED
  BY <1>2, LifecycleInductive, PTL DEF RestartsWithLastLink

-----------------------------------------------------------------------------
(***************************************************************************)
(* The safety half of DeadBoxRestarts: how long a dead box can stay up.    *)
(* The watchdog counts down, unless mode_button.c is announcing a switch:  *)
(* that loop feeds it, radio or not, but it is left for a reboot once the  *)
(* button was let go or held for too long.                                 *)
(***************************************************************************)
Remaining ==
  IF wedged \/ pc = "fatal" THEN watchdog
  ELSE IF pc = "blink" THEN WatchdogTicks + ReleaseTicks + 1 - waited
  ELSE IF pc = "release" THEN WatchdogTicks + ReleaseTicks - waited
  ELSE watchdog + WatchdogTicks + ReleaseTicks + 1

\* A dead box either leaves its program or stays dead, with no more time left than
\* before, and less after each tick.
DeadStep ==
  Dead => \/ pc' \notin Boxed
          \/ Dead' /\ Remaining' <= Remaining /\ (Tick => Remaining' < Remaining)

\* The radio is only up or failed in its own mode, and a controller that was lost was
\* up once, so that bt_healthy does not take it for one that is still to come up.
CountInv ==
  /\ pc \in Boxed => watchdog > 0
  /\ pc = "blink" /\ ~wedged => waited <= 1
  /\ pc = "radio" => mode = "BT_SINK"
  /\ hci # "off" \/ power_failed =>
       mode = "BT_SINK" /\ pc \notin {"off", "boot", "bootloader", "radio"}
  /\ hci \in {"working", "dead"} => was_up

LEMMA CountStart == Init => CountInv
BY DEF Init, CountInv, Boxed

LEMMA CountStep ==
  ASSUME TypeOK, IInv, CountInv, [Next]_vars
  PROVE  CountInv' /\ DeadStep
<1> USE TicksAssumption DEF TypeOK, CountInv, DeadStep, Dead, Remaining, BtHealthy, BtRuns,
        Alive, TickDue, Modes, None, nvVars, envVars, swVars, wdVars, btVars, ghosts, Boxed
<1>1. CASE PowerOn
  BY <1>1 DEF PowerOn
<1>2. CASE PowerCut
  BY <1>2 DEF PowerCut, ClearRam
<1>3. CASE Press \/ ButtonHeld
  BY <1>3 DEF Press, ButtonHeld, Tick
<1>4. CASE AnnounceFeeds \/ BlinkEnd
  BY <1>4 DEF AnnounceFeeds, BlinkEnd, Tick
<1>5. CASE Boot
  <2>1. mode' \in Modes
    BY <1>5 DEF Boot, ModeFromFlash
  <2>2. /\ pc = "boot" /\ pc' = IF mode' = "USB_DAC" THEN "run" ELSE "radio"
        /\ watchdog' = WatchdogTicks
        /\ UNCHANGED <<waited, wedged, hci, was_up, power_failed>>
    BY <1>5 DEF Boot
  <2>3. hci = "off" /\ ~power_failed
    BY <2>2
  <2> QED
    BY <2>1, <2>2, <2>3
<1>6. CASE FlashErase \/ FlashProgram
  BY <1>6 DEF FlashErase, FlashProgram, RebootInto
<1>7. CASE WatchdogReboot \/ WatchdogFires
  BY <1>7 DEF WatchdogReboot, WatchdogFires, Reset, ClearRam
<1>8. CASE ReleaseEnd
  BY <1>8 DEF ReleaseEnd, SwitchTo, RebootInto
<1>9. CASE UsbPass
  BY <1>9 DEF UsbPass, Tick
<1>10. CASE Fatal \/ Wedge
  BY <1>10 DEF Fatal, Wedge, Tick
<1>11. CASE WatchdogTimer
  BY <1>11 DEF WatchdogTimer, Tick
<1>12. CASE RadioUp
  BY <1>12 DEF RadioUp, Tick
<1>13. CASE ChargerCheck
  BY <1>13 DEF ChargerCheck, BootOnce, RebootInto
<1>14. CASE HciWorking \/ HciPowerOnFailed
  BY <1>14 DEF HciWorking, HciPowerOnFailed, Tick
<1>15. CASE HciDies \/ StreamEstablished
  BY <1>15 DEF HciDies, StreamEstablished, Tick
<1>16. ASSUME NEW success \in BOOLEAN, ConnectionComplete(success)
       PROVE  CountInv' /\ DeadStep
  BY <1>16 DEF ConnectionComplete, Tick
<1>17. CASE DisconnectionComplete
  <2>1. CASE acl_links <= 1 /\ has_streamed
    BY <1>17, <2>1 DEF DisconnectionComplete, Reset, ClearRam
  <2>2. CASE ~(acl_links <= 1 /\ has_streamed)
    <3>1. UNCHANGED <<pc, mode, waited, watchdog, wedged, hci, was_up, power_failed>>
      BY <1>17, <2>2 DEF DisconnectionComplete
    <3>2. Tick => watchdog' = watchdog - 1
      BY DEF Tick
    <3> QED
      BY <3>1, <3>2
  <2> QED
    BY <2>1, <2>2
<1>18. CASE Tick
  BY <1>18 DEF Tick
<1>19. CASE UNCHANGED vars
  BY <1>19 DEF vars, Tick
<1> QED
  BY <1>1, <1>2, <1>3, <1>4, <1>5, <1>6, <1>7, <1>8, <1>9, <1>10, <1>11, <1>12,
     <1>13, <1>14, <1>15, <1>16, <1>17, <1>18, <1>19
     DEF Next, Progress, Environment

\* README, Staying up: a box that hangs, faults or loses its controller stays up for a
\* bounded time, whatever else happens: nothing but an announced switch of mode feeds
\* the watchdog of a dead box, and that once.
THEOREM DeadBoxesTimeIsCounted ==
  Spec => /\ [](Dead => Remaining \in 1 .. 2 * WatchdogTicks + ReleaseTicks + 1)
          /\ [][DeadStep]_vars
<1>1. TypeOK /\ CountInv => (Dead => Remaining \in 1 .. 2 * WatchdogTicks + ReleaseTicks + 1)
  BY TicksAssumption DEF TypeOK, CountInv, Dead, Remaining, Boxed
<1>2. TypeOK /\ IInv /\ CountInv /\ [Next]_vars => CountInv' /\ [DeadStep]_vars
  BY CountStep
<1> QED
  BY <1>1, <1>2, CountStart, LifecycleInductive, PTL DEF Spec
=============================================================================
