-------------------------- MODULE SafetyCore_proofs --------------------------
(***************************************************************************)
(* Type correctness and safety of SafetyCore, for every set of fault       *)
(* codes, commands, interlock outcomes and slopes and for every setting of *)
(* its switches.                                                           *)
(*                                                                         *)
(* The safety invariant is four parts, each about the main thread's place  *)
(* in the program and what may be true there.  Every other thread leaves   *)
(* all four alone (OtherThreads); so do the main thread's steps outside a  *)
(* start and a shutdown (PlainSteps); what is left are the steps of        *)
(* mow_start, the two that end a session, and the shutdown.                *)
(***************************************************************************)
EXTENDS SafetyCore, TLAPS

-----------------------------------------------------------------------------
(* Moving one thread.                                                      *)

(***************************************************************************)
(* Moving the main thread to one of its labels.                            *)
(***************************************************************************)
LEMMA GoToMain ==
  ASSUME NEW label \in MainLabels, pc \in Labels, GoTo("main", label)
  PROVE  pc' \in Labels /\ pc'["main"] = label
BY DEF Labels, GoTo

(***************************************************************************)
(* Moving the watchdog thread to one of its labels.                        *)
(***************************************************************************)
LEMMA GoToWatchdog ==
  ASSUME pc \in Labels,
         NEW label \in {"idle", "pico_latch", "pico_report", "compute",
                        "compute_latch", "compute_report"},
         GoTo("watchdog", label)
  PROVE  pc' \in Labels /\ pc'["main"] = pc["main"]
BY DEF Labels, GoTo

(***************************************************************************)
(* Moving the mode poll thread to one of its labels.                       *)
(***************************************************************************)
LEMMA GoToPoll ==
  ASSUME pc \in Labels, NEW label \in {"idle", "faults", "estop"},
         GoTo("poll", label)
  PROVE  pc' \in Labels /\ pc'["main"] = pc["main"]
BY DEF Labels, GoTo

(***************************************************************************)
(* Moving the switch thread to one of its labels.                          *)
(***************************************************************************)
LEMMA GoToSwitch ==
  ASSUME pc \in Labels, NEW label \in {"idle", "check", "manual"},
         GoTo("switch", label)
  PROVE  pc' \in Labels /\ pc'["main"] = pc["main"]
BY DEF Labels, GoTo

(***************************************************************************)
(* Moving the stream thread to one of its labels.                          *)
(***************************************************************************)
LEMMA GoToStream ==
  ASSUME pc \in Labels, NEW label \in {"live", "unclaim", "stop", "ended"},
         GoTo("stream", label)
  PROVE  pc' \in Labels /\ pc'["main"] = pc["main"]
BY DEF Labels, GoTo

(***************************************************************************)
(* report_fault() keeps the registry well typed, whichever code and        *)
(* severity it is given.                                                   *)
(***************************************************************************)
LEMMA ReportKeepsType ==
  ASSUME NEW c \in FaultCodes, NEW s \in Severities,
         FaultTypeOK, ReportFault(c, s)
  PROVE  FaultTypeOK'
BY DEF FaultTypeOK, ReportFault, Active, FaultRecord, NoFault

(***************************************************************************)
(* clear_fault() keeps the registry well typed.                            *)
(***************************************************************************)
LEMMA ClearKeepsType ==
  ASSUME NEW c \in FaultCodes, FaultTypeOK, ClearFault(c)
  PROVE  FaultTypeOK'
BY DEF FaultTypeOK, ClearFault, FaultRecord, NoFault

(***************************************************************************)
(* enforce_slope() answers with a level and one of the three actions.      *)
(***************************************************************************)
LEMMA EnforceSlopeResult ==
  ASSUME NEW level \in SlopeLevels, NEW band \in SlopeBands, NEW currentMode
  PROVE  /\ EnforceSlope(level, band, currentMode).level \in SlopeLevels
         /\ EnforceSlope(level, band, currentMode).action \in {"NONE", "HOLD", "ESTOP"}
BY DEF EnforceSlope, SlopeBands, SlopeLevels

-----------------------------------------------------------------------------
(* Type correctness, one lemma per kind of step.                           *)

(***************************************************************************)
(* A mode transition to a mode of OperatingMode.                           *)
(***************************************************************************)
LEMMA SetModeType ==
  ASSUME TypeOK, NEW from, NEW newMode \in OperatingMode, NEW to,
         NEW t, SetMode(t, from, newMode, to), pc' \in Labels
  PROVE  TypeOK'
BY DEF TypeOK, SetMode, TransitionTo, ModeTypeOK, FaultTypeOK, LatchTypeOK,
       SessionTypeOK, coreVars, sessionVars

(***************************************************************************)
(* A step that only moves a thread.                                        *)
(***************************************************************************)
LEMMA FrameType ==
  ASSUME TypeOK, pc' \in Labels,
         UNCHANGED <<records, triggered, modeVars, sessionVars, coreVars>>
  PROVE  TypeOK'
BY DEF TypeOK, ModeTypeOK, FaultTypeOK, LatchTypeOK, SessionTypeOK, modeVars,
       coreVars, sessionVars

(***************************************************************************)
(* The first half of EStop.trigger(), from any thread.                     *)
(***************************************************************************)
LEMMA TriggerType ==
  ASSUME TypeOK, NEW t, NEW from, NEW report, NEW return,
         CallTrigger(t, from, report, return), pc' \in Labels
  PROVE  TypeOK'
BY DEF TypeOK, CallTrigger, SetLatch, ModeTypeOK, FaultTypeOK, LatchTypeOK,
       SessionTypeOK, modeVars, coreVars, sessionVars

(***************************************************************************)
(* The second half of EStop.trigger(), from any thread.                    *)
(***************************************************************************)
LEMMA ReportType ==
  ASSUME TypeOK, NEW t, NEW from, NEW return,
         CallReport(t, from, return), pc' \in Labels
  PROVE  TypeOK'
<1>1. FaultTypeOK'
  BY ReportKeepsType, EStopCodeAssumption
     DEF TypeOK, CallReport, ReportLatchFault, Severities
<1> QED
  BY <1>1 DEF TypeOK, CallReport, ModeTypeOK, LatchTypeOK, SessionTypeOK,
              modeVars, coreVars, sessionVars

(***************************************************************************)
(* A step that changes only the mowing session and the relays.             *)
(***************************************************************************)
LEMMA SessionStepType ==
  ASSUME TypeOK, pc' \in Labels, SessionTypeOK',
         UNCHANGED <<records, triggered, modeVars, coreVars>>
  PROVE  TypeOK'
BY DEF TypeOK, ModeTypeOK, FaultTypeOK, LatchTypeOK, modeVars, coreVars

(***************************************************************************)
(* A step that changes only the fault registry.                            *)
(***************************************************************************)
LEMMA RegistryStepType ==
  ASSUME TypeOK, pc' \in Labels, FaultTypeOK',
         UNCHANGED <<triggered, modeVars, sessionVars, coreVars>>
  PROVE  TypeOK'
BY DEF TypeOK, ModeTypeOK, LatchTypeOK, SessionTypeOK, modeVars, coreVars,
       sessionVars

(***************************************************************************)
(* A step that changes neither the registry, the latch, the mode nor the   *)
(* session, and gives the variables of this module values of their type.   *)
(***************************************************************************)
LEMMA CoreStepType ==
  ASSUME TypeOK, pc' \in Labels,
         running' \in BOOLEAN, daemons' \in BOOLEAN, kickStale' \in BOOLEAN,
         picoAlive' \in BOOLEAN, slope' \in SlopeBands,
         slopeLevel' \in SlopeLevels, sessionOpen' \in BOOLEAN,
         claimed' \in BOOLEAN, SessionTypeOK',
         UNCHANGED <<records, triggered, modeVars>>
  PROVE  TypeOK'
BY DEF TypeOK, ModeTypeOK, FaultTypeOK, LatchTypeOK, modeVars

(***************************************************************************)
(* boot(), run() and the slope enforcement of each iteration.              *)
(***************************************************************************)
LEMMA MainLoopType == TypeOK /\ MainLoop => TypeOK'
<1> SUFFICES ASSUME TypeOK, MainLoop PROVE TypeOK'
  OBVIOUS
<1>0. pc \in Labels
  BY DEF TypeOK
<1>1. CASE BootIdle
  <2>1. pc' \in Labels
    BY <1>0, <1>1, GoToMain DEF BootIdle, SetMode, Step, MainLabels
  <2> QED
    BY <1>1, <2>1, SetModeType DEF BootIdle, OperatingMode
<1>2. CASE RunStarts
  <2>1. pc' \in Labels
    BY <1>0, <1>2, GoToMain DEF RunStarts, Step, MainLabels
  <2> QED
    BY <1>2, <2>1, CoreStepType DEF RunStarts, TypeOK, SessionTypeOK, sessionVars
<1>3. CASE LoopTop
  <2>1. pc' \in Labels
    BY <1>0, <1>3, GoToMain DEF LoopTop, Step, MainLabels
  <2> QED
    BY <1>3, <2>1, CoreStepType DEF LoopTop, TypeOK, SessionTypeOK, sessionVars
<1>4. CASE LoopEnds
  <2>1. pc' \in Labels
    BY <1>0, <1>4, GoToMain DEF LoopEnds, Step, MainLabels
  <2> QED
    BY <1>4, <2>1, FrameType DEF LoopEnds
<1>5. CASE UpdateSlope
  <2>1. PICK band \in Slopes :
          LET result == EnforceSlope(slopeLevel, band, mode)
          IN  /\ slope' = band
              /\ slopeLevel' = result.level
              /\ GoTo("main", CASE result.action = "NONE"  -> "drain"
                                 [] result.action = "HOLD"  -> "slope_hold"
                                 [] result.action = "ESTOP" -> "slope_latch")
    BY <1>5 DEF UpdateSlope
  <2>2. band \in SlopeBands /\ slopeLevel \in SlopeLevels
    BY SlopesAssumption DEF TypeOK
  <2>3. /\ EnforceSlope(slopeLevel, band, mode).level \in SlopeLevels
        /\ EnforceSlope(slopeLevel, band, mode).action \in {"NONE", "HOLD", "ESTOP"}
    BY <2>2, EnforceSlopeResult
  <2>4. pc' \in Labels
    BY <1>0, <2>1, <2>3, GoToMain DEF MainLabels
  <2> QED
    BY <1>5, <2>1, <2>2, <2>3, <2>4, CoreStepType
       DEF UpdateSlope, TypeOK, SessionTypeOK, sessionVars
<1>6. CASE SlopeLatch
  <2>1. pc' \in Labels
    BY <1>0, <1>6, GoToMain DEF SlopeLatch, CallTrigger, MainLabels
  <2> QED
    BY <1>6, <2>1, TriggerType DEF SlopeLatch
<1>7. CASE SlopeReport
  <2>1. pc' \in Labels
    BY <1>0, <1>7, GoToMain DEF SlopeReport, CallReport, Step, MainLabels
  <2> QED
    BY <1>7, <2>1, ReportType DEF SlopeReport
<1>8. CASE SlopeEStop
  <2>1. pc' \in Labels
    BY <1>0, <1>8, GoToMain DEF SlopeEStop, SetMode, Step, MainLabels
  <2> QED
    BY <1>8, <2>1, SetModeType DEF SlopeEStop, OperatingMode
<1>9. CASE SlopeHold
  <2>1. pc' \in Labels
    BY <1>0, <1>9, GoToMain DEF SlopeHold, SetMode, Step, MainLabels
  <2> QED
    BY <1>9, <2>1, SetModeType DEF SlopeHold, OperatingMode
<1> QED
  BY <1>1, <1>2, <1>3, <1>4, <1>5, <1>6, <1>7, <1>8, <1>9 DEF MainLoop

(***************************************************************************)
(* The handlers of the server commands, one step per action.               *)
(***************************************************************************)
LEMMA DispatchType == TypeOK /\ Dispatch => TypeOK'
<1> SUFFICES ASSUME TypeOK, Dispatch PROVE TypeOK'
  OBVIOUS
<1>0. pc \in Labels
  BY DEF TypeOK
<1>1. CASE TakeCommand
  <2>1. pc' \in Labels
    <3>1. PICK c \in Commands : GoTo("main", FirstLabel[c])
      BY <1>1 DEF TakeCommand
    <3>2. FirstLabel[c] \in MainLabels
      BY CommandsAssumption DEF FirstLabel, MainLabels
    <3> QED
      BY <1>0, <3>1, <3>2, GoToMain
  <2> QED
    BY <1>1, <2>1, FrameType DEF TakeCommand
<1>2. CASE QueueEmpty
  <2>1. pc' \in Labels
    BY <1>0, <1>2, GoToMain DEF QueueEmpty, Step, MainLabels
  <2> QED
    BY <1>2, <2>1, FrameType DEF QueueEmpty
<1>3. CASE EStopLatch
  <2>1. pc' \in Labels
    BY <1>0, <1>3, GoToMain DEF EStopLatch, CallTrigger, MainLabels
  <2> QED
    BY <1>3, <2>1, TriggerType DEF EStopLatch
<1>4. CASE EStopReport
  <2>1. pc' \in Labels
    BY <1>0, <1>4, GoToMain DEF EStopReport, CallReport, Step, MainLabels
  <2> QED
    BY <1>4, <2>1, ReportType DEF EStopReport
<1>5. CASE EStopEndSession
  <2>1. pc' \in Labels
    BY <1>0, <1>5, GoToMain DEF EStopEndSession, Step, MainLabels
  <2> QED
    BY <1>5, <2>1, CoreStepType DEF EStopEndSession, TypeOK, SessionTypeOK, sessionVars
<1>6. CASE ResetUnlatch
  <2>1. pc' \in Labels
    BY <1>0, <1>6, GoToMain DEF ResetUnlatch, MainLabels
  <2> QED
    BY <1>6, <2>1 DEF ResetUnlatch, UnsetLatch, TypeOK, ModeTypeOK, FaultTypeOK,
       LatchTypeOK, SessionTypeOK, modeVars, coreVars, sessionVars
<1>7. CASE ResetClear
  <2>1. pc' \in Labels
    BY <1>0, <1>7, GoToMain DEF ResetClear, Step, MainLabels
  <2>2. FaultTypeOK'
    BY <1>7, ReportKeepsType, ClearKeepsType, CodesAssumption,
       EStopCodeAssumption
       DEF ResetClear, TypeOK, Severities, FaultTypeOK, ClearLatchFault
  <2> QED
    BY <1>7, <2>1, <2>2, RegistryStepType DEF ResetClear
<1>8. CASE ResetMode
  <2>1. pc' \in Labels
    BY <1>0, <1>8, GoToMain DEF ResetMode, Branch, MainLabels
  <2> QED
    BY <1>8, <2>1, FrameType DEF ResetMode, Branch
<1>9. CASE ResetIdle
  <2>1. pc' \in Labels
    BY <1>0, <1>9, GoToMain DEF ResetIdle, SetMode, Step, MainLabels
  <2> QED
    BY <1>9, <2>1, SetModeType DEF ResetIdle, OperatingMode
<1>10. CASE StopSession
  <2>1. pc' \in Labels
    BY <1>0, <1>10, GoToMain DEF StopSession, Step, MainLabels
  <2> QED
    BY <1>10, <2>1, CoreStepType DEF StopSession, TypeOK, SessionTypeOK, sessionVars,
       AbortIfActive, AbortSession, SessionState,
       RelayState
<1>11. CASE StopManual
  <2>1. pc' \in Labels
    BY <1>0, <1>11, GoToMain DEF StopManual, SetMode, Step, MainLabels
  <2> QED
    BY <1>11, <2>1, SetModeType DEF StopManual, OperatingMode
<1>12. CASE StopIdle
  <2>1. pc' \in Labels
    BY <1>0, <1>12, GoToMain DEF StopIdle, SetMode, Step, MainLabels
  <2> QED
    BY <1>12, <2>1, SetModeType DEF StopIdle, OperatingMode
<1>13. CASE HomeSession
  <2>1. pc' \in Labels
    BY <1>0, <1>13, GoToMain DEF HomeSession, Step, MainLabels
  <2> QED
    BY <1>13, <2>1, CoreStepType DEF HomeSession, TypeOK, SessionTypeOK, sessionVars,
       CompleteSession, SessionState,
       RelayState
<1>14. CASE HomeMode
  <2>1. pc' \in Labels
    BY <1>0, <1>14, GoToMain DEF HomeMode, SetMode, Step, MainLabels
  <2> QED
    BY <1>14, <2>1, SetModeType DEF HomeMode, OperatingMode
<1>15. CASE HomeExecute
  <2>1. pc' \in Labels
    BY <1>0, <1>15, GoToMain DEF HomeExecute, Step, MainLabels
  <2>2. FaultTypeOK'
    BY <1>15, ReportKeepsType, ClearKeepsType, CodesAssumption,
       EStopCodeAssumption
       DEF HomeExecute, TypeOK, Severities, FaultTypeOK
  <2> QED
    BY <1>15, <2>1, <2>2, RegistryStepType DEF HomeExecute
<1>16. CASE HomeIdle
  <2>1. pc' \in Labels
    BY <1>0, <1>16, GoToMain DEF HomeIdle, SetMode, Step, MainLabels
  <2> QED
    BY <1>16, <2>1, SetModeType DEF HomeIdle, OperatingMode
<1>17. CASE StartSwitch
  <2>1. pc' \in Labels
    BY <1>0, <1>17, GoToMain DEF StartSwitch, Branch, MainLabels
  <2> QED
    BY <1>17, <2>1, FrameType DEF StartSwitch, Branch
<1>18. CASE StartSafe
  <2>1. pc' \in Labels
    BY <1>0, <1>18, GoToMain DEF StartSafe, Branch, MainLabels
  <2> QED
    BY <1>18, <2>1, FrameType DEF StartSafe, Branch
<1>19. CASE StartVerify
  <2>1. pc' \in Labels
    BY <1>0, <1>19, GoToMain DEF StartVerify, Step, MainLabels
  <2>2. FaultTypeOK'
    <3>1. FaultTypeOK
      BY DEF TypeOK
    <3>2. CASE UNCHANGED records
      BY <3>1, <3>2 DEF FaultTypeOK
    <3>3. ASSUME NEW g \in {"GPS_SIGNAL_LOST", "GPS_ACCURACY_LOW"},
                 ReportFault(g, "CRITICAL")
          PROVE  FaultTypeOK'
      BY <3>1, <3>3, ReportKeepsType, CodesAssumption DEF Severities
    <3> QED
      BY <1>19, <3>2, <3>3, VerifyAssumption DEF StartVerify, VerifyFinds
  <2> QED
    BY <1>19, <2>1, <2>2, RegistryStepType DEF StartVerify
<1>20. CASE StartAuto
  <2>1. pc' \in Labels
    BY <1>0, <1>20, GoToMain DEF StartAuto, SetMode, Step, MainLabels
  <2> QED
    BY <1>20, <2>1, SetModeType DEF StartAuto, OperatingMode
<1>21. CASE StartSession
  <2>1. pc' \in Labels
    BY <1>0, <1>21, GoToMain DEF StartSession, Step, MainLabels
  <2> QED
    BY <1>21, <2>1, CoreStepType DEF StartSession, TypeOK, SessionTypeOK, sessionVars
<1>22. CASE StartRefused
  <2>1. pc' \in Labels
    BY <1>0, <1>22, GoToMain DEF StartRefused, SessionStep, Step, MainLabels
  <2>2. SessionTypeOK'
    BY <1>22 DEF StartRefused, SessionStep, TypeOK, SessionTypeOK, SessionState,
                 RelayState, sessionVars
  <2> QED
    BY <1>22, <2>1, <2>2, SessionStepType DEF StartRefused, SessionStep
<1>23. CASE StartLowFuel
  <2>1. pc' \in Labels
    BY <1>0, <1>23, GoToMain DEF StartLowFuel, SessionStep, Step, MainLabels
  <2>2. SessionTypeOK'
    BY <1>23 DEF StartLowFuel, SessionStep, TypeOK, SessionTypeOK, SessionState,
                 RelayState, sessionVars, StartWithLowFuel,
                 AbortSession
  <2> QED
    BY <1>23, <2>1, <2>2, SessionStepType DEF StartLowFuel, SessionStep
<1>24. CASE StartIgnition
  <2>1. pc' \in Labels
    BY <1>0, <1>24, GoToMain DEF StartIgnition, SessionStep, Step, MainLabels
  <2>2. SessionTypeOK'
    BY <1>24 DEF StartIgnition, SessionStep, TypeOK, SessionTypeOK, SessionState,
                 RelayState, sessionVars, IgnitionOn
  <2> QED
    BY <1>24, <2>1, <2>2, SessionStepType DEF StartIgnition, SessionStep
<1>25. CASE StartStarter
  <2>1. pc' \in Labels
    BY <1>0, <1>25, GoToMain DEF StartStarter, SessionStep, Step, MainLabels
  <2>2. SessionTypeOK'
    BY <1>25 DEF StartStarter, SessionStep, TypeOK, SessionTypeOK, SessionState,
                 RelayState, sessionVars, StarterOn
  <2> QED
    BY <1>25, <2>1, <2>2, SessionStepType DEF StartStarter, SessionStep
<1>26. CASE StartEngine
  <2>1. pc' \in Labels
    BY <1>0, <1>26, GoToMain DEF StartEngine, SessionStep, Step, MainLabels
  <2>2. SessionTypeOK'
    BY <1>26 DEF StartEngine, SessionStep, TypeOK, SessionTypeOK, SessionState,
                 RelayState, sessionVars, StarterOff
  <2> QED
    BY <1>26, <2>1, <2>2, SessionStepType DEF StartEngine, SessionStep
<1>27. CASE StartPto
  <2>1. pc' \in Labels
    BY <1>0, <1>27, GoToMain DEF StartPto, SessionStep, Step, MainLabels
  <2>2. SessionTypeOK'
    BY <1>27 DEF StartPto, SessionStep, TypeOK, SessionTypeOK, SessionState,
                 RelayState, sessionVars, EngagePto
  <2> QED
    BY <1>27, <2>1, <2>2, SessionStepType DEF StartPto, SessionStep
<1>28. CASE StartMowing
  <2>1. pc' \in Labels
    BY <1>0, <1>28, GoToMain DEF StartMowing, SessionStep, Step, MainLabels
  <2>2. SessionTypeOK'
    BY <1>28 DEF StartMowing, SessionStep, TypeOK, SessionTypeOK, SessionState,
                 RelayState, sessionVars, BeginMowing
  <2> QED
    BY <1>28, <2>1, <2>2, SessionStepType DEF StartMowing, SessionStep
<1> QED
  BY <1>1, <1>2, <1>3, <1>4, <1>5, <1>6, <1>7, <1>8, <1>9, <1>10, <1>11, <1>12, <1>13,
     <1>14, <1>15, <1>16, <1>17, <1>18, <1>19, <1>20, <1>21, <1>22, <1>23, <1>24, <1>25,
     <1>26, <1>27, <1>28 DEF Dispatch

(***************************************************************************)
(* The watchdog thread.                                                    *)
(***************************************************************************)
LEMMA WatchdogType == TypeOK /\ Watchdog => TypeOK'
<1> SUFFICES ASSUME TypeOK, Watchdog PROVE TypeOK'
  OBVIOUS
<1>0. pc \in Labels
  BY DEF TypeOK
<1>1. CASE CheckPico
  <2>1. pc' \in Labels
    BY <1>0, <1>1, GoToWatchdog DEF CheckPico, Step
  <2>2. FaultTypeOK'
    BY <1>1, ReportKeepsType, ClearKeepsType, CodesAssumption,
       EStopCodeAssumption
       DEF CheckPico, TypeOK, Severities, FaultTypeOK
  <2> QED
    BY <1>1, <2>1, <2>2, RegistryStepType DEF CheckPico
<1>2. CASE PicoLatch
  <2>1. pc' \in Labels
    BY <1>0, <1>2, GoToWatchdog DEF PicoLatch, CallTrigger
  <2> QED
    BY <1>2, <2>1, TriggerType DEF PicoLatch
<1>3. CASE PicoReport
  <2>1. pc' \in Labels
    BY <1>0, <1>3, GoToWatchdog DEF PicoReport, CallReport, Step
  <2> QED
    BY <1>3, <2>1, ReportType DEF PicoReport
<1>4. CASE CheckCompute
  <2>1. pc' \in Labels
    BY <1>0, <1>4, GoToWatchdog DEF CheckCompute, Step
  <2>2. FaultTypeOK'
    BY <1>4, ReportKeepsType, ClearKeepsType, CodesAssumption,
       EStopCodeAssumption
       DEF CheckCompute, TypeOK, Severities, FaultTypeOK
  <2> QED
    BY <1>4, <2>1, <2>2, RegistryStepType DEF CheckCompute
<1>5. CASE ComputeLatch
  <2>1. pc' \in Labels
    BY <1>0, <1>5, GoToWatchdog DEF ComputeLatch, CallTrigger
  <2> QED
    BY <1>5, <2>1, TriggerType DEF ComputeLatch
<1>6. CASE ComputeReport
  <2>1. pc' \in Labels
    BY <1>0, <1>6, GoToWatchdog DEF ComputeReport, CallReport, Step
  <2> QED
    BY <1>6, <2>1, ReportType DEF ComputeReport
<1> QED
  BY <1>1, <1>2, <1>3, <1>4, <1>5, <1>6 DEF Watchdog

(***************************************************************************)
(* A signal, and the steps of shutdown().                                  *)
(***************************************************************************)
LEMMA ShutdownType ==
  ASSUME TypeOK, Signal \/ ShutdownAbort \/ ShutdownStop \/ ShutdownOff
  PROVE  TypeOK'
<1>0. pc \in Labels
  BY DEF TypeOK
<1>1. CASE Signal
  <2>1. pc' \in Labels
    BY <1>0, <1>1, GoToMain DEF Signal, Step, MainLabels
  <2> QED
    BY <1>1, <2>1, FrameType DEF Signal
<1>2. CASE ShutdownAbort
  <2>1. pc' \in Labels
    BY <1>0, <1>2, GoToMain DEF ShutdownAbort, Step, MainLabels
  <2> QED
    BY <1>2, <2>1, CoreStepType DEF ShutdownAbort, TypeOK, SessionTypeOK, sessionVars,
       AbortIfActive, AbortSession,
       SessionState, RelayState
<1>3. CASE ShutdownStop
  <2>1. pc' \in Labels
    BY <1>0, <1>3, GoToMain DEF ShutdownStop, Step, MainLabels
  <2> QED
    BY <1>3, <2>1, CoreStepType DEF ShutdownStop, TypeOK, SessionTypeOK, sessionVars
<1>4. CASE ShutdownOff
  <2>1. pc' \in Labels
    BY <1>0, <1>4, GoToMain DEF ShutdownOff, Step, MainLabels
  <2> QED
    BY <1>4, <2>1, CoreStepType DEF ShutdownOff, TypeOK, SessionTypeOK, sessionVars,
       EmergencyOff, AllOff,
       RelayState, coreVars
<1> QED
  BY <1>1, <1>2, <1>3, <1>4

(***************************************************************************)
(* The mode poll thread.                                                   *)
(***************************************************************************)
LEMMA PollType == TypeOK /\ Poll => TypeOK'
<1> SUFFICES ASSUME TypeOK, Poll PROVE TypeOK'
  OBVIOUS
<1>0. pc \in Labels
  BY DEF TypeOK
<1>1. CASE PollMode
  <2>1. pc' \in Labels
    BY <1>0, <1>1, GoToPoll DEF PollMode, Step
  <2> QED
    BY <1>1, <2>1, FrameType DEF PollMode
<1>2. CASE PollFaults
  <2>1. pc' \in Labels
    BY <1>0, <1>2, GoToPoll DEF PollFaults, Branch
  <2> QED
    BY <1>2, <2>1, FrameType DEF PollFaults, Branch
<1>3. CASE PollEStop
  <2>1. pc' \in Labels
    BY <1>0, <1>3, GoToPoll DEF PollEStop, SetMode, Step
  <2> QED
    BY <1>3, <2>1, SetModeType DEF PollEStop, OperatingMode
<1> QED
  BY <1>1, <1>2, <1>3 DEF Poll

(***************************************************************************)
(* The switch thread, update_switch_state().                               *)
(***************************************************************************)
LEMMA SwitchType == TypeOK /\ Switch => TypeOK'
<1> SUFFICES ASSUME TypeOK, Switch PROVE TypeOK'
  OBVIOUS
<1>0. pc \in Labels
  BY DEF TypeOK
<1>1. CASE SwitchMoves
  <2>1. pc' \in Labels
    BY <1>0, <1>1, GoToSwitch DEF SwitchMoves
  <2> QED
    BY <1>1, <2>1 DEF SwitchMoves, StoreSwitchState, TypeOK, ModeTypeOK,
       FaultTypeOK, LatchTypeOK, SessionTypeOK, coreVars, sessionVars
<1>2. CASE SwitchCheck
  <2>1. pc' \in Labels
    BY <1>0, <1>2, GoToSwitch DEF SwitchCheck, Branch
  <2> QED
    BY <1>2, <2>1, FrameType DEF SwitchCheck, Branch
<1>3. CASE SwitchManual
  <2>1. pc' \in Labels
    BY <1>0, <1>3, GoToSwitch DEF SwitchManual, SetMode, Step
  <2> QED
    BY <1>3, <2>1, SetModeType DEF SwitchManual, OperatingMode
<1> QED
  BY <1>1, <1>2, <1>3 DEF Switch

(***************************************************************************)
(* The stream thread, _on_auth_failure().                                  *)
(***************************************************************************)
LEMMA StreamType == TypeOK /\ Stream => TypeOK'
<1> SUFFICES ASSUME TypeOK, Stream PROVE TypeOK'
  OBVIOUS
<1>0. pc \in Labels
  BY DEF TypeOK
<1>1. CASE AuthFails
  <2>1. pc' \in Labels
    BY <1>0, <1>1, GoToStream DEF AuthFails, Step
  <2> QED
    BY <1>1, <2>1, CoreStepType DEF AuthFails, TypeOK, SessionTypeOK, sessionVars
<1>2. CASE Unclaim
  <2>1. pc' \in Labels
    BY <1>0, <1>2, GoToStream DEF Unclaim, SetMode, Step
  <2> QED
    BY <1>2, <2>1, SetModeType DEF Unclaim, OperatingMode
<1>3. CASE StopMain
  <2>1. pc' \in Labels
    BY <1>0, <1>3, GoToStream DEF StopMain, Step
  <2> QED
    BY <1>3, <2>1, CoreStepType DEF StopMain, TypeOK, SessionTypeOK, sessionVars
<1> QED
  BY <1>1, <1>2, <1>3 DEF Stream

(***************************************************************************)
(* The Pico link and the age of the last kick.                             *)
(***************************************************************************)
LEMMA EnvironmentType == TypeOK /\ Environment => TypeOK'
BY DEF Environment, PicoLinkChange, KickAges, TypeOK, ModeTypeOK, FaultTypeOK,
       LatchTypeOK, SessionTypeOK, modeVars, sessionVars

(***************************************************************************)
(* A step that changes nothing.                                            *)
(***************************************************************************)
LEMMA StutterType == TypeOK /\ UNCHANGED vars => TypeOK'
BY DEF vars, TypeOK, ModeTypeOK, FaultTypeOK, LatchTypeOK, SessionTypeOK,
       modeVars, coreVars, sessionVars

(***************************************************************************)
(* Every step of the process keeps the types.                              *)
(***************************************************************************)
LEMMA NextType == TypeOK /\ [Next]_vars => TypeOK'
BY MainLoopType, DispatchType, ShutdownType, WatchdogType, PollType,
   SwitchType, StreamType, EnvironmentType, StutterType DEF Next, Main

(***************************************************************************)
(* The process is well typed at the end of boot().                         *)
(***************************************************************************)
LEMMA InitType == Init => TypeOK
<1> SUFFICES ASSUME Init PROVE TypeOK
  OBVIOUS
<1>1. FaultTypeOK
  BY DEF Init, FaultInit, FaultTypeOK, FaultRecord
<1>2. LatchTypeOK /\ ModeTypeOK
  BY DEF Init, LatchInit, LatchTypeOK, ModeTypeOK, OperatingMode
<1>3. SessionTypeOK
  BY DEF Init, SessionInit, SessionTypeOK, SessionState, AllOff, RelayState
<1>4. pc \in Labels
  BY DEF Init, Labels, MainLabels
<1>5. slope \in SlopeBands /\ slopeLevel \in SlopeLevels
  BY DEF Init, SlopeBands, SlopeLevels
<1>6. /\ running \in BOOLEAN /\ daemons \in BOOLEAN
      /\ kickStale \in BOOLEAN /\ picoAlive \in BOOLEAN
      /\ sessionOpen \in BOOLEAN /\ claimed \in BOOLEAN
  BY DEF Init
<1> QED
  BY <1>1, <1>2, <1>3, <1>4, <1>5, <1>6 DEF TypeOK

(***************************************************************************)
(* Every reachable state of the control process is well typed.             *)
(***************************************************************************)
THEOREM TypeCorrect == Spec => []TypeOK
BY InitType, NextType, PTL DEF Spec

-----------------------------------------------------------------------------
(* The safety invariant.                                                   *)

GpsCodes == {"GPS_SIGNAL_LOST", "GPS_ACCURACY_LOW"}

\* Past the switch check of mow_start.
StartLabels ==
  {"start_safe", "start_verify", "start_auto", "start_session", "start_mow",
   "start_starter", "start_engine", "start_pto", "start_mowing"}

EndLabels == {"shutdown", "shutdown_stop", "shutdown_off", "dead"}

\* The session and the relays go through a start in step.
SessionInv ==
  /\ pc["main"] \in {"start_starter", "start_engine"} =>
       session = "STARTING_ENGINE" /\ relays.ignition
  /\ pc["main"] \in {"start_pto", "start_mowing"} =>
       session = "ENGAGING_PTO" /\ relays.ignition /\ relays.engine
  /\ relays.pto => relays.engine /\ relays.ignition
  /\ relays.pto => \/ IsActive
                   \/ pc["main"] \in EndLabels \cup {"start_mowing"}
  /\ pc["main"] \in EndLabels \ {"shutdown"} => ~IsActive
  /\ pc["main"] = "dead" => relays = AllOff

\* A GPS fault is CRITICAL and unacknowledged, and is not there when mow_start
\* has passed the interlocks.
GpsInv ==
  /\ \A g \in GpsCodes : Active(g) => Blocks(records[g])
  /\ pc["main"] = "start_auto" => \A g \in GpsCodes : ~Active(g)

\* The interlocks have refused a steep slope, and only the main thread, which
\* is past them, moves the slope.
SlopeInv ==
  /\ pc["main"] = "start_auto" => slope \notin {"over", "severe"}
  /\ SteepAutoNeedsHeldLevel

\* Without a switch mow_start goes no further than its first check.
UnwiredInv ==
  ~SwitchWired =>
    /\ ~switchInAuto
    /\ pc["main"] \notin StartLabels
    /\ mode # "AUTO" /\ session = "IDLE" /\ relays = AllOff

SafetyInv == SessionInv /\ GpsInv /\ SlopeInv /\ UnwiredInv

-----------------------------------------------------------------------------
(***************************************************************************)
(* What a thread other than the main thread can do to the state the        *)
(* invariant speaks of: take the unit out of AUTO, and move the switch     *)
(* where there is one.                                                     *)
(***************************************************************************)
LEMMA OtherThreads ==
  ASSUME TypeOK, Watchdog \/ Poll \/ Switch \/ Stream \/ Environment
  PROVE  /\ pc'["main"] = pc["main"]
         /\ UNCHANGED <<session, relays, slope, slopeLevel>>
         /\ mode' = "AUTO" => mode = "AUTO"
         /\ \A g \in GpsCodes : records'[g] = records[g]
         /\ ~SwitchWired => switchInAuto' = switchInAuto
<1> USE DEF sessionVars, coreVars, modeVars
<1>0. pc \in Labels /\ FaultTypeOK
  BY DEF TypeOK
<1>1. CASE Watchdog
  <2>1. pc'["main"] = pc["main"]
    BY <1>0, <1>1, GoToWatchdog
       DEF Watchdog, CheckPico, PicoLatch, PicoReport, CheckCompute,
           ComputeLatch, ComputeReport, CallTrigger, CallReport, Step
  <2>2. UNCHANGED <<session, relays, slope, slopeLevel, mode, switchInAuto>>
    BY <1>1 DEF Watchdog, CheckPico, PicoLatch, PicoReport, CheckCompute,
                ComputeLatch, ComputeReport, CallTrigger, CallReport
  <2>3. \A g \in GpsCodes : records'[g] = records[g]
    BY <1>0, <1>1, CodesAssumption
       DEF Watchdog, CheckPico, PicoLatch, PicoReport, CheckCompute,
           ComputeLatch, ComputeReport, CallTrigger, CallReport, ReportFault,
           ClearFault, ReportLatchFault, FaultTypeOK, GpsCodes
  <2> QED
    BY <2>1, <2>2, <2>3
<1>2. CASE Poll
  BY <1>0, <1>2, GoToPoll
     DEF Poll, PollMode, PollFaults, PollEStop, Branch, SetMode, Step,
         TransitionTo
<1>3. CASE Switch
  BY <1>0, <1>3, GoToSwitch
     DEF Switch, SwitchMoves, SwitchCheck, SwitchManual, Branch, SetMode, Step,
         TransitionTo
<1>4. CASE Stream
  BY <1>0, <1>4, GoToStream
     DEF Stream, AuthFails, Unclaim, StopMain, SetMode, Step, TransitionTo
<1>5. CASE Environment
  BY <1>5 DEF Environment, PicoLinkChange, KickAges
<1> QED
  BY <1>1, <1>2, <1>3, <1>4, <1>5

\* The steps of the main thread outside a start, an end of session and a
\* shutdown.
PlainStep ==
  \/ MainLoop
  \/ TakeCommand \/ QueueEmpty
  \/ EStopLatch \/ EStopReport \/ EStopEndSession
  \/ ResetUnlatch \/ ResetClear \/ ResetMode \/ ResetIdle
  \/ StopManual \/ StopIdle \/ HomeMode \/ HomeExecute \/ HomeIdle

(***************************************************************************)
(* A plain step stays outside a start and a shutdown (or enters the        *)
(* latter), moves no relay and does not enter AUTO.                        *)
(***************************************************************************)
LEMMA PlainSteps ==
  ASSUME TypeOK, PlainStep
  PROVE  /\ pc["main"] \notin StartLabels \cup EndLabels
         /\ pc'["main"] \notin StartLabels \cup (EndLabels \ {"shutdown"})
         /\ UNCHANGED <<session, relays, switchInAuto>>
         /\ mode' = "AUTO" => mode = "AUTO"
<1> USE DEF sessionVars, coreVars, modeVars, StartLabels, EndLabels
<1>0. pc \in Labels
  BY DEF TypeOK
<1>1. CASE MainLoop
  <2>1. CASE UpdateSlope
    <3>1. /\ pc["main"] = "slope"
          /\ \E label \in {"drain", "slope_hold", "slope_latch"} : GoTo("main", label)
      BY <2>1, EnforceSlopeResult, SlopesAssumption DEF UpdateSlope, At, TypeOK
    <3> QED
      BY <1>0, <2>1, <3>1, GoToMain DEF UpdateSlope, MainLabels
  <2>2. CASE BootIdle \/ RunStarts \/ LoopTop \/ LoopEnds
    BY <1>0, <2>2, GoToMain
       DEF BootIdle, RunStarts, LoopTop, LoopEnds, SetMode, Step, At,
           TransitionTo, MainLabels
  <2>3. CASE SlopeLatch \/ SlopeReport \/ SlopeEStop \/ SlopeHold
    BY <1>0, <2>3, GoToMain
       DEF SlopeLatch, SlopeReport, SlopeEStop, SlopeHold, SetMode, Step, At,
           CallTrigger, CallReport, TransitionTo, MainLabels
  <2> QED
    BY <1>1, <2>1, <2>2, <2>3 DEF MainLoop
<1>2. CASE TakeCommand
  <2>1. PICK c \in Commands : GoTo("main", FirstLabel[c])
    BY <1>2 DEF TakeCommand
  <2>2. FirstLabel[c] \in MainLabels \ (StartLabels \cup EndLabels)
    BY CommandsAssumption DEF FirstLabel, MainLabels
  <2> QED
    BY <1>0, <1>2, <2>1, <2>2, GoToMain DEF TakeCommand, At
<1>3. CASE QueueEmpty \/ EStopLatch \/ EStopReport \/ EStopEndSession
  BY <1>0, <1>3, GoToMain
     DEF QueueEmpty, EStopLatch, EStopReport, EStopEndSession, Step, At,
         CallTrigger, CallReport, MainLabels
<1>4. CASE ResetUnlatch \/ ResetClear \/ ResetMode \/ ResetIdle
  BY <1>0, <1>4, GoToMain
     DEF ResetUnlatch, ResetClear, ResetMode, ResetIdle, Branch, SetMode, Step,
         At, TransitionTo, MainLabels
<1>5. CASE StopManual \/ StopIdle \/ HomeMode \/ HomeExecute \/ HomeIdle
  BY <1>0, <1>5, GoToMain
     DEF StopManual, StopIdle, HomeMode, HomeExecute, HomeIdle, SetMode, Step,
         At, TransitionTo, MainLabels
<1> QED
  BY <1>1, <1>2, <1>3, <1>4, <1>5 DEF PlainStep

-----------------------------------------------------------------------------
(***************************************************************************)
(* The session part, under the main thread's steps.                        *)
(***************************************************************************)
LEMMA MainKeepsSession ==
  ASSUME TypeOK, SessionInv, Main \/ Signal
  PROVE  SessionInv'
<1> USE DEF sessionVars, coreVars, modeVars
<1>0. pc \in Labels /\ session \in SessionState /\ relays \in RelayState
  BY DEF TypeOK, SessionTypeOK
<1>1. CASE PlainStep
  BY <1>1, PlainSteps DEF SessionInv, IsActive, StartLabels, EndLabels
<1>2. CASE StopSession \/ HomeSession
  <2>1. pc["main"] \notin StartLabels \cup EndLabels
        /\ pc'["main"] \in {"stop_manual", "home_mode"}
    BY <1>0, <1>2, GoToMain DEF StopSession, HomeSession, Step, At, MainLabels,
                                StartLabels, EndLabels
  <2>2. UNCHANGED <<session, relays>> \/ ~relays'.pto
    BY <1>0, <1>2 DEF StopSession, HomeSession, AbortIfActive, AbortSession,
                      CompleteSession, RelayState
  <2> QED
    BY <2>1, <2>2 DEF SessionInv, IsActive, StartLabels, EndLabels
<1>3. CASE StartSwitch \/ StartSafe \/ StartVerify \/ StartAuto \/ StartSession
  <2>1. /\ pc["main"] \notin EndLabels \cup {"start_mowing"}
        /\ pc'["main"] \in {"start_safe", "start_verify", "start_auto",
                            "start_session", "start_mow", "drain"}
    BY <1>0, <1>3, GoToMain
       DEF StartSwitch, StartSafe, StartVerify, StartAuto, StartSession, Branch,
           SetMode, Step, At, MainLabels, EndLabels
  <2>2. UNCHANGED <<session, relays>>
    BY <1>3 DEF StartSwitch, StartSafe, StartVerify, StartAuto, StartSession,
                Branch, SetMode
  <2> QED
    BY <2>1, <2>2 DEF SessionInv, IsActive, EndLabels
<1>4. CASE StartRefused \/ StartLowFuel
  <2>1. pc["main"] = "start_mow" /\ pc'["main"] = "drain"
    BY <1>0, <1>4, GoToMain
       DEF StartRefused, StartLowFuel, SessionStep, Step, At, MainLabels
  <2>2. UNCHANGED <<session, relays>> \/ ~relays'.pto
    BY <1>0, <1>4 DEF StartRefused, StartLowFuel, SessionStep, StartWithLowFuel,
                      AbortSession, RelayState
  <2> QED
    BY <2>1, <2>2 DEF SessionInv, IsActive, EndLabels
<1>5. CASE StartIgnition
  <2>1. pc["main"] = "start_mow" /\ pc'["main"] = "start_starter"
    BY <1>0, <1>5, GoToMain DEF StartIgnition, SessionStep, Step, At, MainLabels
  <2> QED
    BY <1>0, <1>5, <2>1 DEF StartIgnition, SessionStep, IgnitionOn, StartAllowed,
                            RelayState, SessionInv, IsActive, EndLabels
<1>6. CASE StartStarter
  <2>1. pc["main"] = "start_starter" /\ pc'["main"] = "start_engine"
    BY <1>0, <1>6, GoToMain DEF StartStarter, SessionStep, Step, At, MainLabels
  <2> QED
    BY <1>0, <1>6, <2>1 DEF StartStarter, SessionStep, StarterOn, RelayState,
                            SessionInv, IsActive, EndLabels
<1>7. CASE StartEngine
  <2>1. pc["main"] = "start_engine" /\ pc'["main"] = "start_pto"
    BY <1>0, <1>7, GoToMain DEF StartEngine, SessionStep, Step, At, MainLabels
  <2> QED
    BY <1>0, <1>7, <2>1 DEF StartEngine, SessionStep, StarterOff, RelayState,
                            SessionInv, IsActive, EndLabels
<1>8. CASE StartPto
  <2>1. pc["main"] = "start_pto" /\ pc'["main"] = "start_mowing"
    BY <1>0, <1>8, GoToMain DEF StartPto, SessionStep, Step, At, MainLabels
  <2> QED
    BY <1>0, <1>8, <2>1 DEF StartPto, SessionStep, EngagePto, RelayState,
                            SessionInv, IsActive, EndLabels
<1>9. CASE StartMowing
  <2>1. pc["main"] = "start_mowing" /\ pc'["main"] = "drain"
    BY <1>0, <1>9, GoToMain DEF StartMowing, SessionStep, Step, At, MainLabels
  <2> QED
    BY <1>0, <1>9, <2>1 DEF StartMowing, SessionStep, BeginMowing,
                            SessionInv, IsActive, EndLabels
<1>10. CASE Signal \/ ShutdownAbort \/ ShutdownStop
  <2>1. \/ /\ pc["main"] \notin EndLabels /\ pc'["main"] = "shutdown"
           /\ UNCHANGED <<session, relays>>
        \/ /\ pc["main"] = "shutdown" /\ pc'["main"] = "shutdown_stop"
           /\ AbortIfActive
        \/ /\ pc["main"] = "shutdown_stop" /\ pc'["main"] = "shutdown_off"
           /\ UNCHANGED <<session, relays>>
    BY <1>0, <1>10, GoToMain DEF Signal, ShutdownAbort, ShutdownStop, Step, At,
                                 MainLabels, EndLabels
  <2>2. relays.pto => relays.engine /\ relays.ignition
    BY DEF SessionInv
  <2>3. /\ UNCHANGED <<session, relays>> \/ ~relays'.pto
        /\ pc'["main"] # "shutdown" => session' # "MOWING"
    BY <1>0, <2>1 DEF AbortIfActive, AbortSession, IsActive, RelayState,
                      SessionInv, EndLabels
  <2> QED
    BY <2>1, <2>2, <2>3 DEF SessionInv, IsActive, EndLabels
<1>11. CASE ShutdownOff
  <2>1. pc["main"] = "shutdown_off" /\ pc'["main"] = "dead"
    BY <1>0, <1>11, GoToMain DEF ShutdownOff, Step, At, MainLabels
  <2> QED
    BY <1>11, <2>1 DEF ShutdownOff, EmergencyOff, AllOff, SessionInv, IsActive,
                       EndLabels
<1> QED
  BY <1>1, <1>2, <1>3, <1>4, <1>5, <1>6, <1>7, <1>8, <1>9, <1>10, <1>11
     DEF Main, Dispatch, PlainStep

\* The steps of mow_start after the interlocks, the ends of a session and the
\* shutdown: they leave the registry, the slope and the mode alone.
SessionSteps ==
  \/ StopSession \/ HomeSession \/ StartSession
  \/ StartRefused \/ StartLowFuel \/ StartIgnition \/ StartStarter
  \/ StartEngine \/ StartPto \/ StartMowing
  \/ Signal \/ ShutdownAbort \/ ShutdownStop \/ ShutdownOff

(***************************************************************************)
(* What the session steps leave alone.                                     *)
(***************************************************************************)
LEMMA SessionStepsFrame ==
  ASSUME TypeOK, SessionSteps
  PROVE  /\ UNCHANGED <<records, mode, switchInAuto, slope, slopeLevel>>
         /\ pc'["main"] # "start_auto"
         /\ pc["main"] \notin StartLabels => pc'["main"] \notin StartLabels
<1> USE DEF sessionVars, coreVars, modeVars
<1>0. pc \in Labels
  BY DEF TypeOK
<1>1. CASE StopSession \/ HomeSession \/ StartSession
  BY <1>0, <1>1, GoToMain
     DEF StopSession, HomeSession, StartSession, Step, At, MainLabels, StartLabels
<1>2. CASE \/ StartRefused \/ StartLowFuel \/ StartIgnition \/ StartStarter
           \/ StartEngine \/ StartPto \/ StartMowing
  <2>1. /\ UNCHANGED <<records, mode, switchInAuto, slope, slopeLevel>>
        /\ pc["main"] \in StartLabels
    BY <1>2 DEF StartRefused, StartLowFuel, StartIgnition, StartStarter,
         StartEngine, StartPto, StartMowing, SessionStep, Step, At, StartLabels
  <2>2. pc'["main"] # "start_auto"
    BY <1>0, <1>2, GoToMain
       DEF StartRefused, StartLowFuel, StartIgnition, StartStarter, StartEngine,
           StartPto, StartMowing, SessionStep, Step, MainLabels
  <2> QED
    BY <2>1, <2>2
<1>3. CASE Signal \/ ShutdownAbort \/ ShutdownStop \/ ShutdownOff
  BY <1>0, <1>3, GoToMain
     DEF Signal, ShutdownAbort, ShutdownStop, ShutdownOff, Step, MainLabels,
         StartLabels
<1> QED
  BY <1>1, <1>2, <1>3 DEF SessionSteps

(***************************************************************************)
(* The main thread's steps split into those of a starting session and all  *)
(* the others.                                                             *)
(***************************************************************************)
LEMMA MainSteps ==
  ASSUME Main \/ Signal
  PROVE  PlainStep \/ SessionSteps \/ StartSwitch \/ StartSafe \/ StartVerify
         \/ StartAuto
BY DEF Main, Dispatch, PlainStep, SessionSteps

(***************************************************************************)
(* The interlocks either pass, with no blocking fault and no steep slope,  *)
(* or leave the start, at most with one more blocking GPS fault.           *)
(***************************************************************************)
LEMMA VerifyStep ==
  ASSUME TypeOK, StartVerify
  PROVE  \/ /\ UNCHANGED records /\ IsSafeToOperate
            /\ slope \notin {"over", "severe"}
            /\ pc'["main"] = "start_auto"
         \/ /\ pc'["main"] = "drain"
            /\ \A g \in GpsCodes : records'[g] = records[g] \/ Blocks(records'[g])
<1>0. pc \in Labels /\ FaultTypeOK
  BY DEF TypeOK
<1>1. CASE ~IsSafeToOperate
  BY <1>0, <1>1, GoToMain DEF StartVerify, MainLabels
<1>2. CASE IsSafeToOperate
  <2>1. PICK outcome \in VerifyOutcomes \cup {"refuse"} :
          /\ VerifyFinds(outcome)
          /\ GoTo("main", IF outcome = "pass" THEN "start_auto" ELSE "drain")
    BY <1>2 DEF StartVerify
  <2>2. CASE outcome = "pass"
    BY <1>0, <1>2, <2>1, <2>2, GoToMain
       DEF VerifyFinds, SlopeRefusesAuto, MainLabels
  <2>3. CASE outcome # "pass"
    <3>1. pc'["main"] = "drain"
      BY <1>0, <2>1, <2>3, GoToMain DEF MainLabels
    <3>2. \/ UNCHANGED records
          \/ \E g \in GpsCodes : ReportFault(g, "CRITICAL")
      BY <2>1, <2>3, VerifyAssumption DEF VerifyFinds, GpsCodes
    <3>3. \A g \in GpsCodes : records'[g] = records[g] \/ Blocks(records'[g])
      BY <1>0, <3>2, CodesAssumption
         DEF ReportFault, FaultTypeOK, Blocks, GpsCodes
    <3> QED
      BY <3>1, <3>3
  <2> QED
    BY <2>2, <2>3
<1> QED
  BY <1>1, <1>2

(***************************************************************************)
(* The part about GPS faults, under the main thread's steps.               *)
(***************************************************************************)
LEMMA MainKeepsGps ==
  ASSUME TypeOK, GpsInv, Main \/ Signal
  PROVE  GpsInv'
<1>0. pc \in Labels /\ FaultTypeOK
  BY DEF TypeOK
<1>1. CASE PlainStep
  <2>1. pc'["main"] # "start_auto"
    BY <1>1, PlainSteps DEF StartLabels
  <2>2. \A g \in GpsCodes : records'[g] = records[g] \/ Blocks(records'[g])
    <3>1. CASE HomeExecute
      BY <1>0, <3>1, CodesAssumption
         DEF HomeExecute, ReportFault, FaultTypeOK, Blocks, GpsCodes
    <3>2. CASE MainLoop
      BY <1>0, <3>2, CodesAssumption
         DEF MainLoop, BootIdle, RunStarts, LoopTop, LoopEnds, UpdateSlope,
             SlopeLatch, SlopeReport, SlopeEStop, SlopeHold, SetMode,
             CallTrigger, CallReport, ReportLatchFault, ReportFault,
             FaultTypeOK, GpsCodes
    <3>3. CASE \/ TakeCommand \/ QueueEmpty
               \/ EStopLatch \/ EStopReport \/ EStopEndSession
               \/ ResetUnlatch \/ ResetClear \/ ResetMode \/ ResetIdle
      BY <1>0, <3>3, CodesAssumption
         DEF TakeCommand, QueueEmpty, EStopLatch, EStopReport, EStopEndSession,
             ResetUnlatch, ResetClear, ResetMode, ResetIdle, SetMode, Branch,
             CallTrigger, CallReport, ReportLatchFault, ReportFault,
             ClearLatchFault, ClearFault, FaultTypeOK, GpsCodes
    <3>4. CASE StopManual \/ StopIdle \/ HomeMode \/ HomeIdle
      BY <3>4 DEF StopManual, StopIdle, HomeMode, HomeIdle, SetMode
    <3> QED
      BY <1>1, <3>1, <3>2, <3>3, <3>4 DEF PlainStep
  <2> QED
    BY <2>1, <2>2 DEF GpsInv, Active
<1>2. CASE SessionSteps
  BY <1>2, SessionStepsFrame DEF GpsInv, Active
<1>3. CASE StartSwitch \/ StartSafe \/ StartAuto
  <2>1. UNCHANGED records
    BY <1>3 DEF StartSwitch, StartSafe, StartAuto, Branch, SetMode
  <2>2. pc'["main"] # "start_auto"
    BY <1>0, <1>3, GoToMain
       DEF StartSwitch, StartSafe, StartAuto, Branch, SetMode, Step, MainLabels
  <2> QED
    BY <2>1, <2>2 DEF GpsInv, Active
<1>4. CASE StartVerify
  <2>1. IsSafeToOperate => \A g \in GpsCodes : ~Active(g)
    BY CodesAssumption DEF GpsInv, IsSafeToOperate, GpsCodes
  <2> QED
    BY <1>4, <2>1, VerifyStep DEF GpsInv, Active
<1> QED
  BY <1>1, <1>2, <1>3, <1>4, MainSteps

(***************************************************************************)
(* The part about the slope level, under the main thread's steps.          *)
(***************************************************************************)
LEMMA MainKeepsSlope ==
  ASSUME TypeOK, SlopeInv, Main \/ Signal
  PROVE  SlopeInv'
<1> USE DEF sessionVars, coreVars, modeVars
<1>0. /\ pc \in Labels /\ slope \in SlopeBands /\ slopeLevel \in SlopeLevels
  BY DEF TypeOK
<1>1. CASE UpdateSlope
  <2>1. PICK band \in Slopes :
          slope' = band /\ slopeLevel' = EnforceSlope(slopeLevel, band, mode).level
    BY <1>1 DEF UpdateSlope
  <2>2. mode' = mode /\ pc'["main"] # "start_auto"
    BY <1>1, PlainSteps DEF UpdateSlope, PlainStep, MainLoop, StartLabels
  <2>3. ASSUME mode = "AUTO", band \in {"over", "severe"}
        PROVE  EnforceSlope(slopeLevel, band, mode).level >= Desired(band)
    BY <1>0, <2>3 DEF EnforceSlope, Desired, SlopeLevels
  <2> QED
    BY <2>1, <2>2, <2>3 DEF SlopeInv, SteepAutoNeedsHeldLevel
<1>2. CASE PlainStep /\ ~UpdateSlope
  <2>1. UNCHANGED <<slope, slopeLevel>>
    BY <1>2 DEF PlainStep, MainLoop, BootIdle, RunStarts, LoopTop, LoopEnds,
         SlopeLatch, SlopeReport, SlopeEStop, SlopeHold, TakeCommand, QueueEmpty,
         EStopLatch, EStopReport, EStopEndSession, ResetUnlatch, ResetClear,
         ResetMode, ResetIdle, StopManual, StopIdle, HomeMode, HomeExecute,
         HomeIdle, SetMode, Branch, CallTrigger, CallReport
  <2> QED
    BY <1>2, <2>1, PlainSteps DEF SlopeInv, SteepAutoNeedsHeldLevel, StartLabels
<1>3. CASE SessionSteps
  BY <1>3, SessionStepsFrame DEF SlopeInv, SteepAutoNeedsHeldLevel
<1>4. CASE StartSwitch \/ StartSafe
  <2>1. UNCHANGED <<slope, slopeLevel, mode>>
    BY <1>4 DEF StartSwitch, StartSafe, Branch
  <2>2. pc'["main"] # "start_auto"
    BY <1>0, <1>4, GoToMain DEF StartSwitch, StartSafe, Branch, MainLabels
  <2> QED
    BY <2>1, <2>2 DEF SlopeInv, SteepAutoNeedsHeldLevel
<1>5. CASE StartVerify
  BY <1>5, VerifyStep DEF StartVerify, SlopeInv, SteepAutoNeedsHeldLevel
<1>6. CASE StartAuto
  <2>1. /\ pc["main"] = "start_auto" /\ pc'["main"] = "start_session"
        /\ UNCHANGED <<slope, slopeLevel>>
    BY <1>0, <1>6, GoToMain DEF StartAuto, SetMode, Step, At, MainLabels
  <2> QED
    BY <2>1 DEF SlopeInv, SteepAutoNeedsHeldLevel
<1> QED
  BY <1>1, <1>2, <1>3, <1>4, <1>5, <1>6, MainSteps

(***************************************************************************)
(* The part about the unwired switch, under the main thread's steps.       *)
(***************************************************************************)
LEMMA MainKeepsUnwired ==
  ASSUME TypeOK, UnwiredInv, Main \/ Signal
  PROVE  UnwiredInv'
<1> USE DEF sessionVars, coreVars, modeVars
<1> SUFFICES ASSUME ~SwitchWired
             PROVE  /\ ~switchInAuto' /\ pc'["main"] \notin StartLabels
                    /\ mode' # "AUTO" /\ session' = "IDLE" /\ relays' = AllOff
  BY DEF UnwiredInv
<1>0. /\ pc \in Labels
      /\ ~switchInAuto /\ pc["main"] \notin StartLabels
      /\ mode # "AUTO" /\ session = "IDLE" /\ relays = AllOff
  BY DEF TypeOK, UnwiredInv
<1>1. CASE PlainStep
  BY <1>0, <1>1, PlainSteps
<1>2. CASE SessionSteps
  <2>1. session' = "IDLE" /\ relays' = AllOff
    BY <1>0, <1>2
       DEF SessionSteps, StopSession, HomeSession, StartSession, StartRefused,
           StartLowFuel, StartIgnition, StartStarter, StartEngine, StartPto,
           StartMowing, Signal, ShutdownAbort, ShutdownStop, ShutdownOff,
           SessionStep, Step, At, StartLabels, AbortIfActive, IsActive,
           EmergencyOff
  <2> QED
    BY <1>0, <1>2, <2>1, SessionStepsFrame
<1>3. CASE StartSwitch
  BY <1>0, <1>3, GoToMain DEF StartSwitch, Branch, MainLabels, StartLabels
<1>4. CASE StartSafe \/ StartVerify \/ StartAuto
  BY <1>0, <1>4 DEF StartSafe, StartVerify, StartAuto, Branch, SetMode, Step, At,
                    StartLabels
<1> QED
  BY <1>1, <1>2, <1>3, <1>4, MainSteps

-----------------------------------------------------------------------------
(***************************************************************************)
(* The other threads, a signal and the environment keep every part.        *)
(***************************************************************************)
LEMMA OthersKeepSafety ==
  ASSUME TypeOK, SafetyInv, Watchdog \/ Poll \/ Switch \/ Stream \/ Environment
  PROVE  SafetyInv'
<1>1. SessionInv'
  BY OtherThreads DEF SafetyInv, SessionInv, IsActive
<1>2. GpsInv'
  BY OtherThreads DEF SafetyInv, GpsInv, Active
<1>3. SlopeInv'
  BY OtherThreads DEF SafetyInv, SlopeInv, SteepAutoNeedsHeldLevel
<1>4. UnwiredInv'
  BY OtherThreads DEF SafetyInv, UnwiredInv
<1> QED
  BY <1>1, <1>2, <1>3, <1>4 DEF SafetyInv

(***************************************************************************)
(* A step that changes nothing keeps every part.                           *)
(***************************************************************************)
LEMMA StutterKeepsSafety ==
  ASSUME SafetyInv, UNCHANGED vars
  PROVE  SafetyInv'
BY DEF vars, sessionVars, coreVars, modeVars, SafetyInv, SessionInv, GpsInv,
       SlopeInv, UnwiredInv, SteepAutoNeedsHeldLevel, IsActive, Active

(***************************************************************************)
(* Every step of the process keeps the safety invariant.                   *)
(***************************************************************************)
LEMMA NextSafety == TypeOK /\ SafetyInv /\ [Next]_vars => SafetyInv'
<1> SUFFICES ASSUME TypeOK, SafetyInv, [Next]_vars PROVE SafetyInv'
  OBVIOUS
<1>1. CASE Main \/ Signal
  BY <1>1, MainKeepsSession, MainKeepsGps, MainKeepsSlope, MainKeepsUnwired
     DEF SafetyInv
<1>2. CASE Watchdog \/ Poll \/ Switch \/ Stream \/ Environment
  BY <1>2, OthersKeepSafety
<1>3. CASE UNCHANGED vars
  BY <1>3, StutterKeepsSafety
<1> QED
  BY <1>1, <1>2, <1>3 DEF Next

(***************************************************************************)
(* The safety invariant holds at the end of boot().                        *)
(***************************************************************************)
LEMMA InitSafety == Init => SafetyInv
<1> SUFFICES ASSUME Init PROVE SafetyInv
  OBVIOUS
<1>1. pc["main"] = "boot"
  BY DEF Init
<1>2. SessionInv
  BY <1>1 DEF Init, SessionInit, SessionInv, AllOff, EndLabels
<1>3. GpsInv
  BY <1>1, CodesAssumption DEF Init, FaultInit, GpsInv, Active, NoFault, GpsCodes
<1>4. SlopeInv /\ UnwiredInv
  BY <1>1 DEF Init, SessionInit, SlopeInv, SteepAutoNeedsHeldLevel, UnwiredInv,
              StartLabels
<1> QED
  BY <1>2, <1>3, <1>4 DEF SafetyInv

(***************************************************************************)
(* Every reachable state of the control process satisfies the safety       *)
(* invariant, from which the four invariants below follow.                 *)
(***************************************************************************)
THEOREM SafetyInvariant == Spec => []SafetyInv
BY InitSafety, NextSafety, TypeCorrect, PTL DEF Spec

(***************************************************************************)
(* The PTO relay is on only over a running engine, and at rest only in a   *)
(* session that is mowing.                                                 *)
(***************************************************************************)
THEOREM PtoDisciplineTheorem == Spec => []PtoDiscipline
<1>1. SafetyInv => PtoDiscipline
  BY DEF SafetyInv, SessionInv, PtoDiscipline, MainAtRest, EndLabels
<1> QED
  BY <1>1, SafetyInvariant, PTL

(***************************************************************************)
(* A process that has ended has its relays off and no mowing session.      *)
(***************************************************************************)
THEOREM ShutdownTheorem == Spec => []ShutdownSafe
<1>1. SafetyInv => ShutdownSafe
  BY DEF SafetyInv, SessionInv, ShutdownSafe, At, EndLabels
<1> QED
  BY <1>1, SafetyInvariant, PTL

(***************************************************************************)
(* AUTO over the slope limit only under a hysteresis level at least as     *)
(* high as the slope's.                                                    *)
(***************************************************************************)
THEOREM SteepAutoTheorem == Spec => []SteepAutoNeedsHeldLevel
<1>1. SafetyInv => SteepAutoNeedsHeldLevel
  BY DEF SafetyInv, SlopeInv
<1> QED
  BY <1>1, SafetyInvariant, PTL

(***************************************************************************)
(* Without a caller of update_switch_state() the unit never mows.          *)
(***************************************************************************)
THEOREM UnwiredTheorem == Spec => []UnwiredNeverMows
<1>1. SafetyInv => UnwiredNeverMows
  BY DEF SafetyInv, UnwiredInv, UnwiredNeverMows
<1> QED
  BY <1>1, SafetyInvariant, PTL

(***************************************************************************)
(* A unit with a GPS fault that is not in AUTO does not enter it: only     *)
(* mow_start's last step does, and it has found no such fault.             *)
(***************************************************************************)
THEOREM GpsFaultTheorem == Spec => GpsFaultLocksOutAuto
<1>1. TypeOK /\ SafetyInv /\ [Next]_vars =>
        ( /\ Active("GPS_SIGNAL_LOST") \/ Active("GPS_ACCURACY_LOW")
          /\ mode # "AUTO"
          => mode' # "AUTO" )
  <2> SUFFICES ASSUME TypeOK, SafetyInv, [Next]_vars, mode # "AUTO",
                      Active("GPS_SIGNAL_LOST") \/ Active("GPS_ACCURACY_LOW")
               PROVE  mode' # "AUTO"
    OBVIOUS
  <2>1. CASE PlainStep
    BY <2>1, PlainSteps
  <2>2. CASE SessionSteps
    BY <2>2, SessionStepsFrame
  <2>3. CASE StartSwitch \/ StartSafe \/ StartVerify
    BY <2>3 DEF StartSwitch, StartSafe, StartVerify, Branch, modeVars
  <2>4. CASE StartAuto
    BY <2>4 DEF StartAuto, SetMode, Step, At, SafetyInv, GpsInv, GpsCodes
  <2>5. CASE Watchdog \/ Poll \/ Switch \/ Stream \/ Environment
    BY <2>5, OtherThreads
  <2>6. CASE UNCHANGED vars
    BY <2>6 DEF vars, modeVars
  <2> QED
    BY <2>1, <2>2, <2>3, <2>4, <2>5, <2>6, MainSteps DEF Next
<1> QED
  BY <1>1, TypeCorrect, SafetyInvariant, PTL DEF Spec, GpsFaultLocksOutAuto

(***************************************************************************)
(* A session that is over is over for the life of the process.             *)
(***************************************************************************)
THEOREM NeverRevivesTheorem == Spec => SessionNeverRevives
<1>1. TypeOK /\ SafetyInv /\ [Next]_vars =>
        (session \in {"ABORTED", "RETURNING_HOME"} => UNCHANGED session)
  <2> SUFFICES ASSUME TypeOK, SafetyInv, [Next]_vars,
                      session \in {"ABORTED", "RETURNING_HOME"}
               PROVE  session' = session
    OBVIOUS
  <2>1. CASE PlainStep
    BY <2>1, PlainSteps
  <2>2. CASE SessionSteps
    <3>1. pc["main"] \notin {"start_starter", "start_engine", "start_pto",
                             "start_mowing"}
      BY DEF SafetyInv, SessionInv
    <3> QED
      BY <2>2, <3>1
         DEF SessionSteps, StopSession, HomeSession, StartSession, StartRefused,
             StartLowFuel, StartIgnition, StartStarter, StartEngine, StartPto,
             StartMowing, Signal, ShutdownAbort, ShutdownStop, ShutdownOff,
             SessionStep, Step, At, AbortIfActive, IsActive, StartWithLowFuel,
             IgnitionOn, StartAllowed, sessionVars
  <2>3. CASE StartSwitch \/ StartSafe \/ StartVerify \/ StartAuto
    BY <2>3 DEF StartSwitch, StartSafe, StartVerify, StartAuto, Branch, SetMode,
                sessionVars
  <2>4. CASE Watchdog \/ Poll \/ Switch \/ Stream \/ Environment
    BY <2>4, OtherThreads
  <2>5. CASE UNCHANGED vars
    BY <2>5 DEF vars, sessionVars
  <2> QED
    BY <2>1, <2>2, <2>3, <2>4, <2>5, MainSteps DEF Next
<1> QED
  BY <1>1, TypeCorrect, SafetyInvariant, PTL DEF Spec, SessionNeverRevives
=============================================================================
